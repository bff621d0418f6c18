--------------------------- MODULE LazyHeapProofs ---------------------------
(***************************************************************************)
(* Proofs about the heap with lazy deletion, for every set of keys and of  *)
(* timestamps and every queue_size: used with timestamps that never go back, it  *)
(* is a priority queue, however many marked elements it holds.             *)
(***************************************************************************)
EXTENDS LazyHeap, NumberLemmas, SequenceTheorems, FiniteSetTheorems

-----------------------------------------------------------------------------
(* Elements and how they compare.                                          *)

\* a has to go below b: a is unmarked, and b marked or earlier.
Larger(a, b) == ~a.is_deleted /\ (b.is_deleted \/ b.data.prio < a.data.prio)

\* The order that OrderedPaths speaks of.
Fits(a, b) == ~a.is_deleted /\ ~b.is_deleted => a.data.prio <= b.data.prio

\* The fields of an element.
LEMMA ElementFields ==
  ASSUME NEW e \in Element
  PROVE  /\ e.is_deleted \in BOOLEAN /\ e.h \in Addresses
         /\ e.is_deleted => e = [h |-> e.h, data |-> NoData, is_deleted |-> TRUE]
         /\ ~e.is_deleted => /\ e.data \in Entries /\ e.data.prio \in Prios
                             /\ e.data.prio \in Nat /\ e.data.key \in HeapKeys
BY HeapAssumption DEF Element, Entries

\* heap_element_compare decides just that.
LEMMA CompareIsLarger ==
  ASSUME NEW a \in Element, NEW b \in Element
  PROVE  /\ heap_element_compare(a, b) > 0 <=> Larger(a, b)
         /\ heap_element_compare(a, b) < 0 <=> Larger(b, a)
<1>1. /\ a.is_deleted \in BOOLEAN /\ b.is_deleted \in BOOLEAN
      /\ ~a.is_deleted => a.data.prio \in Nat
      /\ ~b.is_deleted => b.data.prio \in Nat
  BY ElementFields
<1>2. CASE a.is_deleted /\ b.is_deleted
  <2>1. heap_element_compare(a, b) = 0
    BY <1>2 DEF heap_element_compare
  <2> QED BY <1>2, <2>1 DEF Larger
<1>3. CASE a.is_deleted /\ ~b.is_deleted
  <2>1. heap_element_compare(a, b) = -1
    BY <1>3 DEF heap_element_compare
  <2> QED BY <1>3, <2>1 DEF Larger
<1>4. CASE ~a.is_deleted /\ b.is_deleted
  <2>1. heap_element_compare(a, b) = 1
    BY <1>4 DEF heap_element_compare
  <2> QED BY <1>4, <2>1 DEF Larger
<1>5. CASE ~a.is_deleted /\ ~b.is_deleted
  <2>1. heap_element_compare(a, b) = a.data.prio - b.data.prio
    BY <1>5 DEF heap_element_compare
  <2> QED BY <1>1, <1>5, <2>1 DEF Larger
<1> QED BY <1>1, <1>2, <1>3, <1>4, <1>5

\* What is not larger fits above, and what is, below; both orders go on.
LEMMA LargerFits ==
  ASSUME NEW a \in Element, NEW b \in Element, NEW c \in Element
  PROVE  /\ ~Larger(a, b) => Fits(a, b) /\ (~a.is_deleted => ~b.is_deleted)
         /\ Larger(a, b) => Fits(b, a)
         /\ Larger(a, b) /\ ~Larger(a, c) => ~Larger(b, c)
         /\ Larger(a, b) /\ Larger(b, c) => Larger(a, c)
         /\ ~Larger(a, b) /\ ~a.is_deleted /\ Fits(b, c) => Fits(a, c)
<1>1. /\ a.is_deleted \in BOOLEAN /\ b.is_deleted \in BOOLEAN /\ c.is_deleted \in BOOLEAN
      /\ ~a.is_deleted => a.data.prio \in Nat
      /\ ~b.is_deleted => b.data.prio \in Nat
      /\ ~c.is_deleted => c.data.prio \in Nat
  BY ElementFields
<1> QED BY <1>1 DEF Larger, Fits

-----------------------------------------------------------------------------
(* The positions of an array heap.                                         *)

\* Parents and children.
LEMMA Parents ==
  ASSUME NEW k \in Nat
  PROVE  /\ k \div 2 \in Nat
         /\ k = 2 * (k \div 2) \/ k = 2 * (k \div 2) + 1
         /\ k > 0 => k \div 2 < k
         /\ k > 1 => k \div 2 > 0
         /\ (2 * k) \div 2 = k /\ (2 * k + 1) \div 2 = k
OBVIOUS

\* Closed sets of positions, by which Below is defined.
Closed(S, i, n) == \A k \in 1 .. n : k \div 2 = i \/ k \div 2 \in S => k \in S

\* A child of i, and what is below a child, is below i; nothing else is, and
\* all of it comes after i.
LEMMA BelowIs ==
  ASSUME NEW n \in Nat, NEW i \in 1 .. n
  PROVE  /\ Below(i, n) \subseteq i + 1 .. n
         /\ Closed(Below(i, n), i, n)
         /\ \A j \in Below(i, n) : j \div 2 = i \/ j \div 2 \in Below(i, n)
         /\ \A S \in SUBSET (1 .. n) : Closed(S, i, n) => Below(i, n) \subseteq S
<1>1. \A S \in SUBSET (1 .. n) : Closed(S, i, n) => Below(i, n) \subseteq S
  BY DEF Below, Closed
<1>2. Below(i, n) \subseteq 1 .. n
  BY DEF Below
<1>3. Below(i, n) \subseteq i + 1 .. n
  <2> DEFINE S == i + 1 .. n
  <2>1. S \in SUBSET (1 .. n)
    OBVIOUS
  <2>2. Closed(S, i, n)
    <3> SUFFICES ASSUME NEW k \in 1 .. n, k \div 2 = i \/ k \div 2 \in S PROVE k \in S
      BY DEF Closed
    <3>1. k \div 2 < k /\ k \div 2 \in Nat
      BY Parents
    <3> QED BY <3>1
  <2> QED BY <1>1, <2>1, <2>2
<1>4. Closed(Below(i, n), i, n)
  BY DEF Closed, Below
<1>5. \A j \in Below(i, n) : j \div 2 = i \/ j \div 2 \in Below(i, n)
  <2> DEFINE S == {j \in Below(i, n) : j \div 2 = i \/ j \div 2 \in Below(i, n)}
  <2>1. S \in SUBSET (1 .. n)
    BY <1>2
  <2>2. Closed(S, i, n)
    BY <1>4 DEF Closed
  <2> QED BY <1>1, <2>1, <2>2
<1> QED BY <1>1, <1>3, <1>4, <1>5

\* What is below i is a child of i or below one.
LEMMA BelowChildren ==
  ASSUME NEW n \in Nat, NEW i \in 1 .. n, NEW j \in Below(i, n)
  PROVE  j \div 2 = i \/ \E c \in 1 .. n : c \div 2 = i /\ j \in Below(c, n)
<1> DEFINE S == {x \in Below(i, n) : x \div 2 = i \/ \E c \in 1 .. n : c \div 2 = i /\ x \in Below(c, n)}
<1>0. Below(i, n) \subseteq 1 .. n
  BY DEF Below
<1>1. S \in SUBSET (1 .. n)
  BY <1>0
<1>2. ASSUME NEW k \in 1 .. n, k \div 2 = i \/ k \div 2 \in S PROVE k \in S
  <2>1. k \in Below(i, n)
    BY <1>2, BelowIs DEF Closed
  <2>2. CASE k \div 2 = i
    BY <2>1, <2>2
  <2>3. CASE k \div 2 \in S
    <3> DEFINE p == k \div 2
    <3>1. p \in 1 .. n
      BY <1>0, <2>3
    <3>2. CASE p \div 2 = i
      <4>1. k \in Below(p, n)
        BY <3>1, BelowIs DEF Closed
      <4> QED BY <2>1, <3>1, <3>2, <4>1
    <3>3. ASSUME NEW c \in 1 .. n, c \div 2 = i, p \in Below(c, n) PROVE k \in S
      <4>1. k \in Below(c, n)
        BY <3>3, BelowIs DEF Closed
      <4> QED BY <2>1, <3>3, <4>1
    <3> QED BY <2>3, <3>2, <3>3
  <2> QED BY <1>2, <2>2, <2>3
<1>3. Closed(S, i, n)
  BY <1>2 DEF Closed
<1>4. Below(i, n) \subseteq S
  <2> HIDE DEF S
  <2> QED BY <1>1, <1>3, BelowIs
<1> QED BY <1>4

\* Everything else is below the top.
LEMMA BelowTop ==
  ASSUME NEW n \in Nat, NEW j \in 2 .. n
  PROVE  j \in Below(1, n)
<1> DEFINE T == {k \in 2 .. n : k \notin Below(1, n)}
<1> SUFFICES ASSUME T # {} PROVE FALSE
  OBVIOUS
<1>0. 1 \in 1 .. n
  OBVIOUS
<1>1. PICK x \in T : \A y \in T : x <= y
  <2>1. T \in SUBSET Nat
    OBVIOUS
  <2> HIDE DEF T
  <2> QED BY <2>1, LeastNatural
<1>2. x \in 1 .. n /\ x > 1 /\ x \in Nat
  OBVIOUS
<1>3. x \div 2 \in Nat /\ x \div 2 < x /\ x \div 2 > 0
  BY <1>2, Parents
<1>4. x \div 2 # 1 /\ x \div 2 \notin Below(1, n)
  BY <1>0, <1>2, BelowIs DEF Closed
<1>5. x \div 2 \in T
  BY <1>2, <1>3, <1>4
<1> QED BY <1>1, <1>2, <1>3, <1>5

\* A shorter array has nothing new below i.
LEMMA BelowShorter ==
  ASSUME NEW n \in Nat \ {0}, NEW i \in 1 .. n - 1
  PROVE  Below(i, n - 1) \subseteq Below(i, n)
<1> DEFINE S == Below(i, n) \cap (1 .. n - 1)
<1>1. S \in SUBSET (1 .. n - 1) /\ n - 1 \in Nat /\ i \in 1 .. n
  OBVIOUS
<1>2. Closed(S, i, n - 1)
  <2>1. \A k \in 1 .. n - 1 : k \in 1 .. n
    OBVIOUS
  <2> QED BY <1>1, <2>1, BelowIs DEF Closed
<1>3. Below(i, n - 1) \subseteq S
  <2> HIDE DEF S
  <2> QED BY <1>1, <1>2, BelowIs
<1> QED BY <1>3

-----------------------------------------------------------------------------
(* Sinking an element.                                                     *)

Ordered(s) == \A i \in 1 .. Len(s) : \A j \in Below(i, Len(s)) : Fits(s[i], s[j])

\* The same but for the element at u, which is on its way down.
OrderedBut(s, u) ==
    \A i \in 1 .. Len(s) : i # u => \A j \in Below(i, Len(s)) : Fits(s[i], s[j])

\* Two elements change places.
LEMMA SwapIs ==
  ASSUME NEW s \in Seq(Element), NEW u \in 1 .. Len(s), NEW t \in 1 .. Len(s), u # t
  PROVE  /\ Swap(s, u, t) \in Seq(Element) /\ Len(Swap(s, u, t)) = Len(s)
         /\ Swap(s, u, t)[u] = s[t] /\ Swap(s, u, t)[t] = s[u]
         /\ \A k \in 1 .. Len(s) : k # u /\ k # t => Swap(s, u, t)[k] = s[k]
BY DEF Swap

\* The element at u goes below its smaller child t.
LEMMA SinkOneLevel ==
  ASSUME NEW s \in Seq(Element), NEW u \in 1 .. Len(s), NEW t \in 1 .. Len(s),
         OrderedBut(s, u), t \div 2 = u, Larger(s[u], s[t]),
         \A c \in 1 .. Len(s) : c \div 2 = u => ~Larger(s[t], s[c])
  PROVE  OrderedBut(Swap(s, u, t), t)
<1> DEFINE w == Swap(s, u, t)
           n == Len(s)
<1>0. n \in Nat /\ \A i \in 1 .. n : s[i] \in Element
  BY LenProperties, ElementOfSeq
<1>1. u < t
  BY Parents
<1>2. /\ Len(w) = n /\ w[u] = s[t] /\ w[t] = s[u]
      /\ \A k \in 1 .. n : k # u /\ k # t => w[k] = s[k]
  BY <1>1, SwapIs
<1> SUFFICES ASSUME NEW i \in 1 .. n, i # t, NEW j \in Below(i, n)
             PROVE  Fits(w[i], w[j])
  BY <1>2 DEF OrderedBut
<1>3. j \in 1 .. n /\ j > i
  BY <1>0, BelowIs
<1>4. CASE i = u
  <2>1. ASSUME NEW c \in 1 .. n, c \div 2 = u, c # t, j = c \/ j \in Below(c, n)
        PROVE  Fits(s[t], w[j])
    <3>1. c > u
      BY <2>1, Parents
    <3>2. j # u /\ j # t
      <4>1. j >= c
        BY <1>0, <2>1, BelowIs
      <4>2. t \in Below(c, n) => u = c \/ u \in Below(c, n)
        BY <1>0, BelowIs
      <4>3. t \notin Below(c, n)
        BY <1>0, <3>1, <4>2, BelowIs
      <4> QED BY <2>1, <3>1, <4>1, <4>3
    <3>3. w[j] = s[j] /\ s[j] \in Element /\ s[t] \in Element /\ s[c] \in Element
      BY <1>0, <1>2, <1>3, <3>2
    <3>4. ~Larger(s[t], s[c])
      BY <2>1
    <3>5. CASE j = c
      BY <3>3, <3>4, <3>5, LargerFits
    <3>6. CASE j \in Below(c, n)
      <4>1. Fits(s[c], s[j])
        BY <3>1, <3>6 DEF OrderedBut
      <4>2. s[t].is_deleted => Fits(s[t], s[j])
        BY DEF Fits
      <4> QED BY <3>3, <3>4, <4>1, <4>2, LargerFits
    <3> QED BY <2>1, <3>5, <3>6
  <2>2. CASE j = t
    <3>1. Fits(s[t], s[u])
      BY <1>0, LargerFits
    <3> QED BY <1>2, <1>4, <2>2, <3>1
  <2>3. CASE j # t /\ j \in Below(t, n)
    <3>1. Fits(s[t], s[j])
      BY <1>1, <2>3 DEF OrderedBut
    <3>2. w[j] = s[j]
      BY <1>2, <1>3, <1>4, <2>3
    <3> QED BY <1>2, <1>4, <3>1, <3>2
  <2>4. j \div 2 = u \/ \E c \in 1 .. n : c \div 2 = u /\ j \in Below(c, n)
    BY <1>0, <1>4, BelowChildren
  <2>5. j = t \/ j \in Below(t, n) \/ (\E c \in 1 .. n : c \div 2 = u /\ c # t /\ (j = c \/ j \in Below(c, n)))
    BY <1>3, <2>4
  <2>6. j \in Below(t, n) => j # t
    BY <1>0, BelowIs
  <2> QED BY <1>2, <1>4, <2>1, <2>2, <2>3, <2>5, <2>6
<1>5. CASE i # u
  <2>1. \A k \in Below(i, n) : Fits(s[i], s[k])
    BY <1>5 DEF OrderedBut
  <2>2. w[i] = s[i]
    BY <1>2, <1>5
  <2>3. CASE j = u
    <3>1. t \in Below(i, n)
      BY <1>0, <2>3, BelowIs DEF Closed
    <3> QED BY <1>2, <2>1, <2>2, <2>3, <3>1
  <2>4. CASE j = t
    <3>1. u \in Below(i, n)
      BY <1>0, <1>5, <2>4, BelowIs
    <3> QED BY <1>2, <2>1, <2>2, <2>4, <3>1
  <2>5. CASE j # u /\ j # t
    BY <1>2, <1>3, <2>1, <2>2, <2>5
  <2> QED BY <2>3, <2>4, <2>5
<1> QED BY <1>4, <1>5

\* It has arrived when no child is smaller.
LEMMA SinkEnds ==
  ASSUME NEW s \in Seq(Element), NEW u \in 1 .. Len(s), OrderedBut(s, u),
         \A c \in 1 .. Len(s) : c \div 2 = u => ~Larger(s[u], s[c])
  PROVE  Ordered(s)
<1> DEFINE n == Len(s)
<1>0. n \in Nat /\ \A i \in 1 .. n : s[i] \in Element
  BY LenProperties, ElementOfSeq
<1> SUFFICES ASSUME NEW j \in Below(u, n) PROVE Fits(s[u], s[j])
  BY DEF Ordered, OrderedBut
<1>1. j \in 1 .. n
  BY DEF Below
<1>2. CASE j \div 2 = u
  BY <1>0, <1>1, <1>2, LargerFits
<1>3. ASSUME NEW c \in 1 .. n, c \div 2 = u, j \in Below(c, n) PROVE Fits(s[u], s[j])
  <2>1. c # u
    BY <1>3, Parents
  <2>2. Fits(s[c], s[j])
    BY <1>3, <2>1 DEF OrderedBut
  <2>3. s[u].is_deleted => Fits(s[u], s[j])
    BY DEF Fits
  <2> QED BY <1>0, <1>1, <1>3, <2>2, <2>3, LargerFits
<1> QED BY <1>0, <1>2, <1>3, BelowChildren

\* No two elements have the same address.
Unique(s) == \A i, j \in 1 .. Len(s) : s[i].h = s[j].h => i = j

\* t has the elements of s, in another order.
Same(s, t) ==
    /\ t \in Seq(Element) /\ Len(t) = Len(s)
    /\ \A i \in 1 .. Len(t) : \E j \in 1 .. Len(s) : t[i] = s[j]
    /\ \A j \in 1 .. Len(s) : \E i \in 1 .. Len(t) : t[i] = s[j]
    /\ Unique(s) => Unique(t)

\* Two elements changed places.
LEMMA SwapSame ==
  ASSUME NEW s \in Seq(Element), NEW u \in 1 .. Len(s), NEW t \in 1 .. Len(s), u # t
  PROVE  Same(s, Swap(s, u, t))
<1> DEFINE w == Swap(s, u, t)
           n == Len(s)
<1>1. /\ w \in Seq(Element) /\ Len(w) = n /\ w[u] = s[t] /\ w[t] = s[u]
      /\ \A k \in 1 .. n : k # u /\ k # t => w[k] = s[k]
  BY SwapIs
<1> HIDE DEF w
<1>2. \A i \in 1 .. n : \E j \in 1 .. n : w[i] = s[j]
  BY <1>1
<1>3. \A j \in 1 .. n : \E i \in 1 .. n : w[i] = s[j]
  BY <1>1
<1>4. ASSUME Unique(s), NEW i \in 1 .. n, NEW j \in 1 .. n, w[i].h = w[j].h PROVE i = j
  <2> DEFINE p == [k \in 1 .. n |-> IF k = u THEN t ELSE IF k = t THEN u ELSE k]
  <2>1. \A k \in 1 .. n : w[k] = s[p[k]] /\ p[k] \in 1 .. n
    BY <1>1
  <2>2. p[i] = p[j]
    BY <1>4, <2>1 DEF Unique
  <2> QED BY <2>2
<1> QED BY <1>1, <1>2, <1>3, <1>4 DEF Same, Unique, w

\* And others after that.
LEMMA SameAgain ==
  ASSUME NEW r, NEW s, NEW t, Same(r, s), Same(s, t)
  PROVE  Same(r, t)
<1>1. t \in Seq(Element) /\ Len(t) = Len(r) /\ (Unique(r) => Unique(t))
  BY DEF Same
<1>2. \A i \in 1 .. Len(t) : \E j \in 1 .. Len(r) : t[i] = r[j]
  BY DEF Same
<1>3. \A j \in 1 .. Len(r) : \E i \in 1 .. Len(t) : t[i] = r[j]
  BY DEF Same
<1> QED BY <1>1, <1>2, <1>3 DEF Same

\* The states of the loop of down.
Sinking == {c \in [s : Seq(Element), u : Nat] : c.u \in 1 .. Len(c.s) /\ OrderedBut(c.s, c.u)}

\* A turn of it: the element has arrived, or sinks one level.
LEMMA DownTurnOK ==
  ASSUME NEW c \in Sinking
  PROVE  \/ (\A i : DownTurn(i, c) = c) /\ Ordered(c.s)
         \/ \E t \in c.u + 1 .. Len(c.s) :
               /\ \A i : DownTurn(i, c) = [s |-> Swap(c.s, c.u, t), u |-> t]
               /\ OrderedBut(Swap(c.s, c.u, t), t)
<1> DEFINE s == c.s
           u == c.u
           n == Len(s)
           smaller(t, k) == IF k <= n /\ heap_element_compare(s[t], s[k]) > 0 THEN k ELSE t
           l == smaller(u, 2 * u)
           r == smaller(l, 2 * u + 1)
<1>0. /\ s \in Seq(Element) /\ u \in 1 .. n /\ OrderedBut(s, u) /\ n \in Nat
      /\ \A i \in 1 .. n : s[i] \in Element
  BY LenProperties, ElementOfSeq DEF Sinking
<1>1. \A i : DownTurn(i, c) = IF r = u THEN c ELSE [s |-> Swap(s, u, r), u |-> r]
  BY DEF DownTurn
<1>2. \A k \in 1 .. n : k \div 2 = u => k = 2 * u \/ k = 2 * u + 1
  BY Parents
<1>3. u \in Nat /\ (2 * u) \div 2 = u /\ (2 * u + 1) \div 2 = u
  <2>1. u \in Nat
    BY <1>0
  <2> HIDE DEF u
  <2> QED BY <2>1, Parents
<1>4. \/ l = u /\ (2 * u <= n => ~Larger(s[u], s[2 * u]))
      \/ l = 2 * u /\ 2 * u <= n /\ Larger(s[u], s[2 * u])
  BY <1>0, CompareIsLarger
<1>5. l \in 1 .. n
  BY <1>0, <1>4
<1>6. \/ r = l /\ (2 * u + 1 <= n => ~Larger(s[l], s[2 * u + 1]))
      \/ r = 2 * u + 1 /\ 2 * u + 1 <= n /\ Larger(s[l], s[2 * u + 1])
  <2>1. 2 * u + 1 <= n => 2 * u + 1 \in 1 .. n
    BY <1>0
  <2>2. 2 * u + 1 <= n => (heap_element_compare(s[l], s[2 * u + 1]) > 0 <=> Larger(s[l], s[2 * u + 1]))
    BY <1>0, <1>5, <2>1, CompareIsLarger
  <2> HIDE DEF l
  <2> QED BY <2>2
<1> HIDE DEF l, r, smaller, s, u, n
<1>7. CASE r = u
  <2>0. l = u
    BY <1>0, <1>3, <1>4, <1>6, <1>7
  <2>1. \A k \in 1 .. n : k \div 2 = u => ~Larger(s[u], s[k])
    BY <1>2, <1>4, <1>6, <1>7, <2>0
  <2> QED BY <1>0, <1>1, <1>7, <2>1, SinkEnds DEF s, n, u
<1>8. CASE r # u
  <2>0. (r = 2 * u \/ r = 2 * u + 1) /\ r <= n
    BY <1>4, <1>6, <1>8
  <2>1. r \in u + 1 .. n /\ r \div 2 = u
    BY <1>0, <1>3, <2>0
  <2>2. Larger(s[u], s[r])
    <3>1. CASE l = u
      BY <1>6, <1>8, <3>1
    <3>2. CASE l # u /\ r = l
      BY <1>4, <3>2
    <3>3. CASE l # u /\ r # l
      <4>1. Larger(s[u], s[l]) /\ Larger(s[l], s[r])
        BY <1>4, <1>6, <3>3
      <4>2. s[u] \in Element /\ s[l] \in Element /\ s[r] \in Element
        BY <1>0, <1>5, <2>1
      <4> QED BY <4>1, <4>2, LargerFits
    <3> QED BY <3>1, <3>2, <3>3
  <2>3. ASSUME NEW k \in 1 .. n, k \div 2 = u PROVE ~Larger(s[r], s[k])
    <3>0. s[r] \in Element /\ s[k] \in Element /\ s[u] \in Element /\ (s[r].is_deleted \in BOOLEAN)
          /\ (~s[r].is_deleted => s[r].data.prio \in Nat)
      BY <1>0, <2>1, ElementFields
    <3>1. CASE k = r
      BY <3>0, <3>1 DEF Larger
    <3>2. CASE k = 2 * u /\ r = 2 * u + 1
      <4>1. CASE l = u
        <5>1. ~Larger(s[u], s[k])
          BY <1>0, <1>4, <3>2, <4>1
        <5> QED BY <2>2, <3>0, <5>1, LargerFits
      <4>2. CASE l = 2 * u
        <5>1. Larger(s[k], s[r])
          BY <1>0, <1>6, <3>2, <4>2
        <5>2. s[k].is_deleted \in BOOLEAN /\ (~s[k].is_deleted => s[k].data.prio \in Nat)
          BY <3>0, ElementFields
        <5> QED BY <3>0, <5>1, <5>2 DEF Larger
      <4> QED BY <1>4, <4>1, <4>2
    <3>3. CASE k = 2 * u + 1 /\ r = 2 * u
      <4>1. r = l
        BY <1>0, <1>6, <3>3
      <4> QED BY <1>0, <1>6, <3>3, <4>1
    <3>4. r = 2 * u \/ r = 2 * u + 1
      BY <1>4, <1>6, <1>8
    <3> QED BY <1>2, <2>3, <3>1, <3>2, <3>3, <3>4
  <2>4. r \in 1 .. n
    BY <1>0, <2>1
  <2>5. OrderedBut(Swap(s, u, r), r)
    BY <1>0, <2>1, <2>2, <2>3, <2>4, SinkOneLevel DEF n
  <2> QED BY <1>1, <1>8, <2>1, <2>5 DEF s, u, n
<1> QED BY <1>7, <1>8

\* So a turn leads from one state of the loop to another.
LEMMA DownTurnStays ==
  ASSUME NEW c \in Sinking, NEW i
  PROVE  /\ DownTurn(i, c) \in Sinking
         /\ Same(c.s, DownTurn(i, c).s)
         /\ \/ DownTurn(i, c).u > c.u
            \/ (\A k : DownTurn(k, c) = c) /\ Ordered(c.s)
<1>0. c.s \in Seq(Element) /\ c.u \in 1 .. Len(c.s) /\ Len(c.s) \in Nat
  BY LenProperties DEF Sinking
<1>1. CASE (\A k : DownTurn(k, c) = c) /\ Ordered(c.s)
  <2>1. Same(c.s, c.s)
    BY <1>0 DEF Same
  <2> QED BY <1>1, <2>1
<1>2. ASSUME NEW t \in c.u + 1 .. Len(c.s), DownTurn(i, c) = [s |-> Swap(c.s, c.u, t), u |-> t],
             OrderedBut(Swap(c.s, c.u, t), t)
      PROVE  DownTurn(i, c) \in Sinking /\ Same(c.s, DownTurn(i, c).s) /\ DownTurn(i, c).u > c.u
  <2>1. t \in 1 .. Len(c.s) /\ t # c.u /\ t \in Nat /\ t > c.u
    BY <1>0
  <2>2. Same(c.s, Swap(c.s, c.u, t)) /\ Swap(c.s, c.u, t) \in Seq(Element)
        /\ Len(Swap(c.s, c.u, t)) = Len(c.s)
    BY <1>0, <2>1, SwapSame, SwapIs
  <2> DEFINE w == Swap(c.s, c.u, t)
  <2> HIDE DEF w
  <2>3. [s |-> w, u |-> t] \in Sinking
    BY <1>2, <2>1, <2>2 DEF Sinking, w
  <2>4. DownTurn(i, c) = [s |-> w, u |-> t]
    BY <1>2 DEF w
  <2> QED BY <2>1, <2>2, <2>3, <2>4 DEF w
<1> QED BY <1>1, <1>2, DownTurnOK

\* down's loop, turn by turn.
LEMMA DownLoop ==
  ASSUME NEW n \in Nat, NEW c0 \in Sinking
  PROVE  \E f : /\ f[0] = c0 /\ \A i \in 1 .. n : f[i] = DownTurn(i, f[i - 1])
                /\ After(n, DownTurn, c0) = f[n]
<1> DEFINE R(f) == f = [i \in 0 .. n |-> IF i = 0 THEN c0 ELSE DownTurn(i, f[i - 1])]
           F == [i \in 1 .. n |-> [c \in Sinking |-> DownTurn(i, c)]]
           T == [i \in 0 .. n |-> Sinking]
<1>1. PICK f : Course(f, n, c0, F) /\ \A i \in 0 .. n : f[i] \in T[i]
  <2>1. c0 \in T[0] /\ \A i \in 1 .. n : i - 1 \in 0 .. n /\ i \in 0 .. n
    OBVIOUS
  <2>2. \A i \in 1 .. n : \A c \in T[i - 1] : F[i][c] \in T[i]
    BY DownTurnStays, <2>1
  <2> HIDE DEF F, T
  <2> QED BY <2>1, <2>2, LoopExists
<1>2. ASSUME NEW i \in 1 .. n PROVE F[i][f[i - 1]] = DownTurn(i, f[i - 1])
  <2>1. i - 1 \in 0 .. n
    OBVIOUS
  <2>2. f[i - 1] \in Sinking
    BY <1>1, <2>1
  <2> QED BY <2>2
<1>3. R(f)
  <2>1. ASSUME NEW i \in 0 .. n
        PROVE  (IF i = 0 THEN c0 ELSE F[i][f[i - 1]]) = IF i = 0 THEN c0 ELSE DownTurn(i, f[i - 1])
    <3>1. i = 0 \/ i \in 1 .. n
      OBVIOUS
    <3> HIDE DEF F
    <3> QED BY <1>2, <3>1
  <2> HIDE DEF F
  <2> QED BY <1>1, <2>1 DEF Course
<1> DEFINE a == CHOOSE g : R(g)
<1>4. R(a)
  <2> HIDE DEF R
  <2> QED BY <1>3
<1>5. After(n, DownTurn, c0) = a[n]
  BY DEF After
<1> HIDE DEF a
<1>6. a[0] = c0 /\ \A i \in 1 .. n : a[i] = DownTurn(i, a[i - 1])
  BY <1>4
<1> QED BY <1>5, <1>6

\* down brings an element that may be too large to its place: the others stay
\* in order and nothing is lost.
LEMMA DownOK ==
  ASSUME NEW s \in Seq(Element), NEW u \in 1 .. Len(s), OrderedBut(s, u)
  PROVE  Ordered(down(s, u)) /\ Same(s, down(s, u))
<1> DEFINE n == Len(s)
           c0 == [s |-> s, u |-> u]
<1>0. n \in Nat /\ u \in Nat /\ ~(u > n)
  BY LenProperties
<1>1. c0 \in Sinking
  BY <1>0 DEF Sinking
<1>2. PICK f : /\ f[0] = c0 /\ \A i \in 1 .. n : f[i] = DownTurn(i, f[i - 1])
               /\ After(n, DownTurn, c0) = f[n]
  <2> HIDE DEF c0, n
  <2> QED BY <1>0, <1>1, DownLoop
<1> DEFINE Done(c) == Ordered(c.s) /\ \A i : DownTurn(i, c) = c
           P == {k \in 0 .. n : f[k] \in Sinking /\ Same(s, f[k].s) /\ (f[k].u > k \/ Done(f[k]))}
<1>3. 0 \in P
  <2>1. Same(s, s)
    BY DEF Same
  <2>2. f[0].s = s /\ f[0].u = u
    BY <1>2
  <2>3. 0 \in 0 .. n /\ u > 0
    BY <1>0
  <2> HIDE DEF Done, c0, n
  <2> QED BY <1>1, <1>2, <2>1, <2>2, <2>3
<1>4. ASSUME NEW k \in 0 .. n - 1, k \in P PROVE k + 1 \in P
  <2>1. k + 1 \in 1 .. n /\ (k + 1) - 1 = k /\ k + 1 \in 0 .. n
    BY <1>0
  <2>2. f[k + 1] = DownTurn(k + 1, f[k])
    BY <1>2, <2>1
  <2>3. f[k] \in Sinking /\ Same(s, f[k].s) /\ (f[k].u > k \/ Done(f[k]))
    BY <1>4
  <2>4. /\ f[k + 1] \in Sinking /\ Same(f[k].s, f[k + 1].s)
        /\ f[k + 1].u > f[k].u \/ Done(f[k])
    BY <2>2, <2>3, DownTurnStays
  <2>5. Same(s, f[k + 1].s)
    BY <2>3, <2>4, SameAgain
  <2>6. f[k + 1].u > k + 1 \/ Done(f[k + 1])
    <3>1. CASE Done(f[k])
      <4>1. f[k + 1] = f[k]
        BY <2>2, <3>1
      <4> QED BY <3>1, <4>1
    <3>2. CASE f[k + 1].u > f[k].u /\ f[k].u > k
      <4>1. f[k + 1].u \in Nat /\ f[k].u \in Nat
        BY <2>3, <2>4 DEF Sinking
      <4> QED BY <3>2, <4>1
    <3> QED BY <2>3, <2>4, <3>1, <3>2
  <2> HIDE DEF Done
  <2> QED BY <2>1, <2>4, <2>5, <2>6
<1>5. n \in P
  <2>1. 0 .. n \subseteq P
    <3> HIDE DEF P, n
    <3> QED BY <1>0, <1>3, <1>4, UpTo
  <2> HIDE DEF P
  <2> QED BY <1>0, <2>1
<1>6. f[n] \in Sinking /\ Same(s, f[n].s) /\ (f[n].u > n \/ Done(f[n]))
  BY <1>5
<1>7. ~(f[n].u > n)
  <2>1. f[n].u \in 1 .. Len(f[n].s) /\ Len(f[n].s) = n
    BY <1>6 DEF Sinking, Same
  <2> HIDE DEF n
  <2> QED BY <1>0, <2>1
<1>8. down(s, u) = f[n].s
  BY <1>0, <1>2 DEF down
<1> QED BY <1>6, <1>7, <1>8

-----------------------------------------------------------------------------
(* Dropping the top.                                                       *)

\* t is an ordered array with just the elements of s from the second on.
Rest(s, t) ==
    /\ t \in Seq(Element) /\ Len(t) = Len(s) - 1 /\ Ordered(t)
    /\ \A i \in 1 .. Len(t) : \E j \in 2 .. Len(s) : t[i] = s[j]
    /\ \A j \in 2 .. Len(s) : \E i \in 1 .. Len(t) : t[i] = s[j]
    /\ Unique(s) => Unique(t)

\* The last element takes the place of the top and sinks.
LEMMA DropTopOK ==
  ASSUME NEW s \in Seq(Element), s # <<>>, Ordered(s)
  PROVE  Rest(s, DropTop(s))
<1> DEFINE n == Len(s)
<1>0. n \in Nat /\ n > 0 /\ \A i \in 1 .. n : s[i] \in Element
  BY LenProperties, ElementOfSeq, EmptySeq
<1>1. CASE n = 1
  <2>1. DropTop(s) = <<>>
    BY <1>1 DEF DropTop
  <2>2. <<>> \in Seq(Element) /\ Len(<<>>) = 0
    OBVIOUS
  <2> QED BY <1>1, <2>1, <2>2 DEF Rest, Ordered, Unique
<1>2. CASE n > 1
  <2> DEFINE b == [Front(s) EXCEPT ![1] = Last(s)]
  <2>1. /\ b \in Seq(Element) /\ Len(b) = n - 1
        /\ b[1] = s[n] /\ \A k \in 2 .. n - 1 : b[k] = s[k]
    <3>1. Front(s) \in Seq(Element) /\ Len(Front(s)) = n - 1 /\ \A k \in 1 .. n - 1 : Front(s)[k] = s[k]
      BY <1>0, <1>2 DEF Front
    <3>2. Last(s) = s[n] /\ Last(s) \in Element
      BY <1>0 DEF Last
    <3> DEFINE fr == Front(s)
               la == Last(s)
    <3> HIDE DEF fr, la
    <3>3. b = [fr EXCEPT ![1] = la]
      BY DEF fr, la
    <3>4. /\ fr \in Seq(Element) /\ Len(fr) = n - 1 /\ \A k \in 1 .. n - 1 : fr[k] = s[k]
          /\ la = s[n] /\ la \in Element
      BY <3>1, <3>2 DEF fr, la
    <3> HIDE DEF b, n
    <3> QED BY <1>0, <1>2, <3>3, <3>4
  <2>2. DropTop(s) = down(b, 1)
    <3>1. Len(s) # 1
      BY <1>0, <1>2
    <3> QED BY Zenon, <3>1 DEF DropTop
  <2> HIDE DEF b
  <2>3. OrderedBut(b, 1)
    <3> SUFFICES ASSUME NEW i \in 1 .. n - 1, i # 1, NEW j \in Below(i, n - 1)
                 PROVE  Fits(b[i], b[j])
      BY <2>1 DEF OrderedBut
    <3>1. j \in Below(i, n) /\ i \in 1 .. n
      BY <1>0, BelowShorter
    <3>2. j \in i + 1 .. n - 1
      BY <1>0, BelowIs
    <3>3. b[i] = s[i] /\ b[j] = s[j]
      BY <1>0, <2>1, <3>2
    <3> QED BY <3>1, <3>3 DEF Ordered
  <2>4. Ordered(down(b, 1)) /\ Same(b, down(b, 1))
    <3>1. 1 \in 1 .. Len(b)
      BY <1>0, <1>2, <2>1
    <3> QED BY <2>1, <2>3, <3>1, DownOK
  <2> DEFINE t == down(b, 1)
  <2> HIDE DEF t
  <2>5. Ordered(t) /\ t \in Seq(Element) /\ Len(t) = n - 1
    BY <2>1, <2>4 DEF Same, t
  <2>6. ASSUME NEW i \in 1 .. n - 1 PROVE \E j \in 2 .. n : b[i] = s[j]
    BY <1>0, <1>2, <2>1
  <2>7. ASSUME NEW j \in 2 .. n PROVE \E i \in 1 .. n - 1 : b[i] = s[j]
    <3>1. CASE j = n
      BY <1>0, <1>2, <2>1, <3>1
    <3>2. CASE j # n
      <4>1. j \in 2 .. n - 1 /\ j \in 1 .. n - 1
        BY <1>0, <3>2
      <4> QED BY <2>1, <4>1
    <3> QED BY <3>1, <3>2
  <2>8. ASSUME NEW i \in 1 .. n - 1 PROVE \E j \in 2 .. n : t[i] = s[j]
    <3>1. PICK k \in 1 .. n - 1 : t[i] = b[k]
      BY <2>1, <2>4, <2>5 DEF Same, t
    <3> QED BY <2>6, <3>1
  <2>9. ASSUME NEW j \in 2 .. n PROVE \E i \in 1 .. n - 1 : t[i] = s[j]
    <3>1. PICK k \in 1 .. n - 1 : b[k] = s[j]
      BY <2>7
    <3> QED BY <2>1, <2>4, <2>5, <3>1 DEF Same, t
  <2>10. ASSUME Unique(s) PROVE Unique(t)
    <3>1. ASSUME NEW i \in 1 .. n - 1, NEW j \in 1 .. n - 1, b[i].h = b[j].h PROVE i = j
      <4> DEFINE p == [k \in 1 .. n - 1 |-> IF k = 1 THEN n ELSE k]
      <4>1. \A k \in 1 .. n - 1 : b[k] = s[p[k]] /\ p[k] \in 1 .. n
        BY <1>0, <1>2, <2>1
      <4>2. p[i] = p[j]
        BY <2>10, <3>1, <4>1 DEF Unique
      <4> QED BY <1>0, <4>2
    <3>2. Unique(b)
      BY <2>1, <3>1 DEF Unique
    <3> QED BY <2>4, <3>2 DEF Same, t
  <2> QED BY <2>2, <2>5, <2>8, <2>9, <2>10 DEF Rest, t
<1>3. n = 1 \/ n > 1
  BY <1>0
<1> QED BY <1>1, <1>2, <1>3

\* t has the unmarked elements of s, nothing that s did not have, and its top
\* is not marked.
Cleaned(s, t) ==
    /\ t \in Seq(Element) /\ Ordered(t) /\ (Unique(s) => Unique(t)) /\ Len(t) <= Len(s)
    /\ \A i \in 1 .. Len(t) : \E j \in 1 .. Len(s) : t[i] = s[j]
    /\ \A j \in 1 .. Len(s) : ~s[j].is_deleted => \E i \in 1 .. Len(t) : t[i] = s[j]

\* One marked top less.
LEMMA DeleteTurnOK ==
  ASSUME NEW s \in Seq(Element), Ordered(s), NEW k
  PROVE  /\ Cleaned(s, DeleteTurn(k, s))
         /\ \/ Len(DeleteTurn(k, s)) = Len(s) - 1
            \/ (s = <<>> \/ ~s[1].is_deleted) /\ \A i : DeleteTurn(i, s) = s
<1>0. Len(s) \in Nat
  BY LenProperties
<1>1. CASE s # <<>> /\ s[1].is_deleted
  <2>1. DeleteTurn(k, s) = DropTop(s)
    BY <1>1 DEF DeleteTurn
  <2> DEFINE t == DropTop(s)
  <2>2. Rest(s, t)
    BY <1>1, DropTopOK
  <2> HIDE DEF t
  <2>3. /\ t \in Seq(Element) /\ Ordered(t) /\ (Unique(s) => Unique(t)) /\ Len(t) <= Len(s)
        /\ Len(t) = Len(s) - 1
    BY <1>0, <2>2 DEF Rest
  <2>4. \A i \in 1 .. Len(t) : \E j \in 1 .. Len(s) : t[i] = s[j]
    BY <1>0, <2>2 DEF Rest
  <2>5. \A j \in 1 .. Len(s) : ~s[j].is_deleted => \E i \in 1 .. Len(t) : t[i] = s[j]
    <3>1. \A j \in 1 .. Len(s) : j = 1 \/ j \in 2 .. Len(s)
      BY <1>0
    <3> QED BY <1>1, <2>2, <3>1 DEF Rest
  <2> QED BY <2>1, <2>3, <2>4, <2>5 DEF Cleaned, t
<1>2. CASE ~(s # <<>> /\ s[1].is_deleted)
  <2>1. \A i : DeleteTurn(i, s) = s
    BY <1>2 DEF DeleteTurn
  <2>2. Cleaned(s, s)
    BY <1>0 DEF Cleaned
  <2> QED BY <1>2, <2>1, <2>2
<1> QED BY <1>1, <1>2

\* And others after that.
LEMMA CleanedAgain ==
  ASSUME NEW r, NEW s, NEW t, Cleaned(r, s), Cleaned(s, t),
         r \in Seq(Element), s \in Seq(Element), t \in Seq(Element)
  PROVE  Cleaned(r, t)
<1>1. Len(t) <= Len(r)
  BY LenProperties DEF Cleaned
<1>2. \A i \in 1 .. Len(t) : \E j \in 1 .. Len(r) : t[i] = r[j]
  BY DEF Cleaned
<1>3. ASSUME NEW j \in 1 .. Len(r), ~r[j].is_deleted PROVE \E i \in 1 .. Len(t) : t[i] = r[j]
  <2>1. PICK k \in 1 .. Len(s) : s[k] = r[j]
    BY <1>3 DEF Cleaned
  <2>2. ~s[k].is_deleted
    BY <1>3, <2>1
  <2>3. \E i \in 1 .. Len(t) : t[i] = s[k]
    BY <2>2 DEF Cleaned
  <2> QED BY <2>1, <2>3
<1> QED BY <1>1, <1>2, <1>3 DEF Cleaned

\* do_delete's loop, turn by turn.
LEMMA DeleteLoop ==
  ASSUME NEW s0 \in Seq(Element), Ordered(s0), NEW n \in Nat
  PROVE  \E f : /\ f[0] = s0 /\ \A i \in 1 .. n : f[i] = DeleteTurn(i, f[i - 1])
                /\ After(n, DeleteTurn, s0) = f[n]
<1> DEFINE S == {s \in Seq(Element) : Ordered(s)}
           R(f) == f = [i \in 0 .. n |-> IF i = 0 THEN s0 ELSE DeleteTurn(i, f[i - 1])]
           F == [i \in 1 .. n |-> [s \in S |-> DeleteTurn(i, s)]]
           T == [i \in 0 .. n |-> S]
<1>0. s0 \in S /\ \A s \in S : \A i : DeleteTurn(i, s) \in S
  BY DeleteTurnOK DEF Cleaned
<1> HIDE DEF S
<1>1. PICK f : Course(f, n, s0, F) /\ \A i \in 0 .. n : f[i] \in T[i]
  <2>1. s0 \in T[0] /\ \A i \in 1 .. n : i - 1 \in 0 .. n /\ i \in 0 .. n
    BY <1>0
  <2>2. \A i \in 1 .. n : \A s \in T[i - 1] : F[i][s] \in T[i]
    BY <1>0, <2>1
  <2> HIDE DEF F, T
  <2> QED BY <2>1, <2>2, LoopExists
<1>2. ASSUME NEW i \in 1 .. n PROVE F[i][f[i - 1]] = DeleteTurn(i, f[i - 1])
  <2>1. i - 1 \in 0 .. n
    OBVIOUS
  <2>2. f[i - 1] \in S
    BY <1>1, <2>1
  <2> QED BY <2>2
<1>3. R(f)
  <2>1. ASSUME NEW i \in 0 .. n
        PROVE  (IF i = 0 THEN s0 ELSE F[i][f[i - 1]]) = IF i = 0 THEN s0 ELSE DeleteTurn(i, f[i - 1])
    <3>1. i = 0 \/ i \in 1 .. n
      OBVIOUS
    <3> HIDE DEF F
    <3> QED BY <1>2, <3>1
  <2> HIDE DEF F
  <2> QED BY <1>1, <2>1 DEF Course
<1> DEFINE a == CHOOSE g : R(g)
<1>4. R(a)
  <2> HIDE DEF R
  <2> QED BY <1>3
<1>5. After(n, DeleteTurn, s0) = a[n]
  BY DEF After
<1> HIDE DEF a
<1>6. a[0] = s0 /\ \A i \in 1 .. n : a[i] = DeleteTurn(i, a[i - 1])
  BY <1>4
<1> QED BY <1>5, <1>6

\* do_delete drops marked tops until there is none.
LEMMA DeleteOK ==
  ASSUME NEW s \in Seq(Element), Ordered(s)
  PROVE  /\ Cleaned(s, do_delete(s))
         /\ do_delete(s) = <<>> \/ ~do_delete(s)[1].is_deleted
<1> DEFINE n == Len(s)
<1>0. n \in Nat
  BY LenProperties
<1>1. PICK f : /\ f[0] = s /\ \A i \in 1 .. n : f[i] = DeleteTurn(i, f[i - 1])
               /\ After(n, DeleteTurn, s) = f[n]
  <2> HIDE DEF n
  <2> QED BY <1>0, DeleteLoop
<1> DEFINE Done(t) == (t = <<>> \/ ~t[1].is_deleted) /\ \A i : DeleteTurn(i, t) = t
           P == {k \in 0 .. n : Cleaned(s, f[k]) /\ (Len(f[k]) <= n - k \/ Done(f[k]))}
<1>2. 0 \in P
  <2>1. Cleaned(s, s)
    BY <1>0 DEF Cleaned
  <2>2. Len(s) <= n - 0 /\ 0 \in 0 .. n
    BY <1>0
  <2> QED BY <1>1, <2>1, <2>2
<1>3. ASSUME NEW k \in 0 .. n - 1, k \in P PROVE k + 1 \in P
  <2>1. k + 1 \in 1 .. n /\ (k + 1) - 1 = k /\ k + 1 \in 0 .. n
    BY <1>0
  <2>2. f[k + 1] = DeleteTurn(k + 1, f[k])
    BY <1>1, <2>1
  <2>3. Cleaned(s, f[k]) /\ (Len(f[k]) <= n - k \/ Done(f[k]))
    BY <1>3
  <2>4. f[k] \in Seq(Element) /\ Ordered(f[k]) /\ Len(f[k]) \in Nat
    BY <2>3, LenProperties DEF Cleaned
  <2>5. Cleaned(f[k], f[k + 1]) /\ (Len(f[k + 1]) = Len(f[k]) - 1 \/ Done(f[k]))
    BY <2>2, <2>4, DeleteTurnOK
  <2>6. Cleaned(s, f[k + 1])
    <3>1. f[k + 1] \in Seq(Element)
      BY <2>5 DEF Cleaned
    <3> QED BY <2>3, <2>4, <2>5, <3>1, CleanedAgain
  <2>7. Len(f[k + 1]) <= n - (k + 1) \/ Done(f[k + 1])
    <3>1. CASE Done(f[k])
      <4>1. f[k + 1] = f[k]
        BY <2>2, <3>1
      <4> QED BY <3>1, <4>1
    <3>2. CASE Len(f[k + 1]) = Len(f[k]) - 1 /\ Len(f[k]) <= n - k
      <4> HIDE DEF n
      <4> QED BY <1>0, <2>4, <3>2
    <3> QED BY <2>3, <2>5, <3>1, <3>2
  <2> HIDE DEF Done
  <2> QED BY <2>1, <2>6, <2>7
<1>4. n \in P
  <2>1. 0 .. n \subseteq P
    <3> HIDE DEF P, n
    <3> QED BY <1>0, <1>2, <1>3, UpTo
  <2> HIDE DEF P
  <2> QED BY <1>0, <2>1
<1>5. Cleaned(s, f[n]) /\ (Len(f[n]) <= n - n \/ Done(f[n]))
  BY <1>4
<1>6. f[n] = <<>> \/ ~f[n][1].is_deleted
  <2>1. CASE Len(f[n]) <= n - n
    <3>1. f[n] \in Seq(Element)
      BY <1>5 DEF Cleaned
    <3>2. Len(f[n]) = 0
      BY <1>0, <2>1, <3>1, LenProperties
    <3> QED BY <3>1, <3>2, EmptySeq
  <2> QED BY <1>5, <2>1
<1>7. do_delete(s) = f[n]
  BY <1>1 DEF do_delete
<1> QED BY <1>5, <1>6, <1>7

-----------------------------------------------------------------------------
(* Adding an element.                                                      *)

\* up leaves an element where it is that is not smaller than its parent.
LEMMA UpStays ==
  ASSUME NEW s \in Seq(Element), NEW u \in 1 .. Len(s),
         u \div 2 > 0 => ~Larger(s[u \div 2], s[u])
  PROVE  up(s, u) = s
<1> DEFINE c == [s |-> s, u |-> u]
           R(f) == f = [i \in 0 .. u |-> IF i = 0 THEN c ELSE UpTurn(i, f[i - 1])]
<1>0. u \in Nat /\ Len(s) \in Nat
  BY LenProperties
<1>1. \A i : UpTurn(i, c) = c
  <2>1. u \div 2 > 0 => u \div 2 \in 1 .. Len(s)
    BY <1>0, Parents
  <2>2. u \div 2 > 0 => s[u] \in Element /\ s[u \div 2] \in Element
    BY <2>1, ElementOfSeq
  <2>3. ~(u \div 2 > 0 /\ heap_element_compare(s[u], s[u \div 2]) < 0)
    BY <2>2, CompareIsLarger
  <2>4. c.s = s /\ c.u = u
    OBVIOUS
  <2> HIDE DEF c
  <2> QED BY <2>3, <2>4 DEF UpTurn
<1> HIDE DEF c
<1>2. R([i \in 0 .. u |-> c])
  <2> DEFINE f == [i \in 0 .. u |-> c]
  <2>1. ASSUME NEW i \in 0 .. u PROVE f[i] = IF i = 0 THEN c ELSE UpTurn(i, f[i - 1])
    <3>1. i # 0 => i - 1 \in 0 .. u
      BY <1>0
    <3> QED BY <1>1, <3>1
  <2> QED BY <2>1
<1> DEFINE a == CHOOSE g : R(g)
<1>3. R(a)
  <2> HIDE DEF R
  <2> QED BY <1>2
<1>4. up(s, u) = a[u].s
  BY DEF up, After, c
<1> HIDE DEF a
<1>5. a[0] = c /\ \A i \in 1 .. u : a[i] = UpTurn(i, a[i - 1])
  BY <1>0, <1>3
<1> DEFINE P == {k \in 0 .. u : a[k] = c}
<1>6. 0 \in P
  BY <1>0, <1>5
<1>7. ASSUME NEW k \in 0 .. u - 1, k \in P PROVE k + 1 \in P
  <2>1. k + 1 \in 1 .. u /\ (k + 1) - 1 = k
    BY <1>0
  <2> QED BY <1>1, <1>5, <1>7, <2>1
<1>8. 0 .. u \subseteq P
  <2> HIDE DEF P
  <2> QED BY <1>0, <1>6, <1>7, UpTo
<1>9. a[u] = c
  BY <1>0, <1>8
<1> QED BY <1>4, <1>9 DEF c

\* A longer array has only the new position more below i.
LEMMA BelowLonger ==
  ASSUME NEW n \in Nat, NEW i \in 1 .. n, NEW j \in Below(i, n + 1), j # n + 1
  PROVE  j \in Below(i, n)
<1> DEFINE S == Below(i, n) \cup {n + 1}
<1>1. S \in SUBSET (1 .. n + 1) /\ n + 1 \in Nat /\ i \in 1 .. n + 1
  BY BelowIs
<1>2. Closed(S, i, n + 1)
  <2> SUFFICES ASSUME NEW k \in 1 .. n + 1, k # n + 1, k \div 2 = i \/ k \div 2 \in S
               PROVE  k \in Below(i, n)
    BY DEF Closed
  <2>1. k \in 1 .. n /\ k \in Nat
    OBVIOUS
  <2>2. k \div 2 # n + 1
    BY <2>1, Parents
  <2> QED BY <2>1, <2>2, BelowIs DEF Closed
<1>3. Below(i, n + 1) \subseteq S
  <2> HIDE DEF S
  <2> QED BY <1>1, <1>2, BelowIs
<1> QED BY <1>3

\* An element that fits below all others may come last.
LEMMA AppendOrdered ==
  ASSUME NEW s \in Seq(Element), Ordered(s), NEW e \in Element,
         \A i \in 1 .. Len(s) : Fits(s[i], e)
  PROVE  Ordered(Append(s, e))
<1> DEFINE n == Len(s)
           t == Append(s, e)
<1>1. n \in Nat /\ Len(t) = n + 1 /\ t[n + 1] = e /\ \A k \in 1 .. n : t[k] = s[k]
  BY LenProperties, AppendProperties
<1> HIDE DEF t, n
<1> SUFFICES ASSUME NEW i \in 1 .. n + 1, NEW j \in Below(i, n + 1)
             PROVE  Fits(t[i], t[j])
  BY <1>1 DEF Ordered, t
<1>2. j \in i + 1 .. n + 1
  <2>1. n + 1 \in Nat
    BY <1>1
  <2> QED BY <2>1, BelowIs
<1>3. i \in 1 .. n
  BY <1>1, <1>2
<1>4. CASE j = n + 1
  BY <1>1, <1>3, <1>4 DEF n
<1>5. CASE j # n + 1
  <2>1. j \in Below(i, n) /\ j \in 1 .. n
    BY <1>1, <1>2, <1>3, <1>5, BelowLonger
  <2> QED BY <1>1, <1>3, <2>1 DEF Ordered, n
<1> QED BY <1>4, <1>5

\* malloc finds an address that no element has.
LEMMA MallocOK ==
  ASSUME elements \in Seq(Element), queue_size < MaxSize
  PROVE  Malloc \in Addresses /\ \A i \in 1 .. queue_size : elements[i].h # Malloc
<1> DEFINE Used == {elements[i].h : i \in 1 .. queue_size}
           Free == Addresses \ Used
<1>0. queue_size \in Nat /\ MaxSize \in Nat
  BY HeapAssumption, LenProperties DEF queue_size
<1>1. Free # {}
  <2>1. IsFiniteSet(1 .. queue_size) /\ Cardinality(1 .. queue_size) = queue_size
    <3>1. queue_size - 1 + 1 = queue_size
      BY <1>0
    <3> QED BY <1>0, FS_Interval
  <2>2. IsFiniteSet(Addresses) /\ Cardinality(Addresses) = MaxSize
    BY <1>0, FS_Interval DEF Addresses
  <2> DEFINE g == [i \in 1 .. queue_size |-> elements[i].h]
  <2>3. g \in Surjection(1 .. queue_size, Used)
    BY DEF Surjection
  <2>4. IsFiniteSet(Used) /\ Cardinality(Used) <= queue_size
    <3> HIDE DEF g, Used
    <3> QED BY <2>1, <2>3, FS_Surjection
  <2>5. Addresses \subseteq Used => Cardinality(Addresses) <= Cardinality(Used)
    <3> HIDE DEF Used
    <3> QED BY <2>4, FS_Subset
  <2>6. Cardinality(Used) \in Nat
    <3> HIDE DEF Used
    <3> QED BY <2>4, FS_CardinalityType
  <2>7. ~(Addresses \subseteq Used)
    <3> HIDE DEF Used
    <3> QED BY <1>0, <2>2, <2>4, <2>5, <2>6
  <2> QED BY <2>7
<1>2. Free \in SUBSET Nat
  BY DEF Addresses
<1>3. \E x \in Free : \A y \in Free : x <= y
  <2> HIDE DEF Free
  <2> QED BY <1>1, <1>2, LeastNatural
<1>4. Malloc \in Free
  <2>1. Malloc = CHOOSE x \in Free : \A y \in Free : x <= y
    BY DEF Malloc, Min
  <2> HIDE DEF Free
  <2> QED BY <1>3, <2>1
<1> QED BY <1>4

-----------------------------------------------------------------------------
(* The invariant.                                                          *)

\* HeapInv: what the runs check, a heap that has room, and unmarked elements
\* that are no younger than the clock, so that a new one may come last.
HeapInv ==
    /\ HeapTypeOK /\ SurvivorsAreReachable /\ OrderedPaths
    /\ capacity > 0
    /\ \A i \in 1 .. queue_size : ~elements[i].is_deleted => elements[i].data.prio <= now

\* The words of the invariant are those of the lemmas.
LEMMA InvWords ==
  /\ OrderedPaths <=> Ordered(elements)
  /\ OrderedPaths' <=> Ordered(elements')
<1>1. OrderedPaths <=> Ordered(elements)
  BY DEF OrderedPaths, Ordered, Fits, queue_size
<1>2. OrderedPaths' <=> Ordered(elements')
  BY DEF OrderedPaths, Ordered, Fits, queue_size
<1> QED BY <1>1, <1>2

\* t is an ordered array with some of the elements of s.
Fewer(s, t) ==
    /\ t \in Seq(Element) /\ Ordered(t) /\ (Unique(s) => Unique(t)) /\ Len(t) <= Len(s)
    /\ \A i \in 1 .. Len(t) : \E j \in 1 .. Len(s) : t[i] = s[j]

\* An action that only takes elements away keeps the invariant.
LEMMA FewerKeeps ==
  ASSUME HeapInv, Fewer(elements, elements'), out' \in Entries \cup {NoData, Void},
         UNCHANGED <<capacity, survivor_table, now>>
  PROVE  HeapInv'
<1> USE DEF queue_size
<1>0. Len(elements) \in Nat /\ Len(elements') \in Nat /\ capacity \in Nat /\ MaxSize \in Nat
  BY HeapAssumption, LenProperties DEF HeapInv, HeapTypeOK, Fewer
<1>1. HeapTypeOK'
  <2>1. Len(elements') <= MaxSize /\ Len(elements') <= capacity
    BY <1>0 DEF HeapInv, HeapTypeOK, Fewer
  <2> QED BY <2>1 DEF HeapInv, HeapTypeOK, Fewer
<1>2. OrderedPaths'
  BY InvWords DEF Fewer
<1>3. \A i \in 1 .. Len(elements') : \E j \in 1 .. Len(elements) : elements'[i] = elements[j]
  BY DEF Fewer
<1>4. SurvivorsAreReachable'
  <2>1. Unique(elements')
    BY DEF Fewer, HeapInv, SurvivorsAreReachable, Unique
  <2>2. ASSUME NEW i \in 1 .. Len(elements'), ~elements'[i].is_deleted
        PROVE  survivor_table'[elements'[i].data.key] = elements'[i].h
    <3>1. PICK j \in 1 .. Len(elements) : elements'[i] = elements[j]
      BY <1>3
    <3>2. survivor_table[elements[j].data.key] = elements[j].h
      BY <2>2, <3>1 DEF HeapInv, SurvivorsAreReachable
    <3> QED BY <3>1, <3>2
  <2> QED BY <2>1, <2>2 DEF SurvivorsAreReachable, Unique
<1>5. \A i \in 1 .. Len(elements') : ~elements'[i].is_deleted => elements'[i].data.prio <= now'
  BY <1>3 DEF HeapInv
<1> QED BY <1>1, <1>2, <1>4, <1>5 DEF HeapInv

\* What is left after cleaning.
LEMMA CleanedIsFewer ==
  ASSUME HeapInv
  PROVE  /\ elements \in Seq(Element) /\ Ordered(elements)
         /\ Cleaned(elements, do_delete(elements)) /\ Fewer(elements, do_delete(elements))
         /\ do_delete(elements) = <<>> \/ ~do_delete(elements)[1].is_deleted
         /\ do_delete(elements) # <<>> => do_delete(elements)[1].data \in Entries
<1> DEFINE s == do_delete(elements)
<1>1. elements \in Seq(Element) /\ Ordered(elements)
  BY InvWords DEF HeapInv, HeapTypeOK
<1>2. Cleaned(elements, s) /\ (s = <<>> \/ ~s[1].is_deleted)
  BY <1>1, DeleteOK
<1> HIDE DEF s
<1>3. Fewer(elements, s)
  BY <1>2 DEF Cleaned, Fewer
<1>4. ASSUME s # <<>> PROVE s[1].data \in Entries
  <2>1. s \in Seq(Element)
    BY <1>2 DEF Cleaned
  <2>2. s[1] \in Element
    BY <1>4, <2>1, ElementOfSeq, EmptySeq, LenProperties
  <2> QED BY <1>2, <1>4, <2>2, ElementFields
<1> QED BY <1>1, <1>2, <1>3, <1>4 DEF s

\* Looking at the top.
LEMMA PeekKeeps ==
  ASSUME HeapInv, lazy_heap_peek, UNCHANGED now
  PROVE  HeapInv'
<1>1. Fewer(elements, elements') /\ (elements' # <<>> => elements'[1].data \in Entries)
  BY CleanedIsFewer DEF lazy_heap_peek
<1>2. out' \in Entries \cup {NoData, Void}
  BY <1>1 DEF lazy_heap_peek
<1>3. UNCHANGED <<capacity, survivor_table, now>>
  BY DEF lazy_heap_peek
<1> QED BY <1>1, <1>2, <1>3, FewerKeeps

\* Taking the top.
LEMMA PopKeeps ==
  ASSUME HeapInv, lazy_heap_pop, UNCHANGED now
  PROVE  HeapInv'
<1> DEFINE s == do_delete(elements)
<1>1. Fewer(elements, s) /\ (s # <<>> => s[1].data \in Entries)
  BY CleanedIsFewer
<1>2. /\ elements' = IF s = <<>> THEN s ELSE DropTop(s)
      /\ out' = IF s = <<>> THEN NoData ELSE s[1].data
      /\ UNCHANGED <<capacity, survivor_table, now>>
  BY DEF lazy_heap_pop
<1> HIDE DEF s
<1>3. Fewer(elements, elements')
  <2>1. CASE s = <<>>
    BY <1>1, <1>2, <2>1
  <2>2. CASE s # <<>>
    <3>1. Rest(s, elements')
      BY <1>1, <1>2, <2>2, DropTopOK DEF Fewer
    <3>2. Len(s) \in Nat /\ Len(elements) \in Nat
      BY <1>1, LenProperties, CleanedIsFewer DEF Fewer
    <3>3. \A i \in 1 .. Len(elements') : \E j \in 1 .. Len(s) : elements'[i] = s[j]
      BY <3>1, <3>2 DEF Rest
    <3>4. \A i \in 1 .. Len(elements') : \E j \in 1 .. Len(elements) : elements'[i] = elements[j]
      BY <1>1, <3>3 DEF Fewer
    <3>5. Len(elements') <= Len(elements)
      BY <1>1, <3>1, <3>2 DEF Fewer, Rest
    <3> QED BY <1>1, <3>1, <3>4, <3>5 DEF Fewer, Rest
  <2> QED BY <2>1, <2>2
<1>4. out' \in Entries \cup {NoData, Void}
  BY <1>1, <1>2
<1> QED BY <1>2, <1>3, <1>4, FewerKeeps

\* Adding a key: the new element is not smaller than any other, stays where
\* it is put, and its address is one that no other element has.
LEMMA AddIs ==
  ASSUME HeapInv, NEW k \in HeapKeys, NEW p \in Prios, p >= now, AddKey(k, p)
  PROVE  \E e \in Element :
            /\ e = [h |-> Malloc, data |-> [key |-> k, prio |-> p], is_deleted |-> FALSE]
            /\ elements' = Append(elements, e)
            /\ survivor_table' = [survivor_table EXCEPT ![k] = e.h]
            /\ Ordered(elements')
            /\ \A i \in 1 .. queue_size : elements[i].h # e.h
<1> DEFINE e == [h |-> Malloc, data |-> [key |-> k, prio |-> p], is_deleted |-> FALSE]
           t == Append(elements, e)
<1>0. elements \in Seq(Element) /\ Ordered(elements) /\ queue_size \in Nat /\ now \in Nat /\ p \in Nat
  BY HeapAssumption, InvWords, LenProperties DEF HeapInv, HeapTypeOK, queue_size
<1>1. Malloc \in Addresses /\ \A i \in 1 .. queue_size : elements[i].h # Malloc
  BY <1>0, MallocOK DEF AddKey
<1>2. e \in Element /\ e.h = Malloc /\ e.data.prio = p /\ ~e.is_deleted
  BY <1>1 DEF Element, Entries
<1>3. elements' = up(t, queue_size + 1) /\ survivor_table' = [survivor_table EXCEPT ![k] = Malloc]
  BY DEF AddKey, lazy_heap_add
<1> HIDE DEF e, t
<1>4. t \in Seq(Element) /\ Len(t) = queue_size + 1 /\ t[queue_size + 1] = e /\ \A i \in 1 .. queue_size : t[i] = elements[i]
  BY <1>0, <1>2, AppendProperties DEF t, queue_size
<1>5. ASSUME NEW i \in 1 .. queue_size PROVE Fits(elements[i], e) /\ ~Larger(elements[i], e)
  <2>1. elements[i] \in Element
    BY <1>0, ElementOfSeq DEF queue_size
  <2>2. ~elements[i].is_deleted => elements[i].data.prio <= now /\ elements[i].data.prio \in Nat
    BY <2>1, ElementFields DEF HeapInv
  <2> QED BY <1>0, <1>2, <2>2 DEF Fits, Larger
<1>6. up(t, queue_size + 1) = t
  <2>1. queue_size + 1 \in 1 .. Len(t) /\ queue_size + 1 \in Nat
    BY <1>0, <1>4
  <2>2. (queue_size + 1) \div 2 > 0 => (queue_size + 1) \div 2 \in 1 .. queue_size
    BY <1>0, <2>1, Parents
  <2>3. (queue_size + 1) \div 2 > 0 => ~Larger(t[(queue_size + 1) \div 2], t[queue_size + 1])
    BY <1>4, <1>5, <2>2
  <2> QED BY <1>4, <2>1, <2>3, UpStays
<1>7. Ordered(t)
  BY <1>0, <1>2, <1>5, AppendOrdered DEF t, queue_size
<1>8. elements' = t
  BY <1>3, <1>6
<1> QED BY <1>1, <1>2, <1>3, <1>7, <1>8 DEF e, t

\* Adding keeps the invariant.
LEMMA AddKeeps ==
  ASSUME HeapInv, NEW k \in HeapKeys, NEW p \in Prios, p >= now, AddKey(k, p), now' = p
  PROVE  HeapInv'
<1>1. PICK e \in Element :
         /\ e = [h |-> Malloc, data |-> [key |-> k, prio |-> p], is_deleted |-> FALSE]
         /\ elements' = Append(elements, e)
         /\ survivor_table' = [survivor_table EXCEPT ![k] = e.h]
         /\ Ordered(elements')
         /\ \A i \in 1 .. queue_size : elements[i].h # e.h
  BY AddIs
<1>2. e.data.key = k /\ e.data.prio = p /\ ~e.is_deleted /\ e.h \in 1 .. MaxSize
  BY <1>1, ElementFields DEF Addresses
<1>3. elements \in Seq(Element) /\ queue_size \in Nat /\ now \in Nat /\ p \in Nat /\ MaxSize \in Nat
      /\ queue_size < MaxSize /\ queue_size <= capacity /\ capacity \in Nat /\ capacity > 0
  BY HeapAssumption, LenProperties DEF HeapInv, HeapTypeOK, queue_size, AddKey
<1>4. elements' \in Seq(Element) /\ queue_size' = queue_size + 1 /\ elements'[queue_size + 1] = e
      /\ \A i \in 1 .. queue_size : elements'[i] = elements[i]
  BY <1>1, <1>3, AppendProperties DEF queue_size
<1>5. \A i \in 1 .. queue_size' : i = queue_size + 1 \/ i \in 1 .. queue_size
  BY <1>3, <1>4
<1>6. HeapTypeOK'
  <2>1. survivor_table' \in [HeapKeys -> 0 .. MaxSize]
    <3>1. survivor_table \in [HeapKeys -> 0 .. MaxSize] /\ e.h \in 0 .. MaxSize
      BY <1>2, <1>3 DEF HeapInv, HeapTypeOK
    <3> QED BY <1>1, <3>1
  <2>2. capacity' \in Nat /\ queue_size' <= capacity' /\ queue_size' <= MaxSize
    <3>1. capacity' = IF queue_size + 1 <= capacity THEN capacity ELSE 2 * capacity
      BY DEF AddKey, lazy_heap_add, priority_queue_grow
    <3> QED BY <1>3, <1>4, <3>1
  <2>3. now' \in Prios /\ out' \in Entries \cup {NoData, Void}
    BY DEF AddKey
  <2> QED BY <1>4, <2>1, <2>2, <2>3 DEF HeapTypeOK
<1>7. SurvivorsAreReachable'
  <2>1. ASSUME NEW i \in 1 .. queue_size', NEW j \in 1 .. queue_size', elements'[i].h = elements'[j].h
        PROVE  i = j
    <3>1. CASE i = queue_size + 1 /\ j = queue_size + 1
      BY <3>1
    <3>2. CASE i = queue_size + 1 /\ j \in 1 .. queue_size
      BY <1>1, <1>4, <2>1, <3>2
    <3>3. CASE i \in 1 .. queue_size /\ j = queue_size + 1
      BY <1>1, <1>4, <2>1, <3>3
    <3>4. CASE i \in 1 .. queue_size /\ j \in 1 .. queue_size
      BY <1>4, <2>1, <3>4 DEF HeapInv, SurvivorsAreReachable
    <3> QED BY <1>5, <3>1, <3>2, <3>3, <3>4
  <2>2. ASSUME NEW i \in 1 .. queue_size', ~elements'[i].is_deleted
        PROVE  survivor_table'[elements'[i].data.key] = elements'[i].h
    <3>0. survivor_table \in [HeapKeys -> 0 .. MaxSize]
      BY DEF HeapInv, HeapTypeOK
    <3>1. CASE i = queue_size + 1
      <4>1. survivor_table'[k] = e.h
        BY <1>1, <3>0
      <4>2. elements'[i] = e
        BY <1>4, <3>1
      <4> QED BY <1>2, <4>1, <4>2, Zenon
    <3>2. CASE i \in 1 .. queue_size
      <4>1. elements'[i] = elements[i] /\ elements[i].data \in Survivors
        BY <1>4, <2>2, <3>2 DEF Survivors
      <4>2. elements[i].data.key # k
        BY <4>1 DEF AddKey, LiveKeys
      <4>3. elements[i] \in Element
        BY <1>3, <3>2, ElementOfSeq DEF queue_size
      <4>4. elements[i].data.key \in HeapKeys
        BY <2>2, <4>1, <4>3, ElementFields
      <4>5. survivor_table[elements[i].data.key] = elements[i].h
        BY <2>2, <3>2, <4>1 DEF HeapInv, SurvivorsAreReachable
      <4> QED BY <1>1, <3>0, <4>1, <4>2, <4>4, <4>5
    <3> QED BY <1>5, <3>1, <3>2
  <2> QED BY <2>1, <2>2 DEF SurvivorsAreReachable, queue_size
<1>8. OrderedPaths'
  BY <1>1, InvWords
<1>9. ASSUME NEW i \in 1 .. queue_size', ~elements'[i].is_deleted PROVE elements'[i].data.prio <= now'
  <2>1. CASE i = queue_size + 1
    BY <1>2, <1>3, <1>4, <2>1
  <2>2. CASE i \in 1 .. queue_size
    <3>1. elements[i] \in Element
      BY <1>3, <2>2, ElementOfSeq DEF queue_size
    <3>2. elements[i].data.prio \in Nat /\ elements[i].data.prio <= now
      BY <1>4, <1>9, <2>2, <3>1, ElementFields DEF HeapInv
    <3> QED BY <1>3, <1>4, <2>2, <3>2
  <2> QED BY <1>5, <2>1, <2>2
<1>10. capacity' > 0
  BY <1>3 DEF AddKey, lazy_heap_add, priority_queue_grow
<1> QED BY <1>6, <1>7, <1>8, <1>9, <1>10 DEF HeapInv, queue_size

\* Removing a key marks its element, if it has an unmarked one, and nothing
\* else.
LEMMA RemoveIs ==
  ASSUME HeapInv, NEW k \in HeapKeys, RemoveKey(k)
  PROVE  /\ elements' \in Seq(Element) /\ queue_size' = queue_size
         /\ \A i \in 1 .. queue_size :
               /\ elements'[i].h = elements[i].h
               /\ elements'[i] = elements[i] \/ elements'[i].is_deleted
               /\ ~elements[i].is_deleted => (elements'[i].is_deleted <=> elements[i].data.key = k)
<1> DEFINE a == survivor_table[k]
<1>0. elements \in Seq(Element) /\ queue_size \in Nat /\ \A i \in 1 .. queue_size : elements[i] \in Element
  BY LenProperties, ElementOfSeq DEF HeapInv, HeapTypeOK, queue_size
<1>1. ASSUME NEW e \in Element
      PROVE  Marked(e) \in Element /\ Marked(e).h = e.h /\ Marked(e).is_deleted
  <2>1. Marked(e) = [h |-> e.h, data |-> NoData, is_deleted |-> TRUE] /\ e.h \in Addresses
    BY ElementFields DEF Marked
  <2> DEFINE m == [h |-> e.h, data |-> NoData, is_deleted |-> TRUE]
  <2>2. m \in Element /\ m.h = e.h /\ m.is_deleted
    BY <2>1 DEF Element
  <2> QED BY <2>1, <2>2
<1>2. elements' = [i \in 1 .. queue_size |-> IF elements[i].h = a THEN Marked(elements[i]) ELSE elements[i]]
  BY DEF RemoveKey, lazy_heap_remove
<1>3. elements' \in Seq(Element) /\ queue_size' = queue_size
  <2>1. \A i \in 1 .. queue_size : (IF elements[i].h = a THEN Marked(elements[i]) ELSE elements[i]) \in Element
    BY <1>0, <1>1
  <2>2. elements' \in [1 .. queue_size -> Element]
    BY <1>2, <2>1
  <2> QED BY <1>0, <2>2 DEF queue_size
<1>4. ASSUME NEW i \in 1 .. queue_size
      PROVE  /\ elements'[i].h = elements[i].h
             /\ elements'[i] = elements[i] \/ elements'[i].is_deleted
             /\ ~elements[i].is_deleted => (elements'[i].is_deleted <=> elements[i].data.key = k)
  <2>1. CASE elements[i].h = a
    <3>1. elements'[i] = Marked(elements[i])
      BY <1>2, <2>1
    <3>2. elements'[i].h = elements[i].h /\ elements'[i].is_deleted
      BY <1>0, <1>1, <3>1
    <3>3. ASSUME ~elements[i].is_deleted PROVE elements[i].data.key = k
      <4>1. a # 0
        BY <1>0, <2>1, ElementFields DEF Addresses
      <4>2. k \in LiveKeys
        BY <4>1 DEF RemoveKey
      <4>3. PICK j \in 1 .. queue_size : ~elements[j].is_deleted /\ elements[j].data.key = k
        BY <4>2 DEF LiveKeys, Survivors
      <4>4. elements[j].h = a
        BY <4>3 DEF HeapInv, SurvivorsAreReachable
      <4>5. i = j
        BY <2>1, <4>4 DEF HeapInv, SurvivorsAreReachable
      <4> QED BY <4>3, <4>5
    <3> QED BY <3>2, <3>3
  <2>2. CASE elements[i].h # a
    <3>1. elements'[i] = elements[i]
      BY <1>2, <2>2
    <3>2. ~elements[i].is_deleted => elements[i].data.key # k
      BY <2>2 DEF HeapInv, SurvivorsAreReachable
    <3> QED BY <3>1, <3>2
  <2> QED BY <2>1, <2>2
<1> QED BY <1>3, <1>4

\* Removing keeps the invariant.
LEMMA RemoveKeeps ==
  ASSUME HeapInv, NEW k \in HeapKeys, RemoveKey(k)
  PROVE  HeapInv'
<1>1. /\ elements' \in Seq(Element) /\ queue_size' = queue_size /\ queue_size \in Nat
      /\ \A i \in 1 .. queue_size :
            /\ elements'[i].h = elements[i].h
            /\ elements'[i] = elements[i] \/ elements'[i].is_deleted
            /\ ~elements[i].is_deleted => (elements'[i].is_deleted <=> elements[i].data.key = k)
  BY RemoveIs, LenProperties DEF HeapInv, HeapTypeOK, queue_size
<1>2. /\ survivor_table' = [survivor_table EXCEPT ![k] = 0]
      /\ UNCHANGED <<capacity, now>> /\ out' = Void
  BY DEF RemoveKey, lazy_heap_remove
<1>3. survivor_table \in [HeapKeys -> 0 .. MaxSize] /\ MaxSize \in Nat
  BY HeapAssumption DEF HeapInv, HeapTypeOK
<1>4. HeapTypeOK'
  <2>1. survivor_table' \in [HeapKeys -> 0 .. MaxSize]
    BY <1>2, <1>3
  <2> QED BY <1>1, <1>2, <2>1 DEF HeapInv, HeapTypeOK
<1>5. ASSUME NEW i \in 1 .. queue_size, ~elements'[i].is_deleted
      PROVE  elements'[i] = elements[i] /\ ~elements[i].is_deleted /\ elements[i].data.key # k
  BY <1>1, <1>5
<1>6. SurvivorsAreReachable'
  <2>1. \A i, j \in 1 .. queue_size : elements'[i].h = elements'[j].h => i = j
    BY <1>1 DEF HeapInv, SurvivorsAreReachable
  <2>2. ASSUME NEW i \in 1 .. queue_size, ~elements'[i].is_deleted
        PROVE  survivor_table'[elements'[i].data.key] = elements'[i].h
    <3>1. elements'[i] = elements[i] /\ ~elements[i].is_deleted /\ elements[i].data.key # k
      BY <1>5, <2>2
    <3>2. elements[i].data.key \in HeapKeys
      BY <3>1, ElementOfSeq, ElementFields DEF HeapInv, HeapTypeOK, queue_size
    <3>3. survivor_table[elements[i].data.key] = elements[i].h
      BY <3>1 DEF HeapInv, SurvivorsAreReachable
    <3> QED BY <1>2, <1>3, <3>1, <3>2, <3>3
  <2> QED BY <1>1, <2>1, <2>2 DEF SurvivorsAreReachable
<1>7. OrderedPaths'
  <2> SUFFICES ASSUME NEW i \in 1 .. queue_size, NEW j \in Below(i, queue_size),
                      ~elements'[i].is_deleted, ~elements'[j].is_deleted
               PROVE  elements'[i].data.prio <= elements'[j].data.prio
    BY <1>1 DEF OrderedPaths
  <2>1. j \in 1 .. queue_size
    BY DEF Below
  <2>2. /\ elements'[i] = elements[i] /\ ~elements[i].is_deleted
        /\ elements'[j] = elements[j] /\ ~elements[j].is_deleted
    BY <1>5, <2>1
  <2> QED BY <2>2 DEF HeapInv, OrderedPaths
<1>8. \A i \in 1 .. queue_size : ~elements'[i].is_deleted => elements'[i].data.prio <= now'
  BY <1>2, <1>5 DEF HeapInv
<1> QED BY <1>1, <1>2, <1>4, <1>6, <1>7, <1>8 DEF HeapInv

\* The invariant holds in every state of a heap whose keys come with
\* timestamps that never go back.
THEOREM TimedSpecInv == TimedSpec => []HeapInv
<1>1. HeapInit => HeapInv
  <2> SUFFICES ASSUME HeapInit PROVE HeapInv
    OBVIOUS
  <2>1. elements = <<>> /\ capacity = InitCapacity /\ survivor_table = [k \in HeapKeys |-> 0] /\ now = 0 /\ out = Void
    BY DEF HeapInit, lazy_heap_create
  <2>2. elements \in Seq(Element) /\ queue_size = 0
    BY <2>1 DEF queue_size
  <2>3. HeapTypeOK
    BY <2>1, <2>2, HeapAssumption DEF HeapTypeOK
  <2>4. 1 .. queue_size = {}
    BY <2>2
  <2> QED BY <2>1, <2>3, <2>4, HeapAssumption DEF HeapInv, SurvivorsAreReachable, OrderedPaths
<1>2. HeapInv /\ [TimedNext]_heapVars => HeapInv'
  <2> SUFFICES ASSUME HeapInv, [TimedNext]_heapVars PROVE HeapInv'
    OBVIOUS
  <2>1. CASE lazy_heap_peek /\ UNCHANGED now
    BY <2>1, PeekKeeps
  <2>2. CASE lazy_heap_pop /\ UNCHANGED now
    BY <2>2, PopKeeps
  <2>3. ASSUME NEW k \in HeapKeys, RemoveKey(k) PROVE HeapInv'
    BY <2>3, RemoveKeeps
  <2>4. ASSUME NEW k \in HeapKeys, NEW p \in Prios, p >= now, AddKey(k, p), now' = p PROVE HeapInv'
    BY <2>4, AddKeeps
  <2>5. CASE UNCHANGED heapVars
    BY <2>5 DEF heapVars, HeapInv, HeapTypeOK, SurvivorsAreReachable, OrderedPaths, queue_size
  <2> QED BY <2>1, <2>2, <2>3, <2>4, <2>5 DEF TimedNext, Look
<1> QED BY <1>1, <1>2, PTL DEF TimedSpec

\* priority_queue_grow always makes room: the array never holds more than its
\* capacity, deleted elements included.
THEOREM HeapTypeCorrect == TimedSpec => []HeapTypeOK
<1>1. HeapInv => HeapTypeOK
  BY DEF HeapInv
<1> QED BY <1>1, TimedSpecInv, PTL

\* A key's entry of the survivor table leads to its own element, for as long
\* as that is in the queue: lazy_heap_remove marks the right one.
THEOREM SurvivorsReachable == TimedSpec => []SurvivorsAreReachable
<1>1. HeapInv => SurvivorsAreReachable
  BY DEF HeapInv
<1> QED BY <1>1, TimedSpecInv, PTL

\* The unmarked elements are in heap order, whatever marked ones lie between.
THEOREM PathsOrdered == TimedSpec => []OrderedPaths
<1>1. HeapInv => OrderedPaths
  BY DEF HeapInv
<1> QED BY <1>1, TimedSpecInv, PTL

-----------------------------------------------------------------------------
(* The heap is a priority queue.                                           *)

\* The unmarked entries of an array.
Live(s) == {s[i].data : i \in {j \in 1 .. Len(s) : ~s[j].is_deleted}}

\* Survivors in these words.
LEMMA SurvivorsLive == Survivors = Live(elements) /\ Survivors' = Live(elements')
<1>1. Survivors = Live(elements)
  BY DEF Survivors, Live, queue_size
<1>2. Survivors' = Live(elements')
  BY DEF Survivors, Live, queue_size
<1> QED BY <1>1, <1>2

\* What do_delete leaves out was marked.
LEMMA CleanedLive ==
  ASSUME NEW s, NEW t, Cleaned(s, t)
  PROVE  Live(t) = Live(s)
<1>1. ASSUME NEW x \in Live(t) PROVE x \in Live(s)
  <2>1. PICK i \in 1 .. Len(t) : ~t[i].is_deleted /\ x = t[i].data
    BY DEF Live
  <2>2. PICK j \in 1 .. Len(s) : t[i] = s[j]
    BY DEF Cleaned
  <2> QED BY <2>1, <2>2 DEF Live
<1>2. ASSUME NEW x \in Live(s) PROVE x \in Live(t)
  <2>1. PICK i \in 1 .. Len(s) : ~s[i].is_deleted /\ x = s[i].data
    BY DEF Live
  <2>2. PICK j \in 1 .. Len(t) : t[j] = s[i]
    BY <2>1 DEF Cleaned
  <2> QED BY <2>1, <2>2 DEF Live
<1> QED BY <1>1, <1>2

\* An unmarked top is one of the smallest unmarked entries.
LEMMA TopIsSmallest ==
  ASSUME NEW s \in Seq(Element), Ordered(s), s # <<>>, ~s[1].is_deleted
  PROVE  /\ 1 \in 1 .. Len(s) /\ s[1].data \in Live(s)
         /\ \A x \in Live(s) : s[1].data.prio <= x.prio
<1>0. Len(s) \in Nat /\ 1 \in 1 .. Len(s)
  BY LenProperties, EmptySeq
<1>1. s[1].data \in Live(s)
  BY <1>0 DEF Live
<1>2. ASSUME NEW x \in Live(s) PROVE s[1].data.prio <= x.prio
  <2>1. PICK j \in 1 .. Len(s) : ~s[j].is_deleted /\ x = s[j].data
    BY DEF Live
  <2>2. CASE j = 1
    <3>1. s[1] \in Element
      BY <1>0, ElementOfSeq
    <3>2. s[1].data.prio \in Nat
      BY <3>1, ElementFields
    <3> QED BY <2>1, <2>2, <3>2
  <2>3. CASE j # 1
    <3>1. j \in 2 .. Len(s)
      BY <1>0, <2>3
    <3>2. j \in Below(1, Len(s))
      BY <1>0, <3>1, BelowTop
    <3> QED BY <1>0, <2>1, <3>2 DEF Ordered, Fits
  <2> QED BY <2>2, <2>3
<1> QED BY <1>0, <1>1, <1>2

\* What looking returns, and what it looks at.
LEMMA LookShows ==
  ASSUME HeapInv
  PROVE  LET s == do_delete(elements)
             r == IF s = <<>> THEN NoData ELSE s[1].data
         IN /\ Live(s) = Survivors
            /\ r \in IF Survivors = {} THEN {NoData} ELSE Queue!Smallest
<1> DEFINE s == do_delete(elements)
           r == IF s = <<>> THEN NoData ELSE s[1].data
<1>1. /\ Cleaned(elements, s) /\ Fewer(elements, s)
      /\ s = <<>> \/ ~s[1].is_deleted
  BY CleanedIsFewer
<1> HIDE DEF s
<1>2. Live(s) = Survivors
  BY <1>1, CleanedLive, SurvivorsLive
<1>3. s \in Seq(Element) /\ Ordered(s)
  BY <1>1 DEF Fewer
<1>4. CASE s = <<>>
  <2>1. Live(s) = {}
    <3>1. Len(s) = 0
      BY <1>4
    <3> QED BY <3>1 DEF Live
  <2> QED BY <1>2, <1>4, <2>1 DEF s
<1>5. CASE s # <<>>
  <2>1. s[1].data \in Live(s) /\ \A x \in Live(s) : s[1].data.prio <= x.prio
    BY <1>1, <1>3, <1>5, TopIsSmallest
  <2>2. s[1].data \in Queue!Smallest
    BY <1>2, <2>1 DEF Queue!Smallest
  <2> QED BY <1>2, <1>5, <2>1, <2>2 DEF s
<1> QED BY <1>4, <1>5

\* Looking at the top is Peek.
LEMMA PeekIsPeek ==
  ASSUME HeapInv, lazy_heap_peek
  PROVE  Queue!Peek
<1> DEFINE s == do_delete(elements)
           r == IF s = <<>> THEN NoData ELSE s[1].data
<1>1. /\ Live(s) = Survivors /\ r \in IF Survivors = {} THEN {NoData} ELSE Queue!Smallest
  BY LookShows
<1>2. elements' = s /\ out' = r
  BY DEF lazy_heap_peek
<1> HIDE DEF s, r
<1>3. Survivors' = Survivors
  BY <1>1, <1>2, SurvivorsLive
<1> QED BY <1>1, <1>2, <1>3 DEF Queue!Peek

\* Taking the top is Pop: no other unmarked element has its entry, as the
\* survivor table has one address for the key.
LEMMA PopIsPop ==
  ASSUME HeapInv, lazy_heap_pop
  PROVE  Queue!Pop
<1> DEFINE s == do_delete(elements)
           r == IF s = <<>> THEN NoData ELSE s[1].data
<1>1. /\ Live(s) = Survivors /\ r \in IF Survivors = {} THEN {NoData} ELSE Queue!Smallest
  BY LookShows
<1>2. elements' = (IF s = <<>> THEN s ELSE DropTop(s)) /\ out' = r
  BY DEF lazy_heap_pop
<1>3. /\ Cleaned(elements, s) /\ Fewer(elements, s) /\ elements \in Seq(Element)
      /\ s = <<>> \/ ~s[1].is_deleted
  BY CleanedIsFewer
<1> HIDE DEF s
<1>4. CASE s = <<>>
  <2>1. Live(s) = {}
    <3>1. Len(s) = 0
      BY <1>4
    <3> QED BY <3>1 DEF Live
  <2>2. Survivors' = {} /\ Survivors = {}
    BY <1>1, <1>2, <1>4, <2>1, SurvivorsLive
  <2> QED BY <1>1, <1>2, <2>2 DEF Queue!Pop
<1>5. CASE s # <<>>
  <2> DEFINE t == DropTop(s)
  <2>1. s \in Seq(Element) /\ Ordered(s) /\ (Unique(elements) => Unique(s)) /\ Rest(s, t)
    BY <1>3, <1>5, DropTopOK DEF Fewer
  <2>2. Unique(s)
    BY <2>1 DEF HeapInv, SurvivorsAreReachable, Unique, queue_size
  <2>3. elements' = t /\ out' = s[1].data /\ ~s[1].is_deleted
    BY <1>2, <1>3, <1>5
  <2> HIDE DEF t
  <2>4. 1 \in 1 .. Len(s) /\ s[1].data \in Live(s) /\ Len(s) \in Nat
    BY <1>3, <1>5, <2>1, TopIsSmallest, LenProperties
  <2>5. \A j \in 1 .. Len(s) : ~s[j].is_deleted => survivor_table[s[j].data.key] = s[j].h
    BY <1>3 DEF Fewer, HeapInv, SurvivorsAreReachable, queue_size
  <2>6. \A j \in 2 .. Len(s) : j \in 1 .. Len(s) /\ j # 1
    BY <2>4
  <2>7. ASSUME NEW x \in Live(t) PROVE x \in Live(s) /\ x # s[1].data
    <3>1. PICK i \in 1 .. Len(t) : ~t[i].is_deleted /\ x = t[i].data
      BY DEF Live
    <3>2. PICK j \in 2 .. Len(s) : t[i] = s[j]
      BY <2>1 DEF Rest
    <3>3. x \in Live(s)
      BY <2>6, <3>1, <3>2 DEF Live
    <3>4. x = s[1].data => s[j].h = s[1].h
      BY <2>3, <2>4, <2>5, <2>6, <3>1, <3>2
    <3> QED BY <2>2, <2>4, <2>6, <3>3, <3>4 DEF Unique
  <2>8. ASSUME NEW x \in Live(s), x # s[1].data PROVE x \in Live(t)
    <3>1. PICK j \in 1 .. Len(s) : ~s[j].is_deleted /\ x = s[j].data
      BY DEF Live
    <3>2. j \in 2 .. Len(s)
      BY <2>4, <2>8, <3>1
    <3>3. PICK i \in 1 .. Len(t) : t[i] = s[j]
      BY <2>1, <3>2 DEF Rest
    <3> QED BY <3>1, <3>3 DEF Live
  <2>9. Survivors' = Survivors \ {out'}
    BY <1>1, <2>3, <2>7, <2>8, SurvivorsLive
  <2> QED BY <1>1, <1>2, <2>9 DEF Queue!Pop
<1> QED BY <1>4, <1>5

\* Adding a key is Add.
LEMMA AddIsAdd ==
  ASSUME HeapInv, NEW k \in HeapKeys, NEW p \in Prios, p >= now, AddKey(k, p)
  PROVE  Queue!Add(k, p)
<1>1. PICK e \in Element :
         /\ e = [h |-> Malloc, data |-> [key |-> k, prio |-> p], is_deleted |-> FALSE]
         /\ elements' = Append(elements, e)
  BY AddIs
<1>2. e.data = [key |-> k, prio |-> p] /\ ~e.is_deleted
  BY <1>1
<1>3. elements \in Seq(Element) /\ Len(elements) \in Nat
  BY LenProperties DEF HeapInv, HeapTypeOK
<1> DEFINE n == Len(elements)
           t == Append(elements, e)
<1>4. Len(t) = n + 1 /\ t[n + 1] = e /\ \A i \in 1 .. n : t[i] = elements[i]
  BY <1>3, AppendProperties
<1> HIDE DEF t, n
<1>5. n \in Nat /\ n + 1 \in 1 .. n + 1 /\ \A i \in 1 .. n + 1 : i = n + 1 \/ i \in 1 .. n
  BY <1>3 DEF n
<1>6. ASSUME NEW x \in Live(t) PROVE x \in Live(elements) \/ x = e.data
  <2>1. PICK i \in 1 .. n + 1 : ~t[i].is_deleted /\ x = t[i].data
    BY <1>4 DEF Live
  <2>2. CASE i = n + 1
    BY <1>4, <2>1, <2>2
  <2>3. CASE i \in 1 .. n
    BY <1>4, <2>1, <2>3 DEF Live, n
  <2> QED BY <1>5, <2>2, <2>3
<1>7. ASSUME NEW x \in Live(elements) PROVE x \in Live(t)
  <2>1. PICK i \in 1 .. n : ~elements[i].is_deleted /\ x = elements[i].data
    BY DEF Live, n
  <2>2. i \in 1 .. n + 1 /\ t[i] = elements[i]
    BY <1>4, <1>5, <2>1
  <2> QED BY <1>4, <2>1, <2>2 DEF Live
<1>8. e.data \in Live(t)
  BY <1>2, <1>4, <1>5 DEF Live
<1>9. Survivors' = Survivors \cup {[key |-> k, prio |-> p]}
  BY <1>1, <1>2, <1>6, <1>7, <1>8, SurvivorsLive DEF t
<1>10. (\A x \in Survivors : x.key # k) /\ out' = Void
  BY DEF AddKey, LiveKeys
<1> QED BY <1>9, <1>10 DEF Queue!Add

\* Removing a key is Remove, and nothing at all when the key is not there.
LEMMA RemoveIsRemove ==
  ASSUME HeapInv, NEW k \in HeapKeys, RemoveKey(k)
  PROVE  Queue!Remove(k)
<1>1. /\ queue_size' = queue_size
      /\ \A i \in 1 .. queue_size :
            /\ elements'[i] = elements[i] \/ elements'[i].is_deleted
            /\ ~elements[i].is_deleted => (elements'[i].is_deleted <=> elements[i].data.key = k)
  BY RemoveIs
<1>2. ASSUME NEW x \in Survivors' PROVE x \in Survivors /\ x.key # k
  <2>1. PICK i \in 1 .. queue_size : ~elements'[i].is_deleted /\ x = elements'[i].data
    BY <1>1 DEF Survivors
  <2>2. elements'[i] = elements[i]
    BY <1>1, <2>1
  <2>3. ~elements[i].is_deleted /\ elements[i].data.key # k
    BY <1>1, <2>1, <2>2
  <2> QED BY <2>1, <2>2, <2>3 DEF Survivors
<1>3. ASSUME NEW x \in Survivors, x.key # k PROVE x \in Survivors'
  <2>1. PICK i \in 1 .. queue_size : ~elements[i].is_deleted /\ x = elements[i].data
    BY DEF Survivors
  <2>2. ~elements'[i].is_deleted
    BY <1>1, <1>3, <2>1
  <2>3. elements'[i] = elements[i] /\ i \in 1 .. queue_size'
    BY <1>1, <2>2
  <2> QED BY <2>1, <2>3 DEF Survivors
<1>4. Survivors' = {x \in Survivors : x.key # k}
  BY <1>2, <1>3
<1> QED BY <1>4 DEF RemoveKey, Queue!Remove

\* The heap with lazy deletion implements the queue of deadlines: looking and
\* popping give the earliest of the keys that were added and not removed, and
\* marking elements instead of taking them out makes no difference to callers.
THEOREM HeapImplementsMinQueue == TimedSpec => ImplementsMinQueue
<1>1. HeapInit => Queue!Init
  <2> SUFFICES ASSUME HeapInit PROVE Queue!Init
    OBVIOUS
  <2>1. elements = <<>> /\ out = Void
    BY DEF HeapInit, lazy_heap_create
  <2>2. 1 .. Len(elements) = {}
    BY <2>1
  <2> QED BY <2>1, <2>2 DEF Queue!Init, Survivors, queue_size
<1>2. HeapInv /\ [TimedNext]_heapVars => [Queue!Next]_<<Survivors, out>>
  <2> SUFFICES ASSUME HeapInv, [TimedNext]_heapVars PROVE [Queue!Next]_<<Survivors, out>>
    OBVIOUS
  <2>1. CASE lazy_heap_peek /\ UNCHANGED now
    BY <2>1, PeekIsPeek DEF Queue!Next
  <2>2. CASE lazy_heap_pop /\ UNCHANGED now
    BY <2>2, PopIsPop DEF Queue!Next
  <2>3. ASSUME NEW k \in HeapKeys, RemoveKey(k) PROVE Queue!Next
    BY <2>3, RemoveIsRemove DEF Queue!Next
  <2>4. ASSUME NEW k \in HeapKeys, NEW p \in Prios, p >= now, AddKey(k, p), now' = p PROVE Queue!Next
    BY <2>4, AddIsAdd DEF Queue!Next
  <2>5. CASE UNCHANGED heapVars
    BY <2>5 DEF heapVars, Survivors, queue_size
  <2> QED BY <2>1, <2>2, <2>3, <2>4, <2>5 DEF TimedNext, Look
<1> QED BY <1>1, <1>2, TimedSpecInv, PTL DEF TimedSpec, ImplementsMinQueue, Queue!Spec
==============================================================================
