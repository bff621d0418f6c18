----------------------------- MODULE WireProofs -----------------------------
(***************************************************************************)
(* Proofs about the wire format for every set of names and texts, every    *)
(* number of records and every way to compress them: the pointers that     *)
(* the relay writes lead back, and a record means to the client what it    *)
(* meant to the upstream.                                                  *)
(***************************************************************************)
EXTENDS Wire, NumberLemmas, SequenceTheorems

-----------------------------------------------------------------------------
(* Cells and fields.                                                       *)

\* The cells of a packet.
Cell == {<<"label", l>> : l \in STRING} \cup {End} \cup {Pointer(p) : p \in Nat}
        \cup {<<"q", "A">>} \cup {<<"rr", t, n>> : t \in RTypes, n \in Nat}
        \cup {<<"data", k>> : k \in Nat}

\* What the kind of a cell says about its content.
LEMMA CellKinds ==
  ASSUME NEW c \in Cell
  PROVE  /\ c[1] = "label" => c = <<"label", c[2]>> /\ c[2] \in STRING
         /\ c[1] = "end" <=> c = End
         /\ c[1] = "ptr" => c[2] \in Nat
BY DEF Cell, End, Pointer

\* d begins with the cells of b.
Begins(b, d) == Len(b) <= Len(d) /\ \A k \in 1 .. Len(b) : d[k] = b[k]

\* A field has one end.
LEMMA FieldIs ==
  ASSUME NEW b, Len(b) \in Nat, NEW p \in 1 .. Len(b), NEW i \in p .. Len(b), IsField(b, p, i)
  PROVE  p \in Fields(b) /\ FieldEnd(b, p) = i
<1>1. p \in Fields(b)
  BY DEF Fields
<1>2. FieldEnd(b, p) \in p .. Len(b) /\ IsField(b, p, FieldEnd(b, p))
  BY DEF FieldEnd
<1>3. \A x, y \in p .. Len(b) : IsField(b, p, x) /\ IsField(b, p, y) => ~(x < y)
  BY DEF IsField
<1>4. ~(i < FieldEnd(b, p)) /\ ~(FieldEnd(b, p) < i)
  BY <1>2, <1>3
<1> QED BY <1>1, <1>2, <1>4

\* Where a field ends, and what is in it.
LEMMA FieldProps ==
  ASSUME NEW b, Len(b) \in Nat, NEW p \in Fields(b)
  PROVE  /\ p \in 1 .. Len(b) /\ FieldEnd(b, p) \in p .. Len(b)
         /\ IsField(b, p, FieldEnd(b, p))
<1>1. PICK i \in p .. Len(b) : IsField(b, p, i)
  BY DEF Fields
<1> QED BY <1>1 DEF Fields, FieldEnd

\* What comes behind a field does not matter to it.
LEMMA FieldExtends ==
  ASSUME NEW b, NEW d, Len(b) \in Nat, Len(d) \in Nat, Begins(b, d), NEW p \in Fields(b)
  PROVE  p \in Fields(d) /\ FieldEnd(d, p) = FieldEnd(b, p)
<1> DEFINE i == FieldEnd(b, p)
<1>1. p \in 1 .. Len(b) /\ i \in p .. Len(b) /\ IsField(b, p, i)
  BY FieldProps
<1> HIDE DEF i
<1>2. p \in 1 .. Len(d) /\ i \in p .. Len(d) /\ IsField(d, p, i)
  BY <1>1 DEF Begins, IsField
<1> QED BY <1>2, FieldIs DEF i

\* Links on D that lead to lesser measures: where they stop x is the value,
\* and elsewhere pre goes in front of the value that g leads to.
Links(D, X, n, e, stop, x, pre, g) ==
    /\ n \in Nat /\ e \in [D -> 0 .. n]
    /\ x \in [D -> Seq(X)] /\ pre \in [D -> Seq(X)]
    /\ \A p \in D : p \notin stop => g[p] \in D /\ e[g[p]] < e[p]

\* They have a value everywhere.
LEMMA FollowExists ==
  ASSUME NEW D, NEW X, NEW n, NEW e, NEW stop, NEW x, NEW pre, NEW g,
         Links(D, X, n, e, stop, x, pre, g)
  PROVE  \E f \in [D -> Seq(X)] :
            \A p \in D : f[p] = IF p \in stop THEN x[p] ELSE pre[p] \o f[g[p]]
<1> USE DEF Links
<1> DEFINE Eq(f, p) == f[p] = IF p \in stop THEN x[p] ELSE pre[p] \o f[g[p]]
           P == {m \in 0 .. n : \E f \in [D -> Seq(X)] : \A p \in D : e[p] <= m => Eq(f, p)}
<1>1. 0 \in P
  <2>1. ASSUME NEW p \in D, e[p] <= 0 PROVE p \in stop
    <3> SUFFICES ASSUME p \notin stop PROVE FALSE
      OBVIOUS
    <3>1. g[p] \in D /\ e[g[p]] < e[p]
      OBVIOUS
    <3>2. e[g[p]] \in 0 .. n /\ e[p] \in 0 .. n
      BY <3>1
    <3> QED BY <2>1, <3>1, <3>2
  <2>2. \A p \in D : e[p] <= 0 => Eq(x, p)
    BY <2>1
  <2> HIDE DEF Eq
  <2> QED BY <2>2
<1>2. ASSUME NEW m \in 0 .. n - 1, m \in P PROVE m + 1 \in P
  <2>1. PICK f \in [D -> Seq(X)] : \A p \in D : e[p] <= m => Eq(f, p)
    BY <1>2
  <2> DEFINE h == [p \in D |-> IF e[p] <= m THEN f[p]
                               ELSE IF p \in stop THEN x[p] ELSE pre[p] \o f[g[p]]]
  <2>2. h \in [D -> Seq(X)]
    <3>1. ASSUME NEW p \in D PROVE h[p] \in Seq(X)
      <4>1. CASE p \in stop
        BY <4>1
      <4>2. CASE p \notin stop
        <5>1. g[p] \in D
          BY <4>2
        <5>2. pre[p] \in Seq(X) /\ f[g[p]] \in Seq(X) /\ f[p] \in Seq(X)
          BY <5>1
        <5>3. pre[p] \o f[g[p]] \in Seq(X)
          BY <5>2, ConcatProperties
        <5> QED BY <4>2, <5>2, <5>3
      <4> QED BY <4>1, <4>2
    <3> HIDE DEF h
    <3>2. h = [p \in D |-> h[p]]
      BY DEF h
    <3> QED BY <3>1, <3>2
  <2>3. ASSUME NEW p \in D, e[p] <= m + 1 PROVE Eq(h, p)
    <3>1. e[p] \in 0 .. n
      OBVIOUS
    <3>2. CASE p \in stop
      <4>1. e[p] <= m => f[p] = x[p]
        BY <2>1, <3>2
      <4> QED BY <3>2, <4>1
    <3>3. CASE p \notin stop
      <4>1. g[p] \in D /\ e[g[p]] < e[p]
        BY <3>3
      <4>2. e[g[p]] \in 0 .. n /\ e[g[p]] <= m
        BY <2>3, <3>1, <4>1
      <4>3. h[g[p]] = f[g[p]]
        BY <4>1, <4>2
      <4>4. e[p] <= m => f[p] = pre[p] \o f[g[p]]
        BY <2>1, <3>3
      <4>5. h[p] = pre[p] \o f[g[p]]
        BY <3>3, <4>4
      <4> HIDE DEF h
      <4> QED BY <3>3, <4>3, <4>5
    <3> QED BY <3>2, <3>3
  <2> HIDE DEF h, Eq
  <2>4. m + 1 \in 0 .. n
    OBVIOUS
  <2>5. \A p \in D : e[p] <= m + 1 => Eq(h, p)
    BY <2>3
  <2>6. \E f1 \in [D -> Seq(X)] : \A p \in D : e[p] <= m + 1 => Eq(f1, p)
    BY <2>2, <2>5, Zenon
  <2> QED BY <2>4, <2>6, Zenon
<1>3. n \in P
  <2> HIDE DEF P
  <2>1. 0 .. n \subseteq P
    BY <1>1, <1>2, UpTo
  <2> QED BY <2>1
<1>4. PICK f \in [D -> Seq(X)] : \A p \in D : e[p] <= n => Eq(f, p)
  BY <1>3
<1>5. \A p \in D : e[p] <= n
  OBVIOUS
<1> QED BY <1>4, <1>5

-----------------------------------------------------------------------------
(* Reading names.                                                          *)

\* The texts of the labels from q to before i.
Labels(b, q, i) == [j \in 1 .. i - q |-> b[q + j - 1][2]]

\* The labels of a field are strings.
LEMMA LabelsType ==
  ASSUME NEW b \in Seq(Cell), NEW q \in Fields(b)
  PROVE  Labels(b, q, FieldEnd(b, q)) \in Seq(STRING) /\ Len(Labels(b, q, FieldEnd(b, q))) = FieldEnd(b, q) - q
<1> DEFINE i == FieldEnd(b, q)
<1>1. Len(b) \in Nat /\ \A k \in 1 .. Len(b) : b[k] \in Cell
  BY LenProperties, ElementOfSeq
<1>2. q \in 1 .. Len(b) /\ i \in q .. Len(b) /\ IsField(b, q, i)
  BY <1>1, FieldProps
<1> HIDE DEF i
<1>3. ASSUME NEW j \in 1 .. i - q PROVE b[q + j - 1][2] \in STRING
  <2>1. q + j - 1 \in q .. i - 1 /\ q + j - 1 \in 1 .. Len(b)
    BY <1>1, <1>2
  <2>2. b[q + j - 1][1] = "label" /\ b[q + j - 1] \in Cell
    BY <1>1, <1>2, <2>1 DEF IsField
  <2> QED BY <2>2, CellKinds
<1>4. i - q \in Nat
  BY <1>1, <1>2
<1>5. [j \in 1 .. i - q |-> b[q + j - 1][2]] \in Seq(STRING)
      /\ Len([j \in 1 .. i - q |-> b[q + j - 1][2]]) = i - q
  BY <1>3, <1>4
<1> QED BY <1>5 DEF Labels, i

\* A name field by field: its labels, and what its pointer leads to.
LEMMA NameAtEq ==
  ASSUME NEW b \in Seq(Cell), NEW p \in Fields(b)
  PROVE  /\ b[FieldEnd(b, p)] = End => NameAt(b, p) = Labels(b, p, FieldEnd(b, p))
         /\ b[FieldEnd(b, p)] # End /\ LeadsBack(b, FieldEnd(b, p)) =>
               NameAt(b, p) = Labels(b, p, FieldEnd(b, p)) \o NameAt(b, b[FieldEnd(b, p)][2])
<1> DEFINE D == Fields(b)
           X == STRING \cup Cell
           E(q) == FieldEnd(b, q)
           L(q) == Labels(b, q, E(q))
           Go(q) == b[E(q)] # End /\ LeadsBack(b, E(q))
           Out(f, q) == L(q) \o (IF b[E(q)] = End THEN <<>>
                                 ELSE IF LeadsBack(b, E(q)) THEN f[b[E(q)][2]] ELSE <<b[E(q)]>>)
           R(f) == f = [q \in D |-> Out(f, q)]
<1>1. Len(b) \in Nat /\ \A k \in 1 .. Len(b) : b[k] \in Cell
  BY LenProperties, ElementOfSeq
<1>2. \A q \in D : q \in 1 .. Len(b) /\ E(q) \in q .. Len(b) /\ E(q) \in 0 .. Len(b) /\ b[E(q)] \in Cell
  BY <1>1, FieldProps
<1>3. \A q \in D : L(q) \in Seq(X)
  BY LabelsType, SeqMonotonic
<1>4. \A q \in D : L(q) \o <<>> \in Seq(X) /\ L(q) \o <<b[E(q)]>> \in Seq(X) /\ L(q) \o <<>> = L(q)
  <2> SUFFICES ASSUME NEW q \in D
               PROVE  L(q) \o <<>> \in Seq(X) /\ L(q) \o <<b[E(q)]>> \in Seq(X) /\ L(q) \o <<>> = L(q)
    OBVIOUS
  <2>1. L(q) \in Seq(X) /\ <<>> \in Seq(X) /\ <<b[E(q)]>> \in Seq(X)
    BY <1>2, <1>3
  <2> HIDE DEF L, X, D, E
  <2> QED BY <2>1, ConcatProperties, ConcatEmptySeq
<1> DEFINE e == [q \in D |-> E(q)]
           stop == {q \in D : ~Go(q)}
           x == [q \in D |-> IF b[E(q)] = End THEN L(q) \o <<>> ELSE L(q) \o <<b[E(q)]>>]
           pre == [q \in D |-> L(q)]
           g == [q \in D |-> b[E(q)][2]]
<1>5. \E f \in [D -> Seq(X)] :
         \A q \in D : f[q] = IF q \in stop THEN x[q] ELSE pre[q] \o f[g[q]]
  <2>1. e \in [D -> 0 .. Len(b)]
    BY <1>2
  <2>2. x \in [D -> Seq(X)] /\ pre \in [D -> Seq(X)]
    <3> HIDE DEF D, E, L, X
    <3> QED BY <1>3, <1>4
  <2>3. \A q \in D : q \notin stop => g[q] \in D /\ e[g[q]] < e[q]
    BY DEF LeadsBack
  <2>4. Len(b) \in Nat
    BY <1>1
  <2>5. Links(D, X, Len(b), e, stop, x, pre, g)
    <3> HIDE DEF D, E, L, X, Go, e, stop, x, pre, g
    <3> QED BY <2>1, <2>2, <2>3, <2>4 DEF Links
  <2> HIDE DEF D, E, L, X, Go, e, stop, x, pre, g, Out, R
  <2> QED BY <2>5, FollowExists
<1>6. PICK f \in [D -> Seq(X)] :
         \A q \in D : f[q] = IF q \in stop THEN x[q] ELSE pre[q] \o f[g[q]]
  BY <1>5
<1>7. \E h : R(h)
  <2>1. ASSUME NEW q \in D PROVE f[q] = Out(f, q)
    <3>1. f[q] = IF q \in stop THEN x[q] ELSE pre[q] \o f[g[q]]
      BY <1>6
    <3> HIDE DEF D, L, E
    <3>2. CASE b[E(q)] = End
      <4>1. f[q] = L(q) \o <<>>
        BY <3>1, <3>2
      <4> QED BY <3>2, <4>1
    <3>3. CASE b[E(q)] # End /\ LeadsBack(b, E(q))
      <4>1. f[q] = L(q) \o f[b[E(q)][2]]
        BY <3>1, <3>3
      <4> QED BY <3>3, <4>1
    <3>4. CASE b[E(q)] # End /\ ~LeadsBack(b, E(q))
      <4>1. f[q] = L(q) \o <<b[E(q)]>>
        BY <3>1, <3>4
      <4> QED BY <3>4, <4>1
    <3> QED BY <3>2, <3>3, <3>4
  <2> HIDE DEF Out, D
  <2>2. f = [q \in D |-> Out(f, q)]
    BY <1>6, <2>1
  <2> QED BY <2>2
<1> DEFINE a == CHOOSE h : R(h)
<1>8. R(a)
  <2> HIDE DEF R
  <2> QED BY <1>7
<1>9. ASSUME NEW q PROVE NameAt(b, q) = a[q]
  BY DEF NameAt, Labels
<1> HIDE DEF a
<1>10. \A q \in D : a[q] = Out(a, q)
  <2> HIDE DEF Out, D
  <2> QED BY <1>8
<1>11. NameAt(b, p) = Out(a, p)
  BY <1>9, <1>10
<1>12. CASE b[E(p)] = End
  <2>1. Out(a, p) = L(p) \o <<>>
    <3> HIDE DEF L, E
    <3> QED BY <1>12
  <2> QED BY <1>4, <1>11, <1>12, <2>1
<1>13. CASE b[E(p)] # End /\ LeadsBack(b, E(p))
  <2>1. Out(a, p) = L(p) \o a[b[E(p)][2]]
    <3> HIDE DEF L, E
    <3> QED BY <1>13
  <2> HIDE DEF Out
  <2> QED BY <1>9, <1>11, <1>13, <2>1
<1> QED BY <1>12, <1>13

\* Every pointer leads to a field that ends before it.
Legal(b) == \A i \in 1 .. Len(b) : b[i][1] = "ptr" => LeadsBack(b, i)

\* In a legal packet name_deserialize follows all pointers.
LEMMA DeserEq ==
  ASSUME NEW b \in Seq(Cell), Legal(b), NEW p \in Fields(b)
  PROVE  /\ b[FieldEnd(b, p)] = End =>
               name_deserialize(b, p) = SubSeq(b, p, FieldEnd(b, p) - 1) \o <<End>>
         /\ b[FieldEnd(b, p)] # End =>
               /\ LeadsBack(b, FieldEnd(b, p))
               /\ name_deserialize(b, p) = SubSeq(b, p, FieldEnd(b, p) - 1)
                                           \o name_deserialize(b, b[FieldEnd(b, p)][2])
<1> DEFINE D == Fields(b)
           E(q) == FieldEnd(b, q)
           L(q) == SubSeq(b, q, E(q) - 1)
           Out(f, q) == L(q) \o (IF b[E(q)] = End THEN <<End>> ELSE f[b[E(q)][2]])
           R(f) == f = [q \in D |-> Out(f, q)]
<1>1. Len(b) \in Nat /\ \A k \in 1 .. Len(b) : b[k] \in Cell
  BY LenProperties, ElementOfSeq
<1>2. \A q \in D : /\ q \in 1 .. Len(b) /\ E(q) \in q .. Len(b) /\ E(q) \in 0 .. Len(b)
                   /\ E(q) \in 1 .. Len(b) /\ b[E(q)] \in Cell /\ IsField(b, q, E(q))
  BY <1>1, FieldProps
<1>3. \A q \in D : b[E(q)] # End => LeadsBack(b, E(q))
  <2> SUFFICES ASSUME NEW q \in D, b[E(q)] # End PROVE LeadsBack(b, E(q))
    OBVIOUS
  <2>1. E(q) \in 1 .. Len(b) /\ b[E(q)] \in Cell /\ b[E(q)][1] \in {"end", "ptr"}
    BY <1>2 DEF IsField
  <2>2. b[E(q)][1] = "ptr"
    BY <2>1, CellKinds
  <2> QED BY <2>1, <2>2 DEF Legal
<1>4. \A q \in D : L(q) \in Seq(Cell)
  <2> SUFFICES ASSUME NEW q \in D PROVE L(q) \in Seq(Cell)
    OBVIOUS
  <2>1. q \in Int /\ E(q) - 1 \in Int /\ \A k \in q .. E(q) - 1 : b[k] \in Cell
    BY <1>1, <1>2
  <2> HIDE DEF E
  <2> QED BY <2>1, SubSeqProperties
<1>5. End \in Cell
  BY DEF Cell
<1>6. \A q \in D : L(q) \o <<End>> \in Seq(Cell)
  <2> SUFFICES ASSUME NEW q \in D PROVE L(q) \o <<End>> \in Seq(Cell)
    OBVIOUS
  <2>1. <<End>> \in Seq(Cell) /\ L(q) \in Seq(Cell)
    BY <1>4, <1>5
  <2> HIDE DEF L
  <2> QED BY <2>1, ConcatProperties
<1> DEFINE e == [q \in D |-> E(q)]
           stop == {q \in D : b[E(q)] = End}
           x == [q \in D |-> L(q) \o <<End>>]
           pre == [q \in D |-> L(q)]
           g == [q \in D |-> b[E(q)][2]]
<1>7. \E f \in [D -> Seq(Cell)] :
         \A q \in D : f[q] = IF q \in stop THEN x[q] ELSE pre[q] \o f[g[q]]
  <2>1. e \in [D -> 0 .. Len(b)]
    BY <1>2
  <2>2. x \in [D -> Seq(Cell)] /\ pre \in [D -> Seq(Cell)]
    <3> HIDE DEF D, E, L
    <3> QED BY <1>4, <1>6
  <2>3. \A q \in D : q \notin stop => g[q] \in D /\ e[g[q]] < e[q]
    BY <1>3 DEF LeadsBack
  <2>4. Len(b) \in Nat
    BY <1>1
  <2>5. Links(D, Cell, Len(b), e, stop, x, pre, g)
    <3> HIDE DEF D, E, L, e, stop, x, pre, g
    <3> QED BY <2>1, <2>2, <2>3, <2>4 DEF Links
  <2> HIDE DEF D, E, L, e, stop, x, pre, g, Out, R
  <2> QED BY <2>5, FollowExists
<1>8. PICK f \in [D -> Seq(Cell)] :
         \A q \in D : f[q] = IF q \in stop THEN x[q] ELSE pre[q] \o f[g[q]]
  BY <1>7
<1>9. \E h : R(h)
  <2>1. ASSUME NEW q \in D PROVE f[q] = Out(f, q)
    <3>1. f[q] = IF q \in stop THEN x[q] ELSE pre[q] \o f[g[q]]
      BY <1>8
    <3> HIDE DEF D, L, E
    <3>2. CASE b[E(q)] = End
      <4>1. f[q] = L(q) \o <<End>>
        BY <3>1, <3>2
      <4> QED BY <3>2, <4>1
    <3>3. CASE b[E(q)] # End
      <4>1. f[q] = L(q) \o f[b[E(q)][2]]
        BY <3>1, <3>3
      <4> QED BY <3>3, <4>1
    <3> QED BY <3>2, <3>3
  <2> HIDE DEF Out, D
  <2>2. f = [q \in D |-> Out(f, q)]
    BY <1>8, <2>1
  <2> QED BY <2>2
<1> DEFINE a == CHOOSE h : R(h)
<1>10. R(a)
  <2> HIDE DEF R
  <2> QED BY <1>9
<1>11. ASSUME NEW q PROVE name_deserialize(b, q) = a[q]
  BY DEF name_deserialize
<1> HIDE DEF a
<1>12. \A q \in D : a[q] = Out(a, q)
  <2> HIDE DEF Out, D
  <2> QED BY <1>10
<1>13. name_deserialize(b, p) = Out(a, p)
  BY <1>11, <1>12
<1>14. CASE b[E(p)] = End
  <2>1. Out(a, p) = L(p) \o <<End>>
    <3> HIDE DEF L, E
    <3> QED BY <1>14
  <2> QED BY <1>13, <1>14, <2>1
<1>15. CASE b[E(p)] # End
  <2>1. Out(a, p) = L(p) \o a[b[E(p)][2]]
    <3> HIDE DEF L, E
    <3> QED BY <1>15
  <2> HIDE DEF Out
  <2> QED BY <1>3, <1>11, <1>13, <1>15, <2>1
<1> QED BY <1>14, <1>15

\* Names in memory, and what they say.
CStrings == {s \in Seq(Cell) : /\ Len(s) > 0 /\ s[Len(s)] = End
                               /\ \A j \in 1 .. Len(s) - 1 : s[j][1] = "label"}
Text(s) == [j \in 1 .. Len(s) - 1 |-> s[j][2]]

\* The texts of a sequence of labels.
LabelTexts(u) == [j \in 1 .. Len(u) |-> u[j][2]]

\* What a C string says is a sequence of strings.
LEMMA TextType ==
  ASSUME NEW s \in CStrings
  PROVE  Text(s) \in Seq(STRING) /\ Len(Text(s)) = Len(s) - 1
         /\ \A j \in 1 .. Len(s) - 1 : Text(s)[j] = s[j][2]
<1>1. Len(s) \in Nat /\ Len(s) - 1 \in Nat /\ \A j \in 1 .. Len(s) : s[j] \in Cell
  BY LenProperties, ElementOfSeq DEF CStrings
<1>2. \A j \in 1 .. Len(s) - 1 : s[j] \in Cell /\ s[j][1] = "label"
  BY <1>1 DEF CStrings
<1>3. \A j \in 1 .. Len(s) - 1 : s[j][2] \in STRING
  BY <1>2, CellKinds
<1> QED BY <1>1, <1>3 DEF Text

\* Labels in front of a name.
LEMMA PrefixText ==
  ASSUME NEW u \in Seq(Cell), \A j \in 1 .. Len(u) : u[j][1] = "label", NEW r \in CStrings
  PROVE  /\ u \o r \in CStrings
         /\ Text(u \o r) = LabelTexts(u) \o Text(r)
<1> DEFINE s == u \o r
           v == LabelTexts(u)
<1>1. /\ Len(u) \in Nat /\ Len(r) \in Nat /\ Len(r) > 0 /\ r \in Seq(Cell)
      /\ \A j \in 1 .. Len(u) : u[j] \in Cell
  BY LenProperties, ElementOfSeq DEF CStrings
<1>2. /\ s \in Seq(Cell) /\ Len(s) = Len(u) + Len(r)
      /\ \A i \in 1 .. Len(u) + Len(r) : s[i] = IF i <= Len(u) THEN u[i] ELSE r[i - Len(u)]
  BY <1>1, ConcatProperties
<1> HIDE DEF s
<1>3. s \in CStrings
  <2>1. s[Len(s)] = End
    <3>1. Len(s) \in 1 .. Len(u) + Len(r) /\ ~(Len(s) <= Len(u)) /\ Len(s) - Len(u) = Len(r)
      BY <1>1, <1>2
    <3> QED BY <1>2, <3>1 DEF CStrings
  <2>2. ASSUME NEW j \in 1 .. Len(s) - 1 PROVE s[j][1] = "label"
    <3>1. CASE j <= Len(u)
      BY <1>1, <1>2, <3>1
    <3>2. CASE ~(j <= Len(u))
      <4>1. j - Len(u) \in 1 .. Len(r) - 1 /\ j \in 1 .. Len(u) + Len(r)
        BY <1>1, <1>2, <3>2
      <4> QED BY <1>2, <3>2, <4>1 DEF CStrings
    <3> QED BY <3>1, <3>2
  <2> QED BY <1>1, <1>2, <2>1, <2>2 DEF CStrings
<1>4. Text(s) \in Seq(STRING) /\ Len(Text(s)) = Len(s) - 1 /\ \A j \in 1 .. Len(s) - 1 : Text(s)[j] = s[j][2]
  BY <1>3, TextType
<1>5. Text(r) \in Seq(STRING) /\ Len(Text(r)) = Len(r) - 1 /\ \A j \in 1 .. Len(r) - 1 : Text(r)[j] = r[j][2]
  BY TextType
<1>6. v \in Seq(STRING) /\ Len(v) = Len(u) /\ \A j \in 1 .. Len(u) : v[j] = u[j][2]
  <2>1. \A j \in 1 .. Len(u) : u[j][2] \in STRING
    BY <1>1, CellKinds
  <2> QED BY <1>1, <2>1 DEF LabelTexts
<1> HIDE DEF v
<1>7. /\ v \o Text(r) \in Seq(STRING) /\ Len(v \o Text(r)) = Len(v) + Len(Text(r))
      /\ \A i \in 1 .. Len(v) + Len(Text(r)) :
            (v \o Text(r))[i] = IF i <= Len(v) THEN v[i] ELSE Text(r)[i - Len(v)]
  <2>1. v \in Seq(STRING) /\ Text(r) \in Seq(STRING)
    BY <1>5, <1>6
  <2> QED BY <2>1, ConcatProperties
<1>8. ASSUME NEW i \in 1 .. Len(s) - 1 PROVE Text(s)[i] = (v \o Text(r))[i]
  <2>1. i \in 1 .. Len(v) + Len(Text(r)) /\ i \in 1 .. Len(u) + Len(r)
    BY <1>1, <1>2, <1>5, <1>6
  <2>2. CASE i <= Len(u)
    <3>1. i \in 1 .. Len(u)
      BY <2>2, <1>1
    <3> QED BY <1>2, <1>4, <1>6, <1>7, <2>1, <2>2, <3>1
  <2>3. CASE ~(i <= Len(u))
    <3>1. i - Len(u) \in 1 .. Len(r) - 1
      BY <1>1, <1>2, <2>3
    <3>2. (v \o Text(r))[i] = r[i - Len(u)][2]
      BY <1>5, <1>6, <1>7, <2>1, <2>3, <3>1
    <3>3. Text(s)[i] = r[i - Len(u)][2]
      BY <1>2, <1>4, <2>1, <2>3
    <3> QED BY <3>2, <3>3
  <2> QED BY <2>2, <2>3
<1>9. Len(Text(s)) = Len(v \o Text(r))
  BY <1>1, <1>2, <1>4, <1>5, <1>6, <1>7
<1>10. Text(s) = v \o Text(r)
  BY <1>4, <1>7, <1>8, <1>9, SeqEqual
<1> QED BY <1>3, <1>10 DEF s, v

\* Part of a packet.
LEMMA SubCells ==
  ASSUME NEW X, NEW b \in Seq(X), NEW p \in 1 .. Len(b) + 1, NEW n \in p - 1 .. Len(b)
  PROVE  /\ SubSeq(b, p, n) \in Seq(X) /\ Len(SubSeq(b, p, n)) = n - p + 1
         /\ \A j \in 1 .. n - p + 1 : SubSeq(b, p, n)[j] = b[p + j - 1]
<1>1. Len(b) \in Nat /\ \A k \in 1 .. Len(b) : b[k] \in X
  BY LenProperties, ElementOfSeq
<1>2. p \in Int /\ n \in Int /\ \A k \in p .. n : b[k] \in X
  BY <1>1
<1>3. /\ SubSeq(b, p, n) \in Seq(X)
      /\ Len(SubSeq(b, p, n)) = IF p <= n THEN n - p + 1 ELSE 0
      /\ \A j \in 1 .. n - p + 1 : SubSeq(b, p, n)[j] = b[p + j - 1]
  BY <1>2, SubSeqProperties
<1> QED BY <1>1, <1>3

\* The labels of a field as cells.
FieldLabels(b, p) == SubSeq(b, p, FieldEnd(b, p) - 1)

\* They are labels.
LEMMA FieldCells ==
  ASSUME NEW b \in Seq(Cell), NEW p \in Fields(b)
  PROVE  /\ FieldLabels(b, p) \in Seq(Cell) /\ Len(FieldLabels(b, p)) = FieldEnd(b, p) - p
         /\ \A j \in 1 .. Len(FieldLabels(b, p)) : /\ FieldLabels(b, p)[j] = b[p + j - 1]
                                                  /\ FieldLabels(b, p)[j][1] = "label"
         /\ LabelTexts(FieldLabels(b, p)) = Labels(b, p, FieldEnd(b, p))
<1> DEFINE i == FieldEnd(b, p)
           u == FieldLabels(b, p)
<1>1. Len(b) \in Nat /\ \A k \in 1 .. Len(b) : b[k] \in Cell
  BY LenProperties, ElementOfSeq
<1>2. p \in 1 .. Len(b) /\ i \in p .. Len(b) /\ IsField(b, p, i)
  BY <1>1, FieldProps
<1> HIDE DEF i
<1>3. u = SubSeq(b, p, i - 1)
  BY DEF i, FieldLabels
<1> HIDE DEF u
<1> DEFINE n == i - 1
<1>4. /\ p \in 1 .. Len(b) + 1 /\ n \in p - 1 .. Len(b) /\ n - p + 1 = i - p
      /\ u = SubSeq(b, p, n)
  <2>1. p \in 1 .. Len(b) + 1 /\ n \in p - 1 .. Len(b) /\ n - p + 1 = i - p
    BY <1>1, <1>2
  <2> QED BY <1>3, <2>1
<1> HIDE DEF n
<1>5. /\ u \in Seq(Cell) /\ Len(u) = n - p + 1
      /\ \A j \in 1 .. n - p + 1 : u[j] = b[p + j - 1]
  BY <1>4, SubCells
<1>6. Len(u) = i - p /\ \A j \in 1 .. i - p : u[j] = b[p + j - 1]
  BY <1>4, <1>5
<1>7. ASSUME NEW j \in 1 .. i - p PROVE u[j][1] = "label"
  <2>1. p + j - 1 \in p .. i - 1
    BY <1>2
  <2> QED BY <1>2, <1>6, <2>1 DEF IsField
<1>8. LabelTexts(u) = Labels(b, p, i)
  BY <1>6 DEF Labels, LabelTexts
<1> QED BY <1>5, <1>6, <1>7, <1>8 DEF i, u

\* name_deserialize reads a name as RFC 1035 does.
LEMMA DeserText ==
  ASSUME NEW b \in Seq(Cell), Legal(b), NEW p \in Fields(b)
  PROVE  name_deserialize(b, p) \in CStrings /\ Text(name_deserialize(b, p)) = NameAt(b, p)
<1> DEFINE Ok(q) == name_deserialize(b, q) \in CStrings /\ Text(name_deserialize(b, q)) = NameAt(b, q)
           T == {m \in Nat : \E q \in Fields(b) : FieldEnd(b, q) = m /\ ~Ok(q)}
<1>1. Len(b) \in Nat /\ \A k \in 1 .. Len(b) : b[k] \in Cell
  BY LenProperties, ElementOfSeq
<1>2. \A q \in Fields(b) : FieldEnd(b, q) \in Nat
  BY <1>1, FieldProps
<1> SUFFICES ASSUME T # {} PROVE FALSE
  <2> HIDE DEF Ok
  <2>1. FieldEnd(b, p) \notin T
    OBVIOUS
  <2>2. Ok(p)
    BY <1>2, <2>1
  <2> QED BY <2>2 DEF Ok
<1>3. PICK m \in T : \A y \in T : m <= y
  <2>1. T \in SUBSET Nat
    OBVIOUS
  <2> HIDE DEF T
  <2> QED BY <2>1, LeastNatural
<1>4. PICK q \in Fields(b) : FieldEnd(b, q) = m /\ ~Ok(q)
  BY <1>3
<1> DEFINE u == SubSeq(b, q, m - 1)
<1>5. /\ u \in Seq(Cell) /\ \A j \in 1 .. Len(u) : u[j][1] = "label"
      /\ LabelTexts(u) = Labels(b, q, m)
  <2>1. u = FieldLabels(b, q)
    BY <1>4 DEF FieldLabels
  <2> HIDE DEF u
  <2> QED BY <1>4, <2>1, FieldCells
<1>6. CASE b[m] = End
  <2>1. name_deserialize(b, q) = u \o <<End>> /\ NameAt(b, q) = Labels(b, q, m)
    BY <1>4, <1>6, DeserEq, NameAtEq
  <2>2. <<End>> \in CStrings /\ Text(<<End>>) = <<>>
    <3>1. End \in Cell
      BY DEF Cell
    <3>2. <<End>> \in Seq(Cell) /\ Len(<<End>>) = 1 /\ <<End>>[1] = End
      BY <3>1
    <3> QED BY <3>2 DEF CStrings, Text
  <2> HIDE DEF u
  <2>3. u \o <<End>> \in CStrings /\ Text(u \o <<End>>) = Labels(b, q, m) \o <<>>
    BY <1>5, <2>2, PrefixText
  <2>4. Labels(b, q, m) \o <<>> = Labels(b, q, m)
    BY <1>4, LabelsType, ConcatEmptySeq
  <2> QED BY <1>4, <2>1, <2>3, <2>4
<1>7. CASE b[m] # End
  <2> DEFINE r == b[m][2]
  <2>1. /\ LeadsBack(b, m) /\ name_deserialize(b, q) = u \o name_deserialize(b, r)
        /\ NameAt(b, q) = Labels(b, q, m) \o NameAt(b, r)
    BY <1>4, <1>7, DeserEq, NameAtEq
  <2>2. r \in Fields(b) /\ FieldEnd(b, r) < m
    BY <2>1 DEF LeadsBack
  <2>3. Ok(r)
    <3> HIDE DEF Ok, r
    <3>1. FieldEnd(b, r) \in Nat
      BY <1>2, <2>2
    <3>2. FieldEnd(b, r) \notin T
      <4>1. m \in Nat
        BY <1>3
      <4> HIDE DEF T
      <4> QED BY <1>3, <2>2, <3>1, <4>1
    <3> QED BY <2>2, <3>1, <3>2
  <2> HIDE DEF u, r
  <2>4. /\ u \o name_deserialize(b, r) \in CStrings
        /\ Text(u \o name_deserialize(b, r)) = Labels(b, q, m) \o Text(name_deserialize(b, r))
    BY <1>5, <2>3, PrefixText
  <2> QED BY <1>4, <2>1, <2>3, <2>4
<1> QED BY <1>6, <1>7

-----------------------------------------------------------------------------
(* Packets grow at their end.                                              *)

\* The cells of a concatenation.
LEMMA Cat ==
  ASSUME NEW X, NEW s \in Seq(X), NEW t \in Seq(X)
  PROVE  /\ s \o t \in Seq(X) /\ Len(s) \in Nat /\ Len(t) \in Nat
         /\ Len(s \o t) = Len(s) + Len(t)
         /\ \A k \in 1 .. Len(s) : (s \o t)[k] = s[k]
         /\ \A k \in 1 .. Len(t) : (s \o t)[Len(s) + k] = t[k]
         /\ \A k \in Len(s) + 1 .. Len(s) + Len(t) : (s \o t)[k] = t[k - Len(s)]
<1>1. Len(s) \in Nat /\ Len(t) \in Nat
  BY LenProperties
<1>2. /\ s \o t \in Seq(X) /\ Len(s \o t) = Len(s) + Len(t)
      /\ \A i \in 1 .. Len(s) + Len(t) : (s \o t)[i] = IF i <= Len(s) THEN s[i] ELSE t[i - Len(s)]
  BY ConcatProperties
<1>3. ASSUME NEW k \in 1 .. Len(s) PROVE (s \o t)[k] = s[k]
  BY <1>1, <1>2
<1>4. ASSUME NEW k \in 1 .. Len(t) PROVE (s \o t)[Len(s) + k] = t[k]
  <2>1. Len(s) + k \in 1 .. Len(s) + Len(t) /\ ~(Len(s) + k <= Len(s)) /\ Len(s) + k - Len(s) = k
    BY <1>1
  <2> QED BY <1>2, <2>1
<1>5. ASSUME NEW k \in Len(s) + 1 .. Len(s) + Len(t) PROVE (s \o t)[k] = t[k - Len(s)]
  <2>1. k \in 1 .. Len(s) + Len(t) /\ ~(k <= Len(s))
    BY <1>1
  <2> QED BY <1>2, <2>1
<1> QED BY <1>1, <1>2, <1>3, <1>4, <1>5

\* One cell as a packet.
LEMMA One ==
  ASSUME NEW X, NEW c \in X
  PROVE  <<c>> \in Seq(X) /\ Len(<<c>>) = 1 /\ <<c>>[1] = c
OBVIOUS

\* A pointer that leads back still does when the packet grows.
LEMMA LeadsExtends ==
  ASSUME NEW b, NEW d, Len(b) \in Nat, Len(d) \in Nat, Begins(b, d),
         NEW i \in 1 .. Len(b), LeadsBack(b, i)
  PROVE  LeadsBack(d, i)
<1>1. d[i] = b[i]
  BY DEF Begins
<1>2. b[i][2] \in Fields(d) /\ FieldEnd(d, b[i][2]) = FieldEnd(b, b[i][2])
  BY FieldExtends DEF LeadsBack
<1> QED BY <1>1, <1>2 DEF LeadsBack

\* The pointers of c lead to fields of b.
Into(b, c) == \A k \in 1 .. Len(c) : c[k][1] = "ptr" => c[k][2] \in Fields(b)

\* A legal packet stays legal when pointers into it are written behind it.
LEMMA AppendLegal ==
  ASSUME NEW b \in Seq(Cell), NEW c \in Seq(Cell), Legal(b), Into(b, c)
  PROVE  Legal(b \o c) /\ Begins(b, b \o c) /\ b \o c \in Seq(Cell)
<1> DEFINE d == b \o c
<1>1. /\ d \in Seq(Cell) /\ Len(b) \in Nat /\ Len(c) \in Nat /\ Len(d) = Len(b) + Len(c)
      /\ \A k \in 1 .. Len(b) : d[k] = b[k]
      /\ \A k \in Len(b) + 1 .. Len(b) + Len(c) : d[k] = c[k - Len(b)]
  BY Cat
<1> HIDE DEF d
<1>2. Begins(b, d) /\ Len(d) \in Nat
  BY <1>1 DEF Begins
<1>3. ASSUME NEW i \in 1 .. Len(d), d[i][1] = "ptr" PROVE LeadsBack(d, i)
  <2>1. CASE i <= Len(b)
    <3>1. i \in 1 .. Len(b) /\ b[i][1] = "ptr"
      BY <1>1, <1>3, <2>1
    <3>2. LeadsBack(b, i)
      BY <3>1 DEF Legal
    <3> QED BY <1>1, <1>2, <3>1, <3>2, LeadsExtends
  <2>2. CASE ~(i <= Len(b))
    <3>1. i - Len(b) \in 1 .. Len(c) /\ d[i] = c[i - Len(b)]
      BY <1>1, <2>2
    <3>2. d[i][2] \in Fields(b)
      BY <1>3, <3>1 DEF Into
    <3>3. d[i][2] \in Fields(d) /\ FieldEnd(d, d[i][2]) = FieldEnd(b, d[i][2])
      BY <1>1, <1>2, <3>2, FieldExtends
    <3>4. FieldEnd(b, d[i][2]) \in d[i][2] .. Len(b)
      BY <1>1, <3>2, FieldProps
    <3>5. d[i][2] \in 1 .. Len(b)
      BY <1>1, <3>2, FieldProps
    <3>6. FieldEnd(b, d[i][2]) < i
      BY <1>1, <2>2, <3>4, <3>5
    <3> QED BY <3>3, <3>6 DEF LeadsBack
  <2> QED BY <2>1, <2>2
<1>4. Legal(d)
  BY <1>3 DEF Legal
<1> QED BY <1>1, <1>2, <1>4 DEF d

\* Labels, then an end or a pointer.
NameField(e) ==
    /\ e \in Seq(Cell) /\ Len(e) > 0
    /\ e[Len(e)][1] \in {"end", "ptr"} /\ \A j \in 1 .. Len(e) - 1 : e[j][1] = "label"

\* e is a name field that may be written behind b.
Enc(b, e) == NameField(e) /\ Into(b, e)

\* A C string is one.
LEMMA CStringEnc ==
  ASSUME NEW b, NEW s \in CStrings
  PROVE  Enc(b, s)
<1>1. Len(s) \in Nat /\ s \in Seq(Cell)
  BY LenProperties DEF CStrings
<1>2. End[1] = "end"
  BY DEF End
<1>3. \A k \in 1 .. Len(s) : s[k][1] # "ptr"
  <2>1. \A k \in 1 .. Len(s) : k = Len(s) \/ k \in 1 .. Len(s) - 1
    BY <1>1
  <2>2. "end" # "ptr" /\ "label" # "ptr"
    OBVIOUS
  <2> QED BY <1>2, <2>1, <2>2 DEF CStrings
<1> QED BY <1>1, <1>2, <1>3 DEF Enc, NameField, Into, CStrings

-----------------------------------------------------------------------------
(* Records.                                                                *)

\* b and behind it a record with name e, type t and rdata d.
With(b, e, t, d) == b \o e \o <<<<"rr", t, Len(d)>>>> \o d

\* c is b with the name e, type t and rdata d behind it.
Behind(c, b, e, t, d) ==
    /\ c \in Seq(Cell) /\ Begins(b, c) /\ Len(b) \in Nat /\ Len(e) \in Nat /\ Len(d) \in Nat
    /\ Len(c) = Len(b) + Len(e) + 1 + Len(d)
    /\ Len(b) + 1 \in Fields(c) /\ FieldEnd(c, Len(b) + 1) = Len(b) + Len(e)
    /\ \A k \in 1 .. Len(e) : c[Len(b) + k] = e[k]
    /\ c[Len(b) + Len(e) + 1] = <<"rr", t, Len(d)>>
    /\ \A k \in 1 .. Len(d) : c[Len(b) + Len(e) + 1 + k] = d[k]

\* A record put behind b is.
LEMMA BehindIs ==
  ASSUME NEW b \in Seq(Cell), NEW e, NameField(e), NEW t \in RTypes, NEW d \in Seq(Cell)
  PROVE  Behind(With(b, e, t, d), b, e, t, d)
<1> DEFINE h == <<"rr", t, Len(d)>>
           b1 == b \o e
           b2 == b1 \o <<h>>
           w == b2 \o d
<1>1. e \in Seq(Cell) /\ Len(e) > 0
  BY DEF NameField
<1>2. /\ b1 \in Seq(Cell) /\ Len(b) \in Nat /\ Len(e) \in Nat /\ Len(b1) = Len(b) + Len(e)
      /\ \A k \in 1 .. Len(b) : b1[k] = b[k]
      /\ \A k \in 1 .. Len(e) : b1[Len(b) + k] = e[k]
  BY <1>1, Cat
<1>3. h \in Cell
  <2>1. Len(d) \in Nat
    BY LenProperties
  <2> QED BY <2>1 DEF Cell
<1>4. <<h>> \in Seq(Cell) /\ Len(<<h>>) = 1 /\ <<h>>[1] = h
  <2> HIDE DEF h
  <2> QED BY <1>3, One
<1>5. /\ b2 \in Seq(Cell) /\ Len(b2) = Len(b1) + 1
      /\ \A k \in 1 .. Len(b1) : b2[k] = b1[k]
      /\ b2[Len(b1) + 1] = h
  <2>1. b1 \in Seq(Cell) /\ <<h>> \in Seq(Cell)
    BY <1>2, <1>4
  <2> HIDE DEF b1, h
  <2>2. /\ b2 \in Seq(Cell) /\ Len(b2) = Len(b1) + Len(<<h>>)
        /\ \A k \in 1 .. Len(b1) : b2[k] = b1[k]
        /\ \A k \in 1 .. Len(<<h>>) : b2[Len(b1) + k] = <<h>>[k]
    BY <2>1, Cat
  <2> HIDE DEF b2
  <2> QED BY <1>4, <2>2
<1>6. /\ w \in Seq(Cell) /\ Len(d) \in Nat /\ Len(w) = Len(b2) + Len(d)
      /\ \A k \in 1 .. Len(b2) : w[k] = b2[k]
      /\ \A k \in 1 .. Len(d) : w[Len(b2) + k] = d[k]
  <2>1. b2 \in Seq(Cell)
    BY <1>5
  <2> HIDE DEF b2
  <2> QED BY <2>1, Cat
<1>7. With(b, e, t, d) = w
  BY DEF With
<1> HIDE DEF h, b1, b2, w
<1>8. Len(w) = Len(b) + Len(e) + 1 + Len(d) /\ Len(b2) = Len(b) + Len(e) + 1
  BY <1>2, <1>5, <1>6
<1>9. \A k \in 1 .. Len(b1) : w[k] = b1[k]
  BY <1>2, <1>5, <1>6
<1>10. w[Len(b) + Len(e) + 1] = h
  BY <1>2, <1>5, <1>6
<1>11. \A j \in 1 .. Len(e) : w[Len(b) + j] = e[j]
  <2>1. \A j \in 1 .. Len(e) : Len(b) + j \in 1 .. Len(b1)
    BY <1>2
  <2> QED BY <1>2, <1>9, <2>1
<1>12. \A k \in 1 .. Len(b) : w[k] = b[k]
  BY <1>2, <1>9
<1>13. Begins(b, w)
  BY <1>2, <1>6, <1>8, <1>12 DEF Begins
<1>14. Len(b) + 1 \in Fields(w) /\ FieldEnd(w, Len(b) + 1) = Len(b) + Len(e)
  <2> DEFINE p == Len(b) + 1
             i == Len(b) + Len(e)
  <2>1. p \in 1 .. Len(w) /\ i \in p .. Len(w) /\ Len(w) \in Nat
    BY <1>1, <1>2, <1>6, <1>8
  <2>2. w[i][1] \in {"end", "ptr"}
    BY <1>1, <1>2, <1>11 DEF NameField
  <2>3. ASSUME NEW k \in p .. i - 1 PROVE w[k][1] = "label"
    <3>1. k - Len(b) \in 1 .. Len(e) - 1 /\ k - Len(b) \in 1 .. Len(e) /\ Len(b) + (k - Len(b)) = k
      BY <1>2
    <3>2. w[Len(b) + (k - Len(b))] = e[k - Len(b)]
      BY <1>11, <3>1
    <3> QED BY <3>1, <3>2 DEF NameField
  <2> HIDE DEF p, i
  <2>4. IsField(w, p, i)
    BY <2>2, <2>3 DEF IsField
  <2>5. p \in Fields(w) /\ FieldEnd(w, p) = i
    BY <2>1, <2>4, FieldIs
  <2> QED BY <2>5 DEF p, i
<1>15. \A j \in 1 .. Len(d) : w[Len(b) + Len(e) + 1 + j] = d[j]
  BY <1>6, <1>8
<1>16. Behind(w, b, e, t, d)
  BY <1>2, <1>6, <1>8, <1>10, <1>11, <1>13, <1>14, <1>15 DEF h, Behind
<1> QED BY <1>7, <1>16

\* The name that begins the rdata.
LEMMA AppendRdata ==
  ASSUME NEW b \in Seq(Cell), NEW e, NameField(e), NEW t \in RTypes, NEW d \in Seq(Cell),
         NEW m \in 1 .. Len(d), d[m][1] \in {"end", "ptr"}, \A j \in 1 .. m - 1 : d[j][1] = "label"
  PROVE  /\ Len(b) + Len(e) + 2 \in Fields(With(b, e, t, d))
         /\ FieldEnd(With(b, e, t, d), Len(b) + Len(e) + 2) = Len(b) + Len(e) + 1 + m
<1> DEFINE w == With(b, e, t, d)
           n == Len(b) + Len(e) + 1
           p == Len(b) + Len(e) + 2
           i == Len(b) + Len(e) + 1 + m
<1>1. /\ w \in Seq(Cell) /\ Len(b) \in Nat /\ Len(e) \in Nat /\ Len(d) \in Nat
      /\ Len(w) = n + Len(d) /\ \A j \in 1 .. Len(d) : w[n + j] = d[j]
  <2>1. Behind(w, b, e, t, d)
    BY BehindIs
  <2> HIDE DEF w
  <2> QED BY <2>1 DEF Behind
<1> HIDE DEF w
<1>2. n \in Nat /\ p = n + 1 /\ i = n + m /\ Len(w) \in Nat
  BY <1>1
<1> HIDE DEF n, p, i
<1>3. p \in 1 .. Len(w) /\ i \in p .. Len(w)
  BY <1>1, <1>2
<1>4. w[i][1] \in {"end", "ptr"}
  BY <1>1, <1>2
<1>5. ASSUME NEW k \in p .. i - 1 PROVE w[k][1] = "label"
  <2>1. k - n \in 1 .. m - 1 /\ k - n \in 1 .. Len(d) /\ n + (k - n) = k
    BY <1>1, <1>2
  <2>2. w[n + (k - n)] = d[k - n]
    BY <1>1, <2>1
  <2> QED BY <2>1, <2>2
<1>6. IsField(w, p, i)
  BY <1>4, <1>5 DEF IsField
<1>7. p \in Fields(w) /\ FieldEnd(w, p) = i
  BY <1>2, <1>3, <1>6, FieldIs
<1> QED BY <1>7 DEF w, n, p, i

-----------------------------------------------------------------------------
(* What the upstream may write.                                            *)

\* A name in memory is a C string.
LEMMA CStringIs ==
  ASSUME NEW n \in Seq(STRING)
  PROVE  CString(n) \in CStrings /\ Len(CString(n)) = Len(n) + 1
<1> DEFINE u == [i \in 1 .. Len(n) |-> <<"label", n[i]>>]
<1>1. Len(n) \in Nat /\ \A i \in 1 .. Len(n) : n[i] \in STRING
  BY LenProperties, ElementOfSeq
<1>2. \A i \in 1 .. Len(n) : <<"label", n[i]>> \in Cell
  <2>1. \A l \in STRING : <<"label", l>> \in Cell
    BY DEF Cell
  <2> QED BY <1>1, <2>1
<1>3. u \in Seq(Cell) /\ Len(u) = Len(n) /\ \A i \in 1 .. Len(u) : u[i][1] = "label"
  BY <1>1, <1>2
<1>4. <<End>> \in CStrings /\ Len(<<End>>) = 1
  <2>1. End \in Cell
    BY DEF Cell
  <2>2. <<End>> \in Seq(Cell) /\ Len(<<End>>) = 1 /\ <<End>>[1] = End
    BY <2>1, One
  <2> QED BY <2>2 DEF CStrings
<1> HIDE DEF u
<1>5. u \o <<End>> \in CStrings
  BY <1>3, <1>4, PrefixText
<1>6. Len(u \o <<End>>) = Len(n) + 1
  <2>1. u \in Seq(Cell) /\ <<End>> \in Seq(Cell)
    BY <1>3, <1>4 DEF CStrings
  <2>2. Len(u \o <<End>>) = Len(u) + Len(<<End>>)
    BY <2>1, Cat
  <2> QED BY <1>3, <1>4, <2>2
<1> QED BY <1>5, <1>6 DEF CString, u

\* Every encoding of a name is a name field whose pointer leads into what
\* stands before it.
LEMMA EncodingsEnc ==
  ASSUME NEW b \in Seq(Cell), NEW n \in Seq(STRING), NEW e \in Encodings(b, n)
  PROVE  Enc(b, e)
<1> DEFINE s == CString(n)
<1>1. s \in CStrings /\ Len(s) = Len(n) + 1 /\ Len(n) \in Nat /\ s \in Seq(Cell)
  BY CStringIs, LenProperties DEF CStrings
<1>2. CASE e = s
  <2> HIDE DEF s
  <2> QED BY <1>1, <1>2, CStringEnc
<1>3. ASSUME NEW i \in 0 .. Len(n) - 1, NEW p \in Fields(b), e = SubSeq(s, 1, i) \o <<Pointer(p)>>
      PROVE  Enc(b, e)
  <2> DEFINE u == SubSeq(s, 1, i)
             c == Pointer(p)
  <2>1. /\ u \in Seq(Cell) /\ Len(u) = i /\ \A j \in 1 .. i : u[j] = s[j]
    <3> HIDE DEF s
    <3>1. 1 \in 1 .. Len(s) + 1 /\ i \in 1 - 1 .. Len(s)
      BY <1>1
    <3>2. /\ SubSeq(s, 1, i) \in Seq(Cell) /\ Len(SubSeq(s, 1, i)) = i - 1 + 1
          /\ \A j \in 1 .. i - 1 + 1 : SubSeq(s, 1, i)[j] = s[1 + j - 1]
      BY <1>1, <3>1, SubCells
    <3> HIDE DEF u
    <3>3. i - 1 + 1 = i /\ \A j \in 1 .. i : 1 + j - 1 = j
      OBVIOUS
    <3> QED BY <3>2, <3>3 DEF u
  <2>2. \A j \in 1 .. i : u[j][1] = "label"
    <3>1. \A j \in 1 .. i : j \in 1 .. Len(s) - 1
      BY <1>1
    <3> QED BY <1>1, <2>1, <3>1 DEF CStrings
  <2>3. p \in Nat /\ c \in Cell /\ c[1] = "ptr" /\ c[2] = p
    <3>1. Len(b) \in Nat
      BY LenProperties
    <3>2. p \in Nat
      BY <3>1, FieldProps
    <3> QED BY <3>2 DEF Pointer, Cell
  <2> HIDE DEF u, c
  <2>4. <<c>> \in Seq(Cell) /\ Len(<<c>>) = 1 /\ <<c>>[1] = c
    BY <2>3, One
  <2>5. /\ u \o <<c>> \in Seq(Cell) /\ Len(u \o <<c>>) = Len(u) + Len(<<c>>)
        /\ \A k \in 1 .. Len(u) : (u \o <<c>>)[k] = u[k]
        /\ \A k \in 1 .. Len(<<c>>) : (u \o <<c>>)[Len(u) + k] = <<c>>[k]
    BY <2>1, <2>4, Cat
  <2>6. e = u \o <<c>>
    BY <1>3 DEF u, c
  <2>7. /\ e \in Seq(Cell) /\ Len(e) = i + 1 /\ \A j \in 1 .. i : e[j] = u[j]
        /\ e[i + 1] = c
    BY <2>1, <2>4, <2>5, <2>6
  <2>8. NameField(e)
    BY <2>2, <2>3, <2>7 DEF NameField
  <2>9. Into(b, e)
    <3>1. \A k \in 1 .. i + 1 : k \in 1 .. i \/ k = i + 1
      OBVIOUS
    <3> QED BY <2>2, <2>3, <2>7, <3>1 DEF Into
  <2> QED BY <2>8, <2>9 DEF Enc
<1>4. CASE e # s
  <2>1. PICK i \in 0 .. Len(n) - 1 :
           e \in {SubSeq(s, 1, i) \o <<Pointer(p)>> : p \in Readable(b, SubSeq(n, i + 1, Len(n)))}
    BY <1>4 DEF Encodings
  <2>2. PICK p \in Readable(b, SubSeq(n, i + 1, Len(n))) : e = SubSeq(s, 1, i) \o <<Pointer(p)>>
    BY <2>1
  <2>3. p \in Fields(b)
    BY <2>2 DEF Readable
  <2> QED BY <1>3, <2>2, <2>3
<1> QED BY <1>2, <1>4

\* rdata d with the shape that its type asks for.
Shape(t, d) ==
    /\ d \in Seq(Cell)
    /\ t = "A" => Len(d) = 1 /\ d[1][1] = "data"
    /\ t = "TXT" => Len(d) = 1 /\ d[1][1] = "label"
    /\ t \in {"CNAME", "NS"} => NameField(d)
    /\ t = "SOA" => /\ Len(d) > 1 /\ d[Len(d)][1] = "data" /\ d[Len(d) - 1][1] \in {"end", "ptr"}
                    /\ \A j \in 1 .. Len(d) - 2 : d[j][1] = "label"

\* rdata of type t that may be written behind b.
DataOK(b, t, d) == Shape(t, d) /\ Into(b, d)

\* The upstream writes no other.
LEMMA RdataOfOK ==
  ASSUME NEW b \in Seq(Cell), NEW t \in RTypes, NEW d \in RdataOf(b, t)
  PROVE  DataOK(b, t, d)
<1>1. t \in {"A", "TXT", "CNAME", "NS", "SOA", "MX"}
  BY WireAssumption
<1>2. ASSUME NEW k \in Nat
      PROVE  /\ <<"data", k>> \in Cell /\ <<<<"data", k>>>> \in Seq(Cell)
             /\ Len(<<<<"data", k>>>>) = 1 /\ <<<<"data", k>>>>[1][1] = "data"
  BY DEF Cell
<1>3. \A e \in UNION {Encodings(b, n) : n \in Targets} : Enc(b, e)
  <2> SUFFICES ASSUME NEW n \in Targets, NEW e \in Encodings(b, n) PROVE Enc(b, e)
    OBVIOUS
  <2>1. n \in Seq(STRING)
    BY WireAssumption
  <2> QED BY <2>1, EncodingsEnc
<1>4. CASE t = "A"
  <2>1. d = <<<<"data", 4>>>>
    BY <1>4 DEF RdataOf
  <2>2. d \in Seq(Cell) /\ Len(d) = 1 /\ d[1][1] = "data"
    BY <1>2, <2>1
  <2>3. Into(b, d)
    BY <2>2 DEF Into
  <2> QED BY <1>4, <2>2, <2>3 DEF DataOK, Shape
<1>5. CASE t = "TXT"
  <2>1. PICK x \in Texts : d = <<<<"label", x>>>>
    BY <1>5 DEF RdataOf
  <2>2. x \in STRING
    BY WireAssumption
  <2>3. <<"label", x>> \in Cell
    BY <2>2 DEF Cell
  <2>4. d \in Seq(Cell) /\ Len(d) = 1 /\ d[1][1] = "label"
    BY <2>1, <2>3
  <2>5. Into(b, d)
    BY <2>4 DEF Into
  <2> QED BY <1>5, <2>4, <2>5 DEF DataOK, Shape
<1>6. CASE t \in {"CNAME", "NS"}
  <2>1. d \in UNION {Encodings(b, n) : n \in Targets}
    BY <1>6 DEF RdataOf
  <2>2. Enc(b, d)
    BY <1>3, <2>1
  <2> QED BY <1>6, <2>2 DEF DataOK, Shape, Enc, NameField
<1>7. CASE t = "SOA"
  <2>1. PICK e \in UNION {Encodings(b, n) : n \in Targets} : d = e \o <<<<"data", 20>>>>
    BY <1>7 DEF RdataOf
  <2>2. Enc(b, e) /\ e \in Seq(Cell) /\ Len(e) \in Nat /\ Len(e) > 0
    BY <1>3, <2>1, LenProperties DEF Enc, NameField
  <2> DEFINE f == <<<<"data", 20>>>>
  <2>3. f \in Seq(Cell) /\ Len(f) = 1 /\ f[1][1] = "data"
    BY <1>2
  <2>4. d = e \o f
    BY <2>1
  <2> HIDE DEF f
  <2>5. /\ d \in Seq(Cell) /\ Len(d) = Len(e) + Len(f)
        /\ \A k \in 1 .. Len(e) : d[k] = e[k]
        /\ \A k \in 1 .. Len(f) : d[Len(e) + k] = f[k]
    <3>1. e \in Seq(Cell) /\ f \in Seq(Cell)
      BY <2>2, <2>3
    <3> QED BY <2>4, <3>1, Cat
  <2>6. Len(d) = Len(e) + 1 /\ d[Len(d)] = f[1] /\ d[Len(d) - 1] = e[Len(e)]
    BY <2>2, <2>3, <2>5
  <2>7. \A j \in 1 .. Len(d) - 2 : d[j][1] = "label"
    <3>1. \A j \in 1 .. Len(d) - 2 : j \in 1 .. Len(e) - 1 /\ j \in 1 .. Len(e)
      BY <2>2, <2>6
    <3> QED BY <2>2, <2>5, <3>1 DEF Enc, NameField
  <2>8. Into(b, d)
    <3>1. \A k \in 1 .. Len(d) : k \in 1 .. Len(e) \/ k = Len(d)
      BY <2>2, <2>6
    <3>2. "data" # "ptr"
      OBVIOUS
    <3> QED BY <2>2, <2>3, <2>5, <2>6, <3>1, <3>2 DEF Enc, Into
  <2>9. d[Len(d) - 1][1] \in {"end", "ptr"}
    BY <2>2, <2>6 DEF Enc, NameField
  <2> QED BY <1>7, <2>2, <2>3, <2>5, <2>6, <2>7, <2>8, <2>9 DEF DataOK, Shape
<1>8. CASE t = "MX"
  <2>1. PICK e \in UNION {Encodings(b, n) : n \in Targets} : d = <<<<"data", 2>>>> \o e
    BY <1>8 DEF RdataOf
  <2>2. Enc(b, e) /\ e \in Seq(Cell) /\ Len(e) \in Nat
    BY <1>3, <2>1, LenProperties DEF Enc, NameField
  <2> DEFINE f == <<<<"data", 2>>>>
  <2>3. f \in Seq(Cell) /\ Len(f) = 1 /\ f[1][1] = "data"
    BY <1>2
  <2>4. d = f \o e
    BY <2>1
  <2> HIDE DEF f
  <2>5. /\ d \in Seq(Cell) /\ Len(d) = Len(f) + Len(e)
        /\ \A k \in 1 .. Len(f) : d[k] = f[k]
        /\ \A k \in Len(f) + 1 .. Len(f) + Len(e) : d[k] = e[k - Len(f)]
    BY <2>2, <2>3, <2>4, Cat
  <2>6. Into(b, d)
    <3> SUFFICES ASSUME NEW k \in 1 .. Len(d), d[k][1] = "ptr" PROVE d[k][2] \in Fields(b)
      BY DEF Into
    <3>1. k # 1
      BY <2>3, <2>5
    <3>2. k - 1 \in 1 .. Len(e) /\ d[k] = e[k - 1]
      BY <2>2, <2>3, <2>5, <3>1
    <3> QED BY <2>2, <3>2 DEF Enc, Into
  <2> QED BY <1>8, <2>5, <2>6 DEF DataOK, Shape
<1> QED BY <1>1, <1>4, <1>5, <1>6, <1>7, <1>8

-----------------------------------------------------------------------------
(* The layout of an answer.                                                *)

\* n cells of rdata of type t at p.
Rdata(b, p, t, n) ==
    /\ t = "A" => n = 1 /\ b[p][1] = "data"
    /\ t = "TXT" => n = 1 /\ b[p][1] = "label"
    /\ t \in {"CNAME", "NS"} => p \in Fields(b) /\ FieldEnd(b, p) = p + n - 1
    /\ t = "SOA" => /\ p \in Fields(b) /\ FieldEnd(b, p) = p + n - 2
                    /\ n > 1 /\ b[p + n - 1][1] = "data"

\* A record from s to before next, with its type and length in cell h.
RecordAt(b, s, h, next) ==
    /\ s \in Fields(b) /\ h = FieldEnd(b, s) + 1 /\ h <= Len(b)
    /\ b[h] = <<"rr", b[h][2], b[h][3]>> /\ b[h][2] \in RTypes /\ b[h][3] \in Nat
    /\ next = h + 1 + b[h][3] /\ next <= Len(b) + 1
    /\ Rdata(b, h + 1, b[h][2], b[h][3])

IsRecord(b, s, next) == RecordAt(b, s, FieldEnd(b, s) + 1, next)

\* What comes behind a record does not matter to it.
LEMMA RecordExtends ==
  ASSUME NEW b, NEW d, Len(b) \in Nat, Len(d) \in Nat, Begins(b, d), NEW s, NEW next,
         IsRecord(b, s, next)
  PROVE  IsRecord(d, s, next)
<1> DEFINE h == FieldEnd(b, s) + 1
           p == h + 1
           t == b[h][2]
           n == b[h][3]
<1>1. /\ s \in Fields(b) /\ h <= Len(b) /\ b[h] = <<"rr", t, n>> /\ t \in RTypes /\ n \in Nat
      /\ next = h + 1 + n /\ next <= Len(b) + 1 /\ Rdata(b, p, t, n)
  BY DEF IsRecord, RecordAt
<1>2. s \in Fields(d) /\ FieldEnd(d, s) = FieldEnd(b, s)
  BY <1>1, FieldExtends
<1>3. h \in 1 .. Len(b)
  BY <1>1, FieldProps
<1>4. d[h] = b[h]
  BY <1>3 DEF Begins
<1> HIDE DEF h
<1>5. Rdata(d, p, t, n)
  <2>1. CASE t \in {"A", "TXT"}
    <3>1. n = 1
      BY <1>1, <2>1 DEF Rdata
    <3>2. p \in 1 .. Len(b)
      BY <1>1, <1>3, <3>1
    <3>3. d[p] = b[p]
      BY <3>2 DEF Begins
    <3> QED BY <1>1, <2>1, <3>3 DEF Rdata
  <2>2. CASE t \in {"CNAME", "NS"}
    <3>1. p \in Fields(d) /\ FieldEnd(d, p) = FieldEnd(b, p)
      BY <1>1, <2>2, FieldExtends DEF Rdata
    <3> QED BY <1>1, <2>2, <3>1 DEF Rdata
  <2>3. CASE t = "SOA"
    <3>1. p \in Fields(d) /\ FieldEnd(d, p) = FieldEnd(b, p)
      BY <1>1, <2>3, FieldExtends DEF Rdata
    <3>2. p + n - 1 \in 1 .. Len(b)
      BY <1>1, <1>3, <2>3 DEF Rdata
    <3>3. d[p + n - 1] = b[p + n - 1]
      BY <3>2 DEF Begins
    <3> QED BY <1>1, <2>3, <3>1, <3>3 DEF Rdata
  <2>4. CASE t \notin {"A", "TXT", "CNAME", "NS", "SOA"}
    BY <2>4 DEF Rdata
  <2> QED BY <2>1, <2>2, <2>3, <2>4
<1>6. h <= Len(d) /\ next <= Len(d) + 1
  BY <1>1, <1>3 DEF Begins
<1>7. RecordAt(d, s, h, next)
  BY <1>1, <1>2, <1>4, <1>5, <1>6 DEF RecordAt, h
<1> QED BY <1>2, <1>7 DEF IsRecord, h

\* A record written at the end is a record.
LEMMA NewRecord ==
  ASSUME NEW b \in Seq(Cell), NEW e, NameField(e), NEW t \in RTypes, NEW d, Shape(t, d)
  PROVE  IsRecord(With(b, e, t, d), Len(b) + 1, Len(With(b, e, t, d)) + 1)
<1> DEFINE w == With(b, e, t, d)
           s == Len(b) + 1
           h == Len(b) + Len(e) + 1
           n == Len(d)
<1>0. d \in Seq(Cell)
  BY DEF Shape
<1>1. /\ w \in Seq(Cell) /\ Len(b) \in Nat /\ Len(e) \in Nat /\ n \in Nat
      /\ Len(w) = Len(b) + Len(e) + 1 + n
      /\ s \in Fields(w) /\ FieldEnd(w, s) = Len(b) + Len(e)
      /\ w[h] = <<"rr", t, n>>
      /\ \A j \in 1 .. n : w[h + j] = d[j]
  <2>1. Behind(w, b, e, t, d)
    BY <1>0, BehindIs
  <2> HIDE DEF w
  <2> QED BY <2>1 DEF Behind
<1>2. ASSUME NEW m \in 1 .. n, d[m][1] \in {"end", "ptr"}, \A j \in 1 .. m - 1 : d[j][1] = "label"
      PROVE  h + 1 \in Fields(w) /\ FieldEnd(w, h + 1) = h + m
  <2>1. /\ Len(b) + Len(e) + 2 \in Fields(w)
        /\ FieldEnd(w, Len(b) + Len(e) + 2) = Len(b) + Len(e) + 1 + m
    BY <1>0, <1>2, AppendRdata
  <2>2. Len(b) + Len(e) + 2 = h + 1
    BY <1>1
  <2> HIDE DEF w
  <2> QED BY <2>1, <2>2
<1> HIDE DEF w
<1>3. h \in Nat /\ h <= Len(w) /\ Len(w) + 1 = h + 1 + n /\ h = FieldEnd(w, s) + 1
  BY <1>1
<1> HIDE DEF h, s
<1>4. Rdata(w, h + 1, t, n)
  <2>1. CASE t \in {"A", "TXT"}
    <3>1. n = 1 /\ 1 \in 1 .. n
      BY <2>1 DEF Shape
    <3>2. w[h + 1] = d[1]
      BY <1>1, <3>1
    <3> QED BY <2>1, <3>1, <3>2 DEF Rdata, Shape
  <2>2. CASE t \in {"CNAME", "NS"}
    <3>1. NameField(d)
      BY <2>2 DEF Shape
    <3>2. n \in 1 .. n /\ d[n][1] \in {"end", "ptr"} /\ \A j \in 1 .. n - 1 : d[j][1] = "label"
      <4>1. Len(d) \in Nat
        BY <1>1
      <4> QED BY <3>1, <4>1 DEF NameField
    <3>3. h + 1 \in Fields(w) /\ FieldEnd(w, h + 1) = h + n
      BY <1>2, <3>2
    <3> QED BY <1>1, <1>3, <2>2, <3>3 DEF Rdata
  <2>3. CASE t = "SOA"
    <3>1. /\ n > 1 /\ d[n][1] = "data" /\ d[n - 1][1] \in {"end", "ptr"}
          /\ \A j \in 1 .. n - 2 : d[j][1] = "label"
      BY <2>3 DEF Shape
    <3> DEFINE m == n - 1
    <3>2. m \in 1 .. n /\ d[m][1] \in {"end", "ptr"} /\ m - 1 = n - 2
      BY <1>1, <3>1
    <3> HIDE DEF m
    <3>3. \A j \in 1 .. m - 1 : d[j][1] = "label"
      BY <3>1, <3>2
    <3>4. h + 1 \in Fields(w) /\ FieldEnd(w, h + 1) = h + m
      BY <1>2, <3>2, <3>3
    <3>5. n \in 1 .. n
      BY <1>1, <3>1
    <3>6. w[h + n] = d[n]
      BY <1>1, <3>5
    <3>7. h + 1 + n - 1 = h + n /\ h + 1 + n - 2 = h + m
      BY <1>1, <1>3 DEF m
    <3> QED BY <2>3, <3>1, <3>4, <3>6, <3>7 DEF Rdata
  <2>4. CASE t \notin {"A", "TXT", "CNAME", "NS", "SOA"}
    BY <2>4 DEF Rdata
  <2> QED BY <2>1, <2>2, <2>3, <2>4
<1>5. w[h][2] = t /\ w[h][3] = n
  BY <1>1
<1>6. RecordAt(w, s, h, Len(w) + 1)
  BY <1>1, <1>3, <1>4, <1>5 DEF RecordAt
<1> QED BY <1>3, <1>6 DEF IsRecord, w, s

\* The records of b, which begin at S[1], ..., S[n], behind the question.
Laid(b, S, n) ==
    /\ b \in Seq(Cell) /\ n \in Nat
    /\ 1 \in Fields(b) /\ b[FieldEnd(b, 1)] = End /\ b[FieldEnd(b, 1) + 1] = <<"q", "A">>
    /\ S[1] = FieldEnd(b, 1) + 2 /\ S[1] <= Len(b) + 1
    /\ \A i \in 1 .. n : IsRecord(b, S[i], S[i + 1])
    /\ S[n + 1] = Len(b) + 1

\* The cursor comes to the records one after the other.
LEMMA RecordCellIs ==
  ASSUME NEW b, NEW n \in Nat, NEW S, \A i \in 1 .. n : S[i + 1] = NextRecord(b, S[i]),
         NEW k \in 1 .. n + 1
  PROVE  RecordCell(b, S[1], k) = S[k]
<1> DEFINE m == k - 1
           x == S[1]
           R(f) == f = [i \in 0 .. k - 1 |-> IF i = 0 THEN x ELSE NextRecord(b, f[i - 1])]
           f == [i \in 0 .. m |-> S[i + 1]]
<1>0. m \in Nat /\ m \in 0 .. m /\ m + 1 = k
  OBVIOUS
<1>1. R(f)
  <2>1. ASSUME NEW i \in 0 .. m PROVE f[i] = IF i = 0 THEN x ELSE NextRecord(b, f[i - 1])
    <3>1. CASE i = 0
      BY <3>1
    <3>2. CASE i # 0
      <4>1. i \in 1 .. n /\ i - 1 \in 0 .. m /\ (i - 1) + 1 = i
        BY <3>2
      <4>2. f[i] = S[i + 1] /\ f[i - 1] = S[i]
        BY <4>1
      <4> HIDE DEF f
      <4> QED BY <3>2, <4>1, <4>2
    <3> QED BY <3>1, <3>2
  <2> QED BY <2>1
<1> DEFINE a == CHOOSE g : R(g)
<1>2. R(a)
  <2> HIDE DEF R, f
  <2> QED BY <1>1
<1>3. RecordCell(b, S[1], k) = a[k - 1]
  BY DEF RecordCell, After
<1> HIDE DEF a, f
<1>4. a[0] = x /\ \A i \in 1 .. m : a[i] = NextRecord(b, a[i - 1])
  BY <1>2
<1> DEFINE T == [i \in 0 .. m |-> {S[i + 1]}]
<1>5. a[m] \in T[m]
  <2>1. a[0] \in T[0]
    BY <1>4
  <2>2. ASSUME NEW i \in 1 .. m, a[i - 1] \in T[i - 1] PROVE a[i] \in T[i]
    <3>1. i \in 1 .. n /\ i - 1 \in 0 .. m /\ (i - 1) + 1 = i /\ i \in 0 .. m
      OBVIOUS
    <3>2. a[i - 1] = S[i]
      BY <2>2, <3>1
    <3>3. a[i] = S[i + 1]
      BY <1>4, <3>1, <3>2
    <3> QED BY <3>1, <3>3
  <2> HIDE DEF T, m
  <2> QED BY <1>0, <2>1, <2>2, LoopEnds
<1>6. a[m] = S[k]
  BY <1>0, <1>5
<1> QED BY <1>3, <1>6

\* So in a packet that is laid out it comes to all of them.
LEMMA CellsOfRecords ==
  ASSUME NEW b, NEW S, NEW n, Laid(b, S, n), NEW i \in 1 .. n + 1
  PROVE  RecordCell(b, FieldEnd(b, 1) + 2, i) = S[i]
<1>1. n \in Nat /\ S[1] = FieldEnd(b, 1) + 2
  BY DEF Laid
<1>2. ASSUME NEW k \in 1 .. n PROVE S[k + 1] = NextRecord(b, S[k])
  <2>1. IsRecord(b, S[k], S[k + 1]) /\ b \in Seq(Cell) /\ Len(b) \in Nat
    BY LenProperties DEF Laid
  <2>2. S[k] \in Fields(b)
    BY <2>1 DEF IsRecord, RecordAt
  <2>3. FieldEnd(b, S[k]) \in Nat
    BY <2>1, <2>2, FieldProps
  <2> DEFINE E == FieldEnd(b, S[k])
  <2>4. S[k + 1] = E + 1 + 1 + b[E + 1][3] /\ b[E + 1][3] \in Nat
    BY <2>1 DEF IsRecord, RecordAt
  <2>5. NextRecord(b, S[k]) = E + 2 + b[E + 1][3]
    BY DEF NextRecord
  <2> HIDE DEF E
  <2>6. E \in Nat
    BY <2>3 DEF E
  <2> QED BY <2>4, <2>5, <2>6
<1>3. RecordCell(b, S[1], i) = S[i]
  BY <1>1, <1>2, RecordCellIs
<1> QED BY <1>1, <1>3

\* A record more.
LEMMA LaidStep ==
  ASSUME NEW b, NEW S, NEW n, Laid(b, S, n), NEW e, NameField(e), NEW t \in RTypes, NEW d, Shape(t, d)
  PROVE  \E S2 : Laid(With(b, e, t, d), S2, n + 1)
<1> DEFINE w == With(b, e, t, d)
           S2 == [i \in 1 .. n + 2 |-> IF i <= n + 1 THEN S[i] ELSE Len(w) + 1]
<1>1. b \in Seq(Cell) /\ Len(b) \in Nat /\ n \in Nat /\ d \in Seq(Cell)
  BY LenProperties DEF Laid, Shape
<1>2. w \in Seq(Cell) /\ Begins(b, w) /\ Len(w) \in Nat
  <2>1. Behind(w, b, e, t, d)
    BY <1>1, BehindIs
  <2> HIDE DEF w
  <2>2. w \in Seq(Cell) /\ Begins(b, w)
    BY <2>1 DEF Behind
  <2> QED BY <2>2, LenProperties
<1>3. IsRecord(w, Len(b) + 1, Len(w) + 1)
  BY <1>1, NewRecord
<1> HIDE DEF w
<1>4. 1 \in Fields(w) /\ FieldEnd(w, 1) = FieldEnd(b, 1)
  BY <1>1, <1>2, FieldExtends DEF Laid
<1>5. /\ FieldEnd(b, 1) \in 1 .. Len(b) /\ FieldEnd(b, 1) + 1 \in 1 .. Len(b)
  <2>1. FieldEnd(b, 1) \in 1 .. Len(b)
    BY <1>1, FieldProps DEF Laid
  <2>2. FieldEnd(b, 1) + 2 <= Len(b) + 1
    BY DEF Laid
  <2> QED BY <1>1, <2>1, <2>2
<1>6. w[FieldEnd(b, 1)] = End /\ w[FieldEnd(b, 1) + 1] = <<"q", "A">>
  BY <1>2, <1>5 DEF Laid, Begins
<1>7. S2[1] = S[1] /\ S2[1] <= Len(w) + 1 /\ S2[n + 2] = Len(w) + 1
  <2>1. 1 \in 1 .. n + 2 /\ 1 <= n + 1 /\ n + 2 \in 1 .. n + 2 /\ ~(n + 2 <= n + 1)
    BY <1>1
  <2>2. Len(b) <= Len(w) /\ S[1] <= Len(b) + 1 /\ S[1] \in Nat
    BY <1>1, <1>2, <1>5 DEF Laid, Begins
  <2>3. S2[1] = S[1] /\ S2[n + 2] = Len(w) + 1
    BY <2>1
  <2> HIDE DEF S2
  <2> QED BY <1>1, <1>2, <2>2, <2>3
<1>8. ASSUME NEW i \in 1 .. n + 1 PROVE IsRecord(w, S2[i], S2[i + 1])
  <2>1. CASE i \in 1 .. n
    <3>1. S2[i] = S[i] /\ S2[i + 1] = S[i + 1]
      BY <1>1, <2>1
    <3>2. IsRecord(b, S[i], S[i + 1])
      BY <2>1 DEF Laid
    <3>3. IsRecord(w, S[i], S[i + 1])
      BY <1>1, <1>2, <3>2, RecordExtends
    <3> HIDE DEF S2
    <3> QED BY <3>1, <3>3
  <2>2. CASE i = n + 1
    <3>1. S2[i] = S[n + 1] /\ S2[i + 1] = Len(w) + 1
      BY <1>1, <2>2
    <3>2. S[n + 1] = Len(b) + 1
      BY DEF Laid
    <3> HIDE DEF S2
    <3> QED BY <1>3, <3>1, <3>2
  <2> QED BY <1>1, <2>1, <2>2
<1>9. n + 1 \in Nat /\ (n + 1) + 1 = n + 2
  BY <1>1
<1> HIDE DEF S2
<1>10. S2[1] = FieldEnd(w, 1) + 2
  BY <1>4, <1>7 DEF Laid
<1>11. Laid(w, S2, n + 1)
  BY <1>2, <1>4, <1>6, <1>7, <1>8, <1>9, <1>10 DEF Laid
<1> QED BY <1>11 DEF w

\* The question alone.
LEMMA LaidQuestion ==
  ASSUME NEW n \in Seq(STRING)
  PROVE  LET b == CString(n) \o <<<<"q", "A">>>>
         IN Legal(b) /\ \E S : Laid(b, S, 0)
<1> DEFINE s == CString(n)
           c == <<"q", "A">>
           b == s \o <<c>>
<1>1. s \in CStrings /\ s \in Seq(Cell) /\ Len(s) \in Nat /\ Len(s) > 0
  <2>1. s \in CStrings
    BY CStringIs
  <2> HIDE DEF s
  <2> QED BY <2>1, LenProperties DEF CStrings
<1>2. c \in Cell /\ c[1] = "q"
  BY DEF Cell
<1> HIDE DEF s, c
<1>3. <<c>> \in Seq(Cell) /\ Len(<<c>>) = 1 /\ <<c>>[1] = c
  BY <1>2, One
<1>4. /\ b \in Seq(Cell) /\ Len(b) = Len(s) + Len(<<c>>)
      /\ \A k \in 1 .. Len(s) : b[k] = s[k]
      /\ \A k \in 1 .. Len(<<c>>) : b[Len(s) + k] = <<c>>[k]
  <2>1. s \in Seq(Cell) /\ <<c>> \in Seq(Cell)
    BY <1>1, <1>3
  <2> QED BY <2>1, Cat
<1> HIDE DEF b
<1>5. Len(b) = Len(s) + 1 /\ b[Len(s) + 1] = c /\ b[Len(s)] = End /\ Len(b) \in Nat
  BY <1>1, <1>3, <1>4 DEF CStrings
<1>6. ASSUME NEW k \in 1 .. Len(s) - 1 PROVE b[k][1] = "label"
  <2>1. k \in 1 .. Len(s)
    BY <1>1
  <2>2. s[k][1] = "label"
    BY <1>1 DEF CStrings
  <2> QED BY <1>4, <2>1, <2>2
<1>7. End[1] = "end"
  BY DEF End
<1>8. IsField(b, 1, Len(s))
  BY <1>5, <1>6, <1>7 DEF IsField
<1>9. 1 \in Fields(b) /\ FieldEnd(b, 1) = Len(s)
  <2>1. 1 \in 1 .. Len(b) /\ Len(s) \in 1 .. Len(b)
    BY <1>1, <1>5
  <2> QED BY <1>5, <1>8, <2>1, FieldIs
<1>10. Legal(b)
  <2>1. ASSUME NEW i \in 1 .. Len(b) PROVE b[i][1] # "ptr"
    <3>1. i \in 1 .. Len(s) - 1 \/ i = Len(s) \/ i = Len(s) + 1
      BY <1>1, <1>5
    <3>2. "label" # "ptr" /\ "end" # "ptr" /\ "q" # "ptr"
      OBVIOUS
    <3> QED BY <1>2, <1>5, <1>6, <1>7, <3>1, <3>2
  <2> QED BY <2>1 DEF Legal
<1> DEFINE S == [i \in {1} |-> Len(s) + 2]
<1>11. S[1] = FieldEnd(b, 1) + 2 /\ S[0 + 1] = Len(b) + 1 /\ S[1] <= Len(b) + 1
  BY <1>1, <1>5, <1>9
<1> HIDE DEF S
<1>12. Laid(b, S, 0)
  BY <1>4, <1>5, <1>9, <1>11 DEF Laid, c
<1> QED BY <1>10, <1>12 DEF b, s, c

\* The upstream's next record.
LEMMA LaidRecord ==
  ASSUME NEW b, NEW S, NEW m, Laid(b, S, m), Legal(b), NEW n \in Seq(STRING), NEW t \in RTypes,
         NEW e \in Encodings(b, n), NEW d \in RdataOf(b \o e, t)
  PROVE  Legal(With(b, e, t, d)) /\ \E S2 : Laid(With(b, e, t, d), S2, m + 1)
<1> DEFINE h == <<"rr", t, Len(d)>>
           b1 == b \o e
           b2 == b1 \o <<h>>
<1>1. b \in Seq(Cell) /\ Enc(b, e) /\ NameField(e) /\ e \in Seq(Cell)
  <2>1. b \in Seq(Cell)
    BY DEF Laid
  <2>2. Enc(b, e)
    BY <2>1, EncodingsEnc
  <2> QED BY <2>1, <2>2 DEF Enc, NameField
<1>2. Legal(b1) /\ b1 \in Seq(Cell)
  BY <1>1, AppendLegal DEF Enc
<1>3. DataOK(b1, t, d)
  BY <1>2, RdataOfOK
<1>4. Shape(t, d) /\ d \in Seq(Cell) /\ Len(d) \in Nat /\ Into(b1, d)
  BY <1>3, LenProperties DEF DataOK, Shape
<1>5. h \in Cell /\ h[1] = "rr"
  BY <1>4 DEF Cell
<1> HIDE DEF h, b1
<1>6. <<h>> \in Seq(Cell) /\ Len(<<h>>) = 1 /\ <<h>>[1] = h
  BY <1>5, One
<1>7. Into(b1, <<h>>)
  BY <1>5, <1>6 DEF Into
<1>8. Legal(b2) /\ b2 \in Seq(Cell) /\ Begins(b1, b2)
  BY <1>2, <1>6, <1>7, AppendLegal
<1> HIDE DEF b2
<1>9. Into(b2, d)
  <2>1. Len(b1) \in Nat /\ Len(b2) \in Nat
    BY <1>2, <1>8, LenProperties
  <2>2. \A p \in Fields(b1) : p \in Fields(b2)
    BY <1>8, <2>1, FieldExtends
  <2> QED BY <1>4, <2>2 DEF Into
<1>10. Legal(b2 \o d)
  BY <1>4, <1>8, <1>9, AppendLegal
<1>11. \E S2 : Laid(With(b, e, t, d), S2, m + 1)
  BY <1>1, <1>4, LaidStep
<1> QED BY <1>10, <1>11 DEF With, b2, b1, h

-----------------------------------------------------------------------------
(* The packet in memory.                                                   *)

\* rr is what is made of the record of w at s.
Parsed(w, s, rr) ==
    LET h == FieldEnd(w, s) + 1
    IN /\ rr.name \in CStrings /\ Text(rr.name) = NameAt(w, s)
       /\ rr.type = w[h][2] /\ rr.type \in RTypes /\ rr.rdata \in Seq(Cell)
       /\ Shape(rr.type, rr.rdata)
       /\ rr.type \in {"CNAME", "NS"} => rr.rdata \in CStrings /\ Text(rr.rdata) = NameAt(w, h + 1)
       /\ rr.type \notin {"CNAME", "NS"} =>
             rr.rdata = SubSeq(w, h + 1, h + w[h][3]) /\ Len(rr.rdata) = w[h][3]

\* rr_deserialize makes it.
LEMMA ParsedIs ==
  ASSUME NEW w \in Seq(Cell), Legal(w), NEW s, NEW next, IsRecord(w, s, next)
  PROVE  Parsed(w, s, rr_deserialize(w, s))
<1> DEFINE h == FieldEnd(w, s) + 1
           t == w[h][2]
           n == w[h][3]
           rr == rr_deserialize(w, s)
           d == rdata_deserialize(w, h + 1, t, n)
<1>1. /\ s \in Fields(w) /\ h <= Len(w) /\ t \in RTypes /\ n \in Nat
      /\ next = h + 1 + n /\ next <= Len(w) + 1 /\ Rdata(w, h + 1, t, n)
  BY DEF IsRecord, RecordAt
<1>2. Len(w) \in Nat /\ \A k \in 1 .. Len(w) : w[k] \in Cell
  BY LenProperties, ElementOfSeq
<1>3. h \in Nat /\ h > 0
  BY <1>1, <1>2, FieldProps
<1>4. rr.name = name_deserialize(w, s) /\ rr.type = t /\ rr.rdata = d
  BY DEF rr_deserialize
<1>5. name_deserialize(w, s) \in CStrings /\ Text(name_deserialize(w, s)) = NameAt(w, s)
  BY <1>1, DeserText
<1> HIDE DEF h, rr, d
<1>6. CASE t \in {"CNAME", "NS"}
  <2>1. h + 1 \in Fields(w)
    BY <1>1, <1>6 DEF Rdata
  <2>2. d = name_deserialize(w, h + 1)
    BY <1>6 DEF d, rdata_deserialize
  <2>3. d \in CStrings /\ Text(d) = NameAt(w, h + 1)
    BY <2>1, <2>2, DeserText
  <2>4. NameField(d) /\ d \in Seq(Cell)
    BY <2>3, CStringEnc DEF Enc, NameField
  <2>5. Shape(t, d)
    BY <1>6, <2>4 DEF Shape
  <2> QED BY <1>1, <1>4, <1>5, <1>6, <2>3, <2>4, <2>5 DEF Parsed, h, rr
<1>7. CASE t \notin {"CNAME", "NS"}
  <2> DEFINE p == h + 1
             q == h + n
  <2>1. d = SubSeq(w, p, q)
    <3>1. h + 1 + n - 1 = h + n
      BY <1>1, <1>3
    <3>2. d = SubSeq(w, h + 1, h + 1 + n - 1)
      BY <1>7 DEF d, rdata_deserialize
    <3> QED BY <3>1, <3>2
  <2>2. p \in 1 .. Len(w) + 1 /\ q \in p - 1 .. Len(w) /\ q - p + 1 = n
    BY <1>1, <1>2, <1>3
  <2>3. /\ d \in Seq(Cell) /\ Len(d) = q - p + 1
        /\ \A j \in 1 .. q - p + 1 : d[j] = w[p + j - 1]
    <3> HIDE DEF p, q
    <3> QED BY <2>1, <2>2, SubCells
  <2>4. d \in Seq(Cell) /\ Len(d) = n /\ \A j \in 1 .. n : d[j] = w[h + j]
    <3>1. \A j \in 1 .. n : p + j - 1 = h + j
      BY <1>3
    <3> QED BY <2>2, <2>3, <3>1
  <2>5. Shape(t, d)
    <3>1. CASE t \in {"A", "TXT"}
      <4>1. n = 1
        BY <1>1, <3>1 DEF Rdata
      <4>2. d[1] = w[h + 1]
        BY <2>4, <4>1
      <4> QED BY <1>1, <2>4, <3>1, <4>1, <4>2 DEF Rdata, Shape
    <3>2. CASE t = "SOA"
      <4>1. /\ h + 1 \in Fields(w) /\ FieldEnd(w, h + 1) = h + 1 + n - 2 /\ n > 1
            /\ w[h + 1 + n - 1][1] = "data"
        BY <1>1, <3>2 DEF Rdata
      <4> DEFINE e == FieldEnd(w, h + 1)
      <4>2. e = h + (n - 1) /\ h + 1 + n - 1 = h + n
        <5>1. n \in Nat /\ h \in Nat /\ e = h + 1 + n - 2
          BY <1>1, <1>3, <4>1
        <5> HIDE DEF e, n
        <5> QED BY <5>1
      <4>3. IsField(w, h + 1, e)
        BY <1>2, <4>1, FieldProps
      <4> HIDE DEF e
      <4>4. n \in 1 .. n /\ n - 1 \in 1 .. n
        BY <1>1, <4>1
      <4>5. d[n][1] = "data" /\ d[n - 1][1] \in {"end", "ptr"}
        BY <2>4, <4>1, <4>2, <4>3, <4>4 DEF IsField
      <4>6. ASSUME NEW j \in 1 .. n - 2 PROVE d[j][1] = "label"
        <5> HIDE DEF n
        <5>1. j \in 1 .. n /\ h + j \in h + 1 .. e - 1
          BY <1>1, <1>3, <4>2
        <5>2. d[j] = w[h + j]
          BY <2>4, <5>1
        <5>3. \A k \in h + 1 .. e - 1 : w[k][1] = "label"
          BY <4>3 DEF IsField
        <5> QED BY <5>1, <5>2, <5>3
      <4> QED BY <2>4, <3>2, <4>1, <4>5, <4>6 DEF Shape
    <3>3. CASE t \notin {"A", "TXT", "SOA"}
      BY <1>7, <2>4, <3>3 DEF Shape
    <3> QED BY <3>1, <3>2, <3>3
  <2> QED BY <1>1, <1>4, <1>5, <1>7, <2>1, <2>4, <2>5 DEF Parsed, h, rr
<1> QED BY <1>6, <1>7

\* What is left in memory of a packet w whose records begin at S.
InMemory(w, S, n, p) ==
    /\ p.question \in Seq(Cell) /\ Len(p.question) = FieldEnd(w, 1) + 1
    /\ \A k \in 1 .. Len(p.question) : p.question[k] = w[k]
    /\ Len(p.rrs) = n /\ DOMAIN p.rrs = 1 .. n
    /\ \A i \in 1 .. n : Parsed(w, S[i], p.rrs[i])

\* pack_deserialize reads all of it.
LEMMA PacketIs ==
  ASSUME NEW w, NEW S, NEW n, Laid(w, S, n), Legal(w)
  PROVE  InMemory(w, S, n, pack_deserialize(w, n))
<1> DEFINE p == pack_deserialize(w, n)
           m == FieldEnd(w, 1) + 1
           q == SubSeq(w, 1, m)
<1>1. w \in Seq(Cell) /\ Len(w) \in Nat /\ n \in Nat
  BY LenProperties DEF Laid
<1>2. m \in Nat /\ m \in 1 - 1 .. Len(w) /\ 1 \in 1 .. Len(w) + 1 /\ m + 1 = FieldEnd(w, 1) + 2
  <2>1. 1 \in Fields(w) /\ FieldEnd(w, 1) + 2 <= Len(w) + 1
    BY DEF Laid
  <2>2. FieldEnd(w, 1) \in 1 .. Len(w)
    BY <1>1, <2>1, FieldProps
  <2> QED BY <1>1, <2>1, <2>2
<1> HIDE DEF m
<1>3. q \in Seq(Cell) /\ Len(q) = m /\ \A k \in 1 .. m : q[k] = w[k]
  <2>1. /\ q \in Seq(Cell) /\ Len(q) = m - 1 + 1
        /\ \A j \in 1 .. m - 1 + 1 : q[j] = w[1 + j - 1]
    BY <1>1, <1>2, SubCells
  <2>2. m - 1 + 1 = m /\ \A j \in 1 .. m : 1 + j - 1 = j
    BY <1>2
  <2> HIDE DEF q
  <2> QED BY <2>1, <2>2
<1>4. question_deserialize(w) = q
  BY DEF question_deserialize, m
<1> HIDE DEF q
<1>5. p.question = q /\ p.rrs = rrs_deserialize(w, Len(q) + 1, n)
  BY <1>4 DEF pack_deserialize
<1>6. p.rrs = [i \in 1 .. n |-> rr_deserialize(w, RecordCell(w, Len(q) + 1, i))]
  BY <1>5 DEF rrs_deserialize
<1>7. Len(q) + 1 = FieldEnd(w, 1) + 2
  BY <1>2, <1>3
<1> HIDE DEF p
<1>8. Len(p.rrs) = n /\ DOMAIN p.rrs = 1 .. n
  BY <1>1, <1>6
<1>9. ASSUME NEW i \in 1 .. n PROVE Parsed(w, S[i], p.rrs[i])
  <2>1. i \in 1 .. n + 1
    BY <1>1
  <2>2. RecordCell(w, Len(q) + 1, i) = S[i]
    BY <1>7, <2>1, CellsOfRecords
  <2>3. p.rrs[i] = rr_deserialize(w, S[i])
    BY <1>6, <2>2
  <2>4. IsRecord(w, S[i], S[i + 1])
    BY DEF Laid
  <2> QED BY <1>1, <2>3, <2>4, ParsedIs
<1> QED BY <1>3, <1>5, <1>8, <1>9 DEF InMemory, p, m

-----------------------------------------------------------------------------
(* Writing.                                                                *)

\* e is what may be written for name behind b; st: the search may run on.
NameOut(e, name, b, st) ==
    \/ e = name
    \/ \E j \in 1 .. Len(b) : /\ e = <<Pointer(j)>>
                              /\ j \in Occurrences(name, b) \/ (st /\ j \in Unfinished(name, b))

\* What name_serialize writes.
LEMMA NameOutIs ==
  ASSUME NEW name \in CStrings, NEW b \in Seq(Cell)
  PROVE  NameOut(name_serialize(name, b), name, b, stale) /\ NameField(name_serialize(name, b))
<1> DEFINE found == find_previous_name(name, b)
           j == CHOOSE x \in found : \A k \in found : x <= k
           e == name_serialize(name, b)
<1>1. CASE name # <<End>> /\ found # {}
  <2>1. e = <<Pointer(j)>>
    BY <1>1 DEF name_serialize
  <2>2. Len(b) \in Nat
    BY LenProperties
  <2>3. found \subseteq 1 .. Len(b)
    BY DEF find_previous_name, Occurrences, Unfinished
  <2>4. j \in found
    <3>1. found \in SUBSET Nat
      BY <2>2, <2>3
    <3> HIDE DEF found
    <3>2. \E x \in found : \A k \in found : x <= k
      BY <1>1, <3>1, LeastNatural
    <3> QED BY <3>2
  <2>5. j \in 1 .. Len(b) /\ (j \in Occurrences(name, b) \/ (stale /\ j \in Unfinished(name, b)))
    <3> HIDE DEF j
    <3> QED BY <2>3, <2>4 DEF find_previous_name
  <2>6. Pointer(j) \in Cell /\ Pointer(j)[1] = "ptr"
    <3>1. j \in Nat
      BY <2>2, <2>5
    <3> HIDE DEF j
    <3> QED BY <3>1 DEF Cell, Pointer
  <2> HIDE DEF j, e
  <2>7. e \in Seq(Cell) /\ Len(e) = 1 /\ e[1] = Pointer(j)
    BY <2>1, <2>6, One
  <2>8. NameField(e)
    BY <2>6, <2>7 DEF NameField
  <2> QED BY <2>1, <2>5, <2>8 DEF NameOut, e
<1>2. CASE ~(name # <<End>> /\ found # {})
  <2>1. e = name
    BY <1>2 DEF name_serialize
  <2>2. NameField(name)
    BY CStringEnc DEF Enc
  <2> QED BY <2>1, <2>2 DEF NameOut
<1> QED BY <1>1, <1>2

\* The names, types and data that rr_serialize can write.
Writable(rr) == rr.name \in CStrings /\ rr.type \in RTypes /\ rr.rdata \in Seq(Cell)

\* B[i] is the buffer with i records of p; st as above.
Stages(B, p, st) ==
    /\ B[0] = p.question
    /\ \A i \in 1 .. Len(p.rrs) :
          \E e : /\ NameField(e) /\ NameOut(e, p.rrs[i].name, B[i - 1], st)
                 /\ B[i] = With(B[i - 1], e, p.rrs[i].type, p.rrs[i].rdata)

\* pack_serialize writes the records one behind the other.
LEMMA WrittenIs ==
  ASSUME NEW p, p.question \in Seq(Cell), Len(p.rrs) \in Nat,
         \A i \in 1 .. Len(p.rrs) : Writable(p.rrs[i])
  PROVE  \E B : /\ Stages(B, p, stale) /\ pack_serialize(p) = B[Len(p.rrs)]
                /\ \A i \in 0 .. Len(p.rrs) : B[i] \in Seq(Cell)
<1> DEFINE n == Len(p.rrs)
           x == p.question
           rrs == p.rrs
           R(f) == f = [i \in 0 .. Len(rrs) |-> IF i = 0 THEN x ELSE rr_serialize(f[i - 1], rrs[i])]
           F == [i \in 1 .. n |-> [c \in Seq(Cell) |-> rr_serialize(c, rrs[i])]]
           T == [i \in 0 .. n |-> Seq(Cell)]
<1>1. ASSUME NEW c \in Seq(Cell), NEW i \in 1 .. n
      PROVE  /\ rr_serialize(c, rrs[i]) \in Seq(Cell)
             /\ \E e : /\ NameField(e) /\ NameOut(e, rrs[i].name, c, stale)
                       /\ rr_serialize(c, rrs[i]) = With(c, e, rrs[i].type, rrs[i].rdata)
  <2> DEFINE e == name_serialize(rrs[i].name, c)
  <2>1. Writable(rrs[i])
    OBVIOUS
  <2>2. NameOut(e, rrs[i].name, c, stale) /\ NameField(e)
    BY <2>1, NameOutIs DEF Writable
  <2>3. rr_serialize(c, rrs[i]) = With(c, e, rrs[i].type, rrs[i].rdata)
    BY DEF rr_serialize, With
  <2> HIDE DEF e
  <2>4. With(c, e, rrs[i].type, rrs[i].rdata) \in Seq(Cell)
    <3>1. Behind(With(c, e, rrs[i].type, rrs[i].rdata), c, e, rrs[i].type, rrs[i].rdata)
      BY <2>1, <2>2, BehindIs DEF Writable
    <3> QED BY <3>1 DEF Behind
  <2> QED BY <2>2, <2>3, <2>4
<1>2. PICK f : Course(f, n, x, F) /\ \A i \in 0 .. n : f[i] \in T[i]
  <2>1. n \in Nat /\ x \in T[0]
    OBVIOUS
  <2>2. ASSUME NEW i \in 1 .. n, NEW c \in T[i - 1] PROVE F[i][c] \in T[i]
    <3>1. i - 1 \in 0 .. n /\ i \in 0 .. n
      OBVIOUS
    <3>2. c \in Seq(Cell) /\ T[i] = Seq(Cell)
      BY <3>1
    <3> QED BY <1>1, <3>2
  <2> HIDE DEF F, T, n, x
  <2> QED BY <2>1, <2>2, LoopExists
<1>3. R(f)
  <2>1. ASSUME NEW i \in 0 .. n
        PROVE  (IF i = 0 THEN x ELSE F[i][f[i - 1]])
                  = IF i = 0 THEN x ELSE rr_serialize(f[i - 1], rrs[i])
    <3>1. CASE i = 0
      BY <3>1
    <3>2. CASE i # 0
      <4>1. i \in 1 .. n /\ i - 1 \in 0 .. n
        BY <3>2
      <4>2. f[i - 1] \in Seq(Cell)
        BY <1>2, <4>1
      <4> QED BY <4>1, <4>2
    <3> QED BY <3>1, <3>2
  <2> HIDE DEF F
  <2> QED BY <1>2, <2>1 DEF Course
<1> DEFINE a == CHOOSE g : R(g)
<1>4. R(a)
  <2> HIDE DEF R
  <2> QED BY <1>3
<1>5. pack_serialize(p) = a[n]
  BY DEF pack_serialize, rrs_serialize, questions_serialize, After
<1> HIDE DEF a
<1>6. a[0] = x /\ \A i \in 1 .. n : a[i] = rr_serialize(a[i - 1], rrs[i])
  BY <1>4
<1>7. \A i \in 0 .. n : a[i] \in Seq(Cell)
  <2> DEFINE P == {i \in 0 .. n : a[i] \in Seq(Cell)}
  <2>1. 0 \in P
    BY <1>6
  <2>2. ASSUME NEW i \in 0 .. n - 1, i \in P PROVE i + 1 \in P
    <3>1. i + 1 \in 1 .. n /\ (i + 1) - 1 = i /\ a[i] \in Seq(Cell) /\ i + 1 \in 0 .. n
      BY <2>2
    <3>2. a[i + 1] = rr_serialize(a[i], rrs[i + 1])
      BY <1>6, <3>1
    <3>3. a[i + 1] \in Seq(Cell)
      BY <1>1, <3>1, <3>2
    <3> QED BY <3>1, <3>3
  <2>3. 0 .. n \subseteq P
    <3>1. n \in Nat
      OBVIOUS
    <3> HIDE DEF P, n
    <3> QED BY <2>1, <2>2, <3>1, UpTo
  <2> QED BY <2>3
<1>8. Stages(a, p, stale)
  <2>1. ASSUME NEW i \in 1 .. n
        PROVE  \E e : /\ NameField(e) /\ NameOut(e, rrs[i].name, a[i - 1], stale)
                      /\ a[i] = With(a[i - 1], e, rrs[i].type, rrs[i].rdata)
    <3>1. a[i - 1] \in Seq(Cell) /\ a[i] = rr_serialize(a[i - 1], rrs[i])
      BY <1>6, <1>7
    <3> QED BY <1>1, <3>1
  <2> QED BY <1>6, <2>1 DEF Stages
<1> QED BY <1>5, <1>7, <1>8

-----------------------------------------------------------------------------
(* The buffer for the client.                                              *)

\* A place where a name stands in full.
LEMMA OccurrenceIs ==
  ASSUME NEW name \in CStrings, NEW b \in Seq(Cell), NEW j \in Occurrences(name, b)
  PROVE  /\ j \in Fields(b) /\ FieldEnd(b, j) = j + Len(name) - 1
         /\ b[FieldEnd(b, j)] = End /\ Labels(b, j, FieldEnd(b, j)) = Text(name)
<1> DEFINE m == Len(name)
           q == j + m - 1
           v == SubSeq(b, j, q)
<1>1. m \in Nat /\ m > 0 /\ Len(b) \in Nat
  BY LenProperties DEF CStrings
<1>2. j \in 1 .. Len(b) /\ q <= Len(b) /\ v = name
  BY DEF Occurrences
<1>3. j \in 1 .. Len(b) + 1 /\ q \in j - 1 .. Len(b) /\ q - j + 1 = m /\ q \in j .. Len(b) /\ q \in Nat
  BY <1>1, <1>2
<1> HIDE DEF m, q
<1>4. \A k \in 1 .. q - j + 1 : v[k] = b[j + k - 1]
  BY <1>3, SubCells
<1> HIDE DEF v
<1>5. \A k \in 1 .. m : name[k] = b[j + k - 1]
  BY <1>2, <1>3, <1>4
<1>6. b[q] = End
  <2>1. j + m - 1 = q /\ m \in 1 .. m
    BY <1>1, <1>2, <1>3
  <2>2. name[m] = b[q]
    BY <1>5, <2>1
  <2> QED BY <2>2 DEF CStrings, m
<1>7. ASSUME NEW k \in j .. q - 1 PROVE b[k][1] = "label"
  <2>1. k - j + 1 \in 1 .. m - 1 /\ k - j + 1 \in 1 .. m /\ j + (k - j + 1) - 1 = k
    BY <1>1, <1>2, <1>3
  <2>2. name[k - j + 1] = b[j + (k - j + 1) - 1]
    BY <1>5, <2>1
  <2>3. name[k - j + 1][1] = "label"
    BY <2>1 DEF CStrings, m
  <2> QED BY <2>1, <2>2, <2>3
<1>8. IsField(b, j, q)
  BY <1>6, <1>7 DEF IsField, End
<1>9. j \in Fields(b) /\ FieldEnd(b, j) = q
  BY <1>1, <1>2, <1>3, <1>8, FieldIs
<1>10. Labels(b, j, q) = Text(name)
  <2>1. q - j = m - 1
    BY <1>1, <1>2, <1>3
  <2>2. \A k \in 1 .. m - 1 : b[j + k - 1][2] = name[k][2]
    BY <1>1, <1>5
  <2> QED BY <2>1, <2>2 DEF Labels, Text, m
<1> QED BY <1>6, <1>9, <1>10 DEF q, m

\* The search runs on behind the cursor only from labels at its end.
LEMMA UnfinishedIs ==
  ASSUME NEW name \in CStrings, NEW b \in Seq(Cell), NEW j \in Unfinished(name, b)
  PROVE  /\ j \in 1 .. Len(b) /\ \A k \in j .. Len(b) : b[k][1] = "label"
         /\ IsStrictPrefix(SubSeq(b, j, Len(b)), name)
<1> DEFINE n == Len(b)
           v == SubSeq(b, j, n)
<1>1. n \in Nat /\ Len(name) \in Nat /\ name \in Seq(Cell)
  BY LenProperties DEF CStrings
<1>2. j \in 1 .. n /\ IsStrictPrefix(v, name)
  BY DEF Unfinished
<1>3. j \in 1 .. n + 1 /\ n \in j - 1 .. n
  BY <1>1, <1>2
<1>4. v \in Seq(Cell) /\ Len(v) = n - j + 1 /\ \A k \in 1 .. n - j + 1 : v[k] = b[j + k - 1]
  BY <1>3, SubCells
<1> HIDE DEF v, n
<1>5. Len(v) \in Nat /\ Len(v) <= Len(name) /\ SubSeq(v, 1, Len(v)) = SubSeq(name, 1, Len(v)) /\ v # name
  BY <1>2, <1>4, LenProperties DEF IsStrictPrefix, IsPrefix
<1>6. \A k \in 1 .. Len(v) : v[k] = name[k]
  <2> DEFINE m == Len(v)
  <2>1. 1 \in 1 .. Len(v) + 1 /\ 1 \in 1 .. Len(name) + 1 /\ m \in 1 - 1 .. Len(v) /\ m \in 1 - 1 .. Len(name)
    BY <1>1, <1>5
  <2>2. \A k \in 1 .. m - 1 + 1 : SubSeq(v, 1, m)[k] = v[1 + k - 1]
    BY <1>4, <2>1, SubCells
  <2>3. \A k \in 1 .. m - 1 + 1 : SubSeq(name, 1, m)[k] = name[1 + k - 1]
    BY <1>1, <2>1, SubCells
  <2>4. m - 1 + 1 = m /\ \A k \in 1 .. m : 1 + k - 1 = k
    BY <1>5
  <2>5. SubSeq(v, 1, m) = SubSeq(name, 1, m)
    BY <1>5
  <2> HIDE DEF m
  <2>6. \A k \in 1 .. m : v[k] = name[k]
    BY <2>2, <2>3, <2>4, <2>5
  <2> QED BY <2>6 DEF m
<1>7. Len(v) # Len(name)
  BY <1>1, <1>4, <1>5, <1>6, SeqEqual
<1>8. ASSUME NEW k \in j .. n PROVE b[k][1] = "label"
  <2>1. k - j + 1 \in 1 .. n - j + 1 /\ k - j + 1 \in 1 .. Len(v) /\ j + (k - j + 1) - 1 = k
        /\ k - j + 1 \in 1 .. Len(name) - 1
    BY <1>1, <1>2, <1>4, <1>5, <1>7
  <2>2. v[k - j + 1] = b[j + (k - j + 1) - 1] /\ v[k - j + 1] = name[k - j + 1]
    BY <1>4, <1>6, <2>1
  <2>3. name[k - j + 1][1] = "label"
    BY <2>1 DEF CStrings
  <2> QED BY <2>1, <2>2, <2>3
<1> QED BY <1>2, <1>8 DEF v, n

\* B holds what was written of p, which was read from w.
Sent(w, S, n, p, B, st) ==
    /\ Laid(w, S, n) /\ InMemory(w, S, n, p) /\ ~HasMX(p)
    /\ Stages(B, p, st) /\ \A i \in 0 .. n : B[i] \in Seq(Cell)

\* Its parts, one record at a time.
LEMMA StageIs ==
  ASSUME NEW w, NEW S, NEW n, NEW p, NEW B, NEW st, Sent(w, S, n, p, B, st), NEW i \in 1 .. n
  PROVE  /\ n \in Nat /\ i - 1 \in 0 .. n /\ i \in 0 .. n
         /\ B[i - 1] \in Seq(Cell) /\ B[i] \in Seq(Cell) /\ Len(B[i - 1]) \in Nat /\ Len(B[i]) \in Nat
         /\ Parsed(w, S[i], p.rrs[i]) /\ p.rrs[i].type # "MX"
         /\ IsRecord(w, S[i], S[i + 1])
         /\ \E e : /\ NameField(e) /\ NameOut(e, p.rrs[i].name, B[i - 1], st)
                   /\ B[i] = With(B[i - 1], e, p.rrs[i].type, p.rrs[i].rdata)
<1>1. n \in Nat /\ Len(p.rrs) = n /\ DOMAIN p.rrs = 1 .. n
  BY DEF Sent, Laid, InMemory
<1>2. i - 1 \in 0 .. n /\ i \in 0 .. n
  BY <1>1
<1>3. B[i - 1] \in Seq(Cell) /\ B[i] \in Seq(Cell)
  BY <1>2 DEF Sent
<1>4. Len(B[i - 1]) \in Nat /\ Len(B[i]) \in Nat
  BY <1>3, LenProperties
<1>5. Parsed(w, S[i], p.rrs[i]) /\ IsRecord(w, S[i], S[i + 1])
  BY DEF Sent, InMemory, Laid
<1>6. p.rrs[i].type # "MX"
  BY <1>1 DEF Sent, HasMX
<1>7. \E e : /\ NameField(e) /\ NameOut(e, p.rrs[i].name, B[i - 1], st)
             /\ B[i] = With(B[i - 1], e, p.rrs[i].type, p.rrs[i].rdata)
  BY <1>1 DEF Sent, Stages
<1> QED BY <1>1, <1>2, <1>3, <1>4, <1>5, <1>6, <1>7

\* A beginning of a beginning is one.
LEMMA BeginsOn ==
  ASSUME NEW a, NEW b, NEW c, Len(a) \in Nat, Len(b) \in Nat, Len(c) \in Nat,
         Begins(a, b), Begins(b, c)
  PROVE  Begins(a, c)
<1>1. Len(a) <= Len(b) /\ Len(b) <= Len(c) /\ Len(a) <= Len(c)
  BY DEF Begins
<1>2. ASSUME NEW k \in 1 .. Len(a) PROVE c[k] = a[k]
  <2>1. k \in 1 .. Len(b)
    BY <1>1
  <2> QED BY <2>1 DEF Begins
<1> QED BY <1>1, <1>2 DEF Begins

\* Earlier stages are beginnings of the last.
LEMMA StageBegins ==
  ASSUME NEW w, NEW S, NEW n, NEW p, NEW B, NEW st, Sent(w, S, n, p, B, st), NEW i \in 0 .. n
  PROVE  Begins(B[i], B[n])
<1> DEFINE P == {j \in 0 .. n : \A k \in 0 .. j : Begins(B[k], B[j])}
<1>0. n \in Nat /\ \A k \in 0 .. n : B[k] \in Seq(Cell) /\ Len(B[k]) \in Nat
  BY LenProperties DEF Sent, Laid
<1>1. \A k \in 0 .. n : Begins(B[k], B[k])
  BY <1>0 DEF Begins
<1>2. 0 \in P
  BY <1>0, <1>1
<1>3. ASSUME NEW j \in 0 .. n - 1, j \in P PROVE j + 1 \in P
  <2>1. j + 1 \in 1 .. n /\ (j + 1) - 1 = j /\ j + 1 \in 0 .. n /\ j \in 0 .. n
    BY <1>0
  <2>2. PICK e : /\ NameField(e)
                 /\ B[j + 1] = With(B[j], e, p.rrs[j + 1].type, p.rrs[j + 1].rdata)
    BY <2>1, StageIs
  <2>3. p.rrs[j + 1].type \in RTypes /\ p.rrs[j + 1].rdata \in Seq(Cell)
    BY <2>1, StageIs DEF Parsed
  <2>4. Begins(B[j], B[j + 1])
    <3>1. B[j] \in Seq(Cell)
      BY <1>0, <2>1
    <3>2. Behind(B[j + 1], B[j], e, p.rrs[j + 1].type, p.rrs[j + 1].rdata)
      BY <2>2, <2>3, <3>1, BehindIs
    <3> QED BY <3>2 DEF Behind
  <2>5. ASSUME NEW k \in 0 .. j + 1 PROVE Begins(B[k], B[j + 1])
    <3>1. CASE k = j + 1
      BY <1>1, <2>1, <3>1
    <3>2. CASE k # j + 1
      <4>1. k \in 0 .. j /\ k \in 0 .. n
        BY <1>0, <2>1, <3>2
      <4>2. Begins(B[k], B[j])
        BY <1>3, <4>1
      <4>3. Len(B[k]) \in Nat /\ Len(B[j]) \in Nat /\ Len(B[j + 1]) \in Nat
        BY <1>0, <2>1, <4>1
      <4> QED BY <2>4, <4>2, <4>3, BeginsOn
    <3> QED BY <3>1, <3>2
  <2> QED BY <2>1, <2>5
<1>4. 0 .. n \subseteq P
  <2> HIDE DEF P
  <2> QED BY <1>0, <1>2, <1>3, UpTo
<1>5. n \in P
  <2> HIDE DEF P
  <2> QED BY <1>0, <1>4
<1> QED BY <1>5

\* The question stands in both packets at the same place.
LEMMA SameQuestion ==
  ASSUME NEW w, NEW S, NEW n, NEW p, NEW B, NEW st, Sent(w, S, n, p, B, st)
  PROVE  /\ FieldEnd(w, 1) \in Nat /\ FieldEnd(w, 1) > 0
         /\ FieldEnd(w, 1) + 1 <= Len(w) /\ FieldEnd(w, 1) + 1 <= Len(B[n])
         /\ Len(B[0]) = FieldEnd(w, 1) + 1 /\ Len(p.question) = FieldEnd(w, 1) + 1
         /\ \A k \in 1 .. FieldEnd(w, 1) + 1 : B[n][k] = w[k] /\ B[0][k] = w[k]
         /\ 1 \in Fields(B[n]) /\ FieldEnd(B[n], 1) = FieldEnd(w, 1)
         /\ B[n] \in Seq(Cell) /\ Len(B[n]) \in Nat /\ Len(w) \in Nat /\ w \in Seq(Cell) /\ n \in Nat
         /\ IsField(w, 1, FieldEnd(w, 1)) /\ w[FieldEnd(w, 1)] = End
         /\ w[FieldEnd(w, 1) + 1] = <<"q", "A">>
<1> DEFINE q == FieldEnd(w, 1)
<1>1. /\ w \in Seq(Cell) /\ n \in Nat /\ 1 \in Fields(w) /\ q + 2 <= Len(w) + 1
      /\ w[q] = End /\ w[q + 1] = <<"q", "A">>
  BY DEF Sent, Laid
<1>2. Len(w) \in Nat
  BY <1>1, LenProperties
<1>3. q \in 1 .. Len(w) /\ IsField(w, 1, q)
  BY <1>1, <1>2, FieldProps
<1>4. q \in Nat /\ q > 0 /\ q + 1 <= Len(w)
  BY <1>1, <1>2, <1>3
<1>5. B[0] = p.question /\ Len(p.question) = q + 1 /\ \A k \in 1 .. q + 1 : p.question[k] = w[k]
  BY DEF Sent, Stages, InMemory
<1>6. 0 \in 0 .. n /\ n \in 0 .. n
  BY <1>1
<1>7. B[0] \in Seq(Cell) /\ B[n] \in Seq(Cell) /\ Len(B[n]) \in Nat /\ Len(B[0]) \in Nat
  BY <1>6, LenProperties DEF Sent
<1>8. Begins(B[0], B[n])
  BY <1>6, StageBegins
<1> HIDE DEF q
<1>9. q + 1 <= Len(B[n]) /\ \A k \in 1 .. q + 1 : B[n][k] = w[k]
  BY <1>5, <1>8 DEF Begins
<1>10. IsField(B[n], 1, q)
  <2>1. \A k \in 1 .. q - 1 : k \in 1 .. q + 1
    BY <1>4
  <2>2. q \in 1 .. q + 1
    BY <1>4
  <2> QED BY <1>3, <1>9, <2>1, <2>2 DEF IsField
<1>11. 1 \in Fields(B[n]) /\ FieldEnd(B[n], 1) = q
  <2>1. 1 \in 1 .. Len(B[n]) /\ q \in 1 .. Len(B[n])
    BY <1>4, <1>7, <1>9
  <2> QED BY <1>7, <1>10, <2>1, FieldIs
<1> QED BY <1>1, <1>2, <1>3, <1>4, <1>5, <1>7, <1>9, <1>11 DEF q

\* Where the records of the buffer begin.
Starts(B, n) == [i \in 1 .. n + 1 |-> Len(B[i - 1]) + 1]

\* The buffer is laid out as a packet of n records.
LEMMA SentLaid ==
  ASSUME NEW w, NEW S, NEW n, NEW p, NEW B, NEW st, Sent(w, S, n, p, B, st)
  PROVE  Laid(B[n], Starts(B, n), n)
<1> DEFINE R == Starts(B, n)
<1>1. /\ n \in Nat /\ B[n] \in Seq(Cell) /\ Len(B[n]) \in Nat
      /\ 1 \in Fields(B[n]) /\ FieldEnd(B[n], 1) = FieldEnd(w, 1)
      /\ FieldEnd(w, 1) \in Nat /\ FieldEnd(w, 1) > 0
      /\ FieldEnd(w, 1) + 1 <= Len(B[n])
      /\ \A k \in 1 .. FieldEnd(w, 1) + 1 : B[n][k] = w[k]
      /\ w[FieldEnd(w, 1)] = End /\ w[FieldEnd(w, 1) + 1] = <<"q", "A">>
      /\ Len(B[0]) = FieldEnd(w, 1) + 1
  BY SameQuestion
<1>2. \A i \in 1 .. n + 1 : R[i] = Len(B[i - 1]) + 1
  BY DEF Starts
<1> HIDE DEF R
<1>3. R[1] = FieldEnd(B[n], 1) + 2 /\ R[1] <= Len(B[n]) + 1
  <2>1. R[1] = Len(B[0]) + 1
    BY <1>1, <1>2
  <2> QED BY <1>1, <2>1
<1>4. R[n + 1] = Len(B[n]) + 1
  <2>1. n + 1 \in 1 .. n + 1 /\ (n + 1) - 1 = n
    BY <1>1
  <2> QED BY <1>2, <2>1
<1>5. B[n][FieldEnd(w, 1)] = End /\ B[n][FieldEnd(w, 1) + 1] = <<"q", "A">>
  BY <1>1
<1>6. ASSUME NEW i \in 1 .. n PROVE IsRecord(B[n], R[i], R[i + 1])
  <2>1. i \in 1 .. n + 1 /\ i + 1 \in 1 .. n + 1 /\ (i + 1) - 1 = i
    BY <1>1
  <2>2. R[i] = Len(B[i - 1]) + 1 /\ R[i + 1] = Len(B[i]) + 1
    BY <1>2, <2>1
  <2>3. /\ B[i - 1] \in Seq(Cell) /\ Len(B[i]) \in Nat /\ i \in 0 .. n
        /\ p.rrs[i].type \in RTypes /\ Shape(p.rrs[i].type, p.rrs[i].rdata)
    BY StageIs DEF Parsed
  <2>4. PICK e : /\ NameField(e)
                 /\ B[i] = With(B[i - 1], e, p.rrs[i].type, p.rrs[i].rdata)
    BY StageIs
  <2>5. IsRecord(With(B[i - 1], e, p.rrs[i].type, p.rrs[i].rdata), Len(B[i - 1]) + 1,
                 Len(With(B[i - 1], e, p.rrs[i].type, p.rrs[i].rdata)) + 1)
    BY <2>3, <2>4, NewRecord
  <2>6. IsRecord(B[i], R[i], R[i + 1])
    BY <2>2, <2>4, <2>5
  <2>7. Begins(B[i], B[n])
    BY <2>3, StageBegins
  <2> QED BY <1>1, <2>3, <2>6, <2>7, RecordExtends
<1>7. Laid(B[n], R, n)
  BY <1>1, <1>3, <1>4, <1>5, <1>6 DEF Laid
<1> QED BY <1>7 DEF R

\* Bytes behind the cursor take part only where a text meets a name.
LEMMA NothingUnfinished ==
  ASSUME NEW w, NEW S, NEW n, NEW p, NEW B, NEW st, Sent(w, S, n, p, B, st), ~TextMeetsName(p),
         NEW i \in 1 .. n
  PROVE  Unfinished(p.rrs[i].name, B[i - 1]) = {}
<1> SUFFICES ASSUME NEW j \in Unfinished(p.rrs[i].name, B[i - 1]) PROVE FALSE
  OBVIOUS
<1> DEFINE b == B[i - 1]
           name == p.rrs[i].name
<1>1. n \in Nat /\ b \in Seq(Cell) /\ Len(b) \in Nat /\ name \in CStrings
  BY StageIs DEF Parsed
<1>2. /\ j \in 1 .. Len(b) /\ \A k \in j .. Len(b) : b[k][1] = "label"
      /\ IsStrictPrefix(SubSeq(b, j, Len(b)), name)
  BY <1>1, UnfinishedIs
<1> HIDE DEF b, name
<1>3. b[Len(b)][1] = "label"
  BY <1>1, <1>2
<1>4. CASE i = 1
  <2>1. b = B[0]
    BY <1>4 DEF b
  <2>2. /\ Len(B[0]) = FieldEnd(w, 1) + 1 /\ FieldEnd(w, 1) + 1 \in 1 .. FieldEnd(w, 1) + 1
        /\ \A k \in 1 .. FieldEnd(w, 1) + 1 : B[0][k] = w[k]
        /\ w[FieldEnd(w, 1) + 1] = <<"q", "A">>
    BY SameQuestion
  <2>3. b[Len(b)] = <<"q", "A">>
    BY <2>1, <2>2
  <2> QED BY <1>3, <2>3
<1>5. CASE i # 1
  <2> DEFINE m == i - 1
             t == p.rrs[m].type
             d == p.rrs[m].rdata
             a == B[m - 1]
  <2>1. m \in 1 .. n /\ b = B[m] /\ m + 1 = i
    BY <1>1, <1>5 DEF b
  <2> HIDE DEF m
  <2>2. /\ a \in Seq(Cell) /\ t \in RTypes /\ t # "MX" /\ Shape(t, d) /\ d \in Seq(Cell)
        /\ t \in {"CNAME", "NS"} => d \in CStrings
    BY <2>1, StageIs DEF Parsed
  <2>3. PICK e : NameField(e) /\ B[m] = With(a, e, t, d)
    BY <2>1, StageIs
  <2>4. b = With(a, e, t, d)
    BY <2>1, <2>3
  <2>5. Len(p.rrs) = n
    BY DEF Sent, InMemory
  <2>6. p.rrs[m].type = t /\ p.rrs[m].rdata = d /\ p.rrs[m + 1].name = name
    BY <2>1 DEF name
  <2> HIDE DEF a, t, d
  <2>7. /\ Len(a) \in Nat /\ Len(e) \in Nat /\ Len(d) \in Nat
        /\ Len(b) = Len(a) + Len(e) + 1 + Len(d)
        /\ b[Len(a) + Len(e) + 1] = <<"rr", t, Len(d)>>
        /\ \A k \in 1 .. Len(d) : b[Len(a) + Len(e) + 1 + k] = d[k]
    <3>1. Behind(With(a, e, t, d), a, e, t, d)
      BY <2>2, <2>3, BehindIs
    <3>2. Behind(b, a, e, t, d)
      BY <2>4, <3>1
    <3> QED BY <3>2 DEF Behind
  <2>8. b[Len(a) + Len(e) + 1] = <<"rr", t, Len(d)>>
    BY <2>7
  <2>9. \A k \in 1 .. Len(d) : b[Len(a) + Len(e) + 1 + k] = d[k]
    BY <2>7
  <2>10. Len(d) > 0
    BY <2>2, WireAssumption DEF Shape, NameField
  <2>11. b[Len(b)] = d[Len(d)]
    <3>1. Len(d) \in 1 .. Len(d)
      BY <2>7, <2>10
    <3> QED BY <2>7, <2>9, <3>1
  <2>12. t = "TXT"
    <3>1. t = "A" => Len(d) = 1 /\ d[1][1] = "data"
      BY <2>2 DEF Shape
    <3>2. t = "SOA" => d[Len(d)][1] = "data"
      BY <2>2 DEF Shape
    <3>3. t \in {"CNAME", "NS"} => d[Len(d)][1] = "end"
      BY <2>2 DEF CStrings, End
    <3>4. "data" # "label" /\ "end" # "label"
      OBVIOUS
    <3>5. t \in {"A", "TXT", "CNAME", "NS", "SOA", "MX"}
      BY <2>2, WireAssumption
    <3> QED BY <1>3, <2>2, <2>11, <3>1, <3>2, <3>3, <3>4, <3>5
  <2>13. Len(d) = 1 /\ Len(b) - 1 = Len(a) + Len(e) + 1
    <3>1. Len(d) = 1
      BY <2>2, <2>12 DEF Shape
    <3> QED BY <2>7, <3>1
  <2>14. j = Len(b)
    <3> SUFFICES ASSUME j # Len(b) PROVE FALSE
      OBVIOUS
    <3>1. Len(b) - 1 \in j .. Len(b)
      BY <1>1, <1>2
    <3>2. b[Len(b) - 1][1] = "label"
      BY <1>2, <3>1
    <3>3. b[Len(b) - 1] = <<"rr", t, Len(d)>>
      BY <2>8, <2>13
    <3> QED BY <3>2, <3>3
  <2>15. SubSeq(b, j, Len(b)) = d
    <3> DEFINE k == Len(b)
    <3>1. j \in 1 .. Len(b) + 1 /\ k \in j - 1 .. Len(b) /\ k - j + 1 = 1 /\ j + 1 - 1 = k
      BY <1>1, <1>2, <2>14
    <3> HIDE DEF k
    <3>2. /\ SubSeq(b, j, k) \in Seq(Cell) /\ Len(SubSeq(b, j, k)) = k - j + 1
          /\ \A x \in 1 .. k - j + 1 : SubSeq(b, j, k)[x] = b[j + x - 1]
      BY <1>1, <3>1, SubCells
    <3>3. Len(SubSeq(b, j, k)) = 1 /\ SubSeq(b, j, k)[1] = b[k]
      BY <3>1, <3>2
    <3>4. b[k] = d[1]
      BY <2>11, <2>13 DEF k
    <3>5. SubSeq(b, j, k) = d
      <4> DEFINE v == SubSeq(b, j, k)
      <4>1. v \in Seq(Cell) /\ d \in Seq(Cell) /\ Len(v) = Len(d)
        BY <2>2, <2>13, <3>2, <3>3
      <4>2. Len(v) = 1 /\ v[1] = d[1]
        BY <3>3, <3>4
      <4> HIDE DEF v
      <4>3. \A x \in 1 .. Len(v) : v[x] = d[x]
        BY <4>2
      <4>4. v = d
        BY <4>1, <4>3, SeqEqual
      <4> QED BY <4>4 DEF v
    <3> QED BY <3>5 DEF k
  <2>16. IsStrictPrefix(d, name)
    BY <1>2, <2>15
  <2>17. m \in 1 .. Len(p.rrs) - 1
    BY <1>1, <2>1, <2>5
  <2> QED BY <2>6, <2>12, <2>16, <2>17 DEF TextMeetsName
<1> QED BY <1>4, <1>5

-----------------------------------------------------------------------------
(* Reading what was written.                                               *)

\* A name stands where its cells do.
LEMMA Occurs ==
  ASSUME NEW b \in Seq(Cell), NEW name \in CStrings, NEW j \in 1 .. Len(b),
         j + Len(name) - 1 <= Len(b), \A k \in 1 .. Len(name) : b[j + k - 1] = name[k]
  PROVE  j \in Occurrences(name, b)
<1> DEFINE q == j + Len(name) - 1
           v == SubSeq(b, j, q)
<1>1. Len(name) \in Nat /\ Len(name) > 0 /\ Len(b) \in Nat /\ name \in Seq(Cell)
  BY LenProperties DEF CStrings
<1>2. j \in 1 .. Len(b) + 1 /\ q \in j - 1 .. Len(b) /\ q - j + 1 = Len(name)
  BY <1>1
<1> HIDE DEF q
<1>3. v \in Seq(Cell) /\ Len(v) = q - j + 1 /\ \A k \in 1 .. q - j + 1 : v[k] = b[j + k - 1]
  BY <1>2, SubCells
<1> HIDE DEF v
<1>4. Len(v) = Len(name) /\ \A k \in 1 .. Len(v) : v[k] = name[k]
  BY <1>2, <1>3
<1>5. v = name
  BY <1>1, <1>3, <1>4, SeqEqual
<1> QED BY <1>5 DEF Occurrences, v, q

\* It still stands there when the packet grows.
LEMMA OccurrenceExtends ==
  ASSUME NEW b \in Seq(Cell), NEW d \in Seq(Cell), Begins(b, d), NEW name \in CStrings,
         NEW j \in Occurrences(name, b)
  PROVE  j \in Occurrences(name, d) /\ j + Len(name) - 1 <= Len(b) /\ j \in 1 .. Len(b)
<1> DEFINE q == j + Len(name) - 1
           v == SubSeq(b, j, q)
<1>1. /\ Len(name) \in Nat /\ Len(name) > 0 /\ Len(b) \in Nat /\ Len(d) \in Nat
      /\ Len(b) <= Len(d) /\ \A k \in 1 .. Len(b) : d[k] = b[k]
  BY LenProperties DEF CStrings, Begins
<1>2. j \in 1 .. Len(b) /\ q <= Len(b) /\ v = name
  BY DEF Occurrences
<1>3. j \in 1 .. Len(b) + 1 /\ q \in j - 1 .. Len(b) /\ q - j + 1 = Len(name)
  BY <1>1, <1>2
<1>4. \A k \in 1 .. Len(name) : name[k] = b[j + k - 1]
  <2> HIDE DEF q
  <2>1. \A k \in 1 .. q - j + 1 : v[k] = b[j + k - 1]
    BY <1>3, SubCells
  <2> HIDE DEF v
  <2> QED BY <1>2, <1>3, <2>1
<1>5. ASSUME NEW k \in 1 .. Len(name) PROVE d[j + k - 1] = name[k]
  <2>1. j + k - 1 \in 1 .. Len(b)
    BY <1>1, <1>2
  <2> QED BY <1>1, <1>4, <2>1
<1>6. j \in 1 .. Len(d) /\ j + Len(name) - 1 <= Len(d)
  BY <1>1, <1>2
<1>7. j \in Occurrences(name, d)
  BY <1>5, <1>6, Occurs
<1> QED BY <1>2, <1>7

\* A name that stands in full reads as itself.
LEMMA OccurrenceReads ==
  ASSUME NEW name \in CStrings, NEW b \in Seq(Cell), NEW j \in Occurrences(name, b)
  PROVE  NameAt(b, j) = Text(name)
BY OccurrenceIs, NameAtEq

\* A pointer to it reads as the same name.
LEMMA PointerReads ==
  ASSUME NEW name \in CStrings, NEW b \in Seq(Cell), NEW j \in Occurrences(name, b),
         NEW r \in 1 .. Len(b), b[r] = Pointer(j), j + Len(name) - 1 < r
  PROVE  r \in Fields(b) /\ FieldEnd(b, r) = r /\ NameAt(b, r) = Text(name)
<1>1. Len(b) \in Nat
  BY LenProperties
<1>2. b[r][1] = "ptr" /\ b[r][2] = j /\ b[r] # End
  BY DEF Pointer, End
<1>3. IsField(b, r, r)
  BY <1>2 DEF IsField
<1>4. r \in Fields(b) /\ FieldEnd(b, r) = r
  BY <1>1, <1>3, FieldIs
<1>5. j \in Fields(b) /\ FieldEnd(b, j) = j + Len(name) - 1
  BY OccurrenceIs
<1>6. LeadsBack(b, r)
  BY <1>2, <1>5 DEF LeadsBack
<1>7. NameAt(b, r) = Labels(b, r, r) \o NameAt(b, j)
  BY <1>2, <1>4, <1>6, NameAtEq
<1>8. Labels(b, r, r) = <<>>
  BY DEF Labels
<1>9. NameAt(b, j) = Text(name) /\ Text(name) \in Seq(STRING)
  BY OccurrenceReads, TextType
<1>10. <<>> \o Text(name) = Text(name)
  BY <1>9, ConcatEmptySeq
<1> QED BY <1>4, <1>7, <1>8, <1>9, <1>10

\* A record behind b, as the finished buffer s has it.
LEMMA RecordWithin ==
  ASSUME NEW b, NEW e, NameField(e), NEW t, NEW d, NEW c, Behind(c, b, e, t, d),
         NEW s \in Seq(Cell), Begins(c, s)
  PROVE  /\ Len(b) \in Nat /\ Len(e) \in Nat /\ Len(d) \in Nat /\ Len(s) \in Nat /\ Len(e) > 0
         /\ Len(b) + 1 \in Fields(s) /\ FieldEnd(s, Len(b) + 1) = Len(b) + Len(e)
         /\ Len(b) + Len(e) + 1 + Len(d) <= Len(s)
         /\ \A k \in 1 .. Len(e) : s[Len(b) + k] = e[k]
         /\ s[Len(b) + Len(e) + 1] = <<"rr", t, Len(d)>>
         /\ \A k \in 1 .. Len(d) : s[Len(b) + Len(e) + 1 + k] = d[k]
<1>1. /\ c \in Seq(Cell) /\ Len(b) \in Nat /\ Len(e) \in Nat /\ Len(d) \in Nat
      /\ Len(c) = Len(b) + Len(e) + 1 + Len(d)
      /\ Len(b) + 1 \in Fields(c) /\ FieldEnd(c, Len(b) + 1) = Len(b) + Len(e)
  BY DEF Behind
<1>2. \A k \in 1 .. Len(e) : c[Len(b) + k] = e[k]
  BY DEF Behind
<1>3. c[Len(b) + Len(e) + 1] = <<"rr", t, Len(d)>>
  BY DEF Behind
<1>4. \A k \in 1 .. Len(d) : c[Len(b) + Len(e) + 1 + k] = d[k]
  BY DEF Behind
<1>5. Begins(c, s)
  OBVIOUS
<1>6. Len(s) \in Nat /\ Len(e) > 0
  BY LenProperties DEF NameField
<1>7. Len(c) <= Len(s) /\ \A k \in 1 .. Len(c) : s[k] = c[k]
  BY <1>5 DEF Begins
<1>8. Len(b) + 1 \in Fields(s) /\ FieldEnd(s, Len(b) + 1) = Len(b) + Len(e)
  BY <1>1, <1>5, <1>6, FieldExtends
<1>9. ASSUME NEW k \in 1 .. Len(e) PROVE s[Len(b) + k] = e[k]
  <2>1. Len(b) + k \in 1 .. Len(c)
    BY <1>1
  <2> QED BY <1>2, <1>7, <2>1
<1>10. s[Len(b) + Len(e) + 1] = <<"rr", t, Len(d)>>
  <2>1. Len(b) + Len(e) + 1 \in 1 .. Len(c)
    BY <1>1
  <2> QED BY <1>3, <1>7, <2>1
<1>11. ASSUME NEW k \in 1 .. Len(d) PROVE s[Len(b) + Len(e) + 1 + k] = d[k]
  <2>1. Len(b) + Len(e) + 1 + k \in 1 .. Len(c)
    BY <1>1
  <2> QED BY <1>4, <1>7, <2>1
<1>12. Len(b) + Len(e) + 1 + Len(d) <= Len(s)
  BY <1>1, <1>7
<1> QED BY <1>1, <1>6, <1>8, <1>9, <1>10, <1>11, <1>12

\* A whole name stands at r, or a pointer to one that is complete before r.
NameSent(name, s, r) ==
    \/ r \in Occurrences(name, s)
    \/ \E j \in Occurrences(name, s) : s[r] = Pointer(j) /\ j + Len(name) - 1 < r

\* What name_serialize wrote behind b when no stale byte took part.
LEMMA NameSentIs ==
  ASSUME NEW b \in Seq(Cell), NEW name \in CStrings, NEW e, NameField(e),
         e = name \/ \E j \in Occurrences(name, b) : e = <<Pointer(j)>>,
         NEW s \in Seq(Cell), Begins(b, s), Len(b) + Len(e) <= Len(s),
         \A k \in 1 .. Len(e) : s[Len(b) + k] = e[k]
  PROVE  NameSent(name, s, Len(b) + 1) /\ NameAt(s, Len(b) + 1) = Text(name)
<1> DEFINE r == Len(b) + 1
<1>1. Len(b) \in Nat /\ Len(s) \in Nat /\ Len(e) \in Nat /\ Len(name) \in Nat /\ Len(e) > 0
  BY LenProperties DEF NameField, CStrings
<1>2. r \in 1 .. Len(s)
  BY <1>1
<1>3. CASE e = name
  <2>1. ASSUME NEW k \in 1 .. Len(name) PROVE s[r + k - 1] = name[k]
    <3>1. r + k - 1 = Len(b) + k
      BY <1>1
    <3>2. s[Len(b) + k] = name[k]
      BY <1>3
    <3> QED BY <3>1, <3>2
  <2>2. r + Len(name) - 1 <= Len(s)
    BY <1>1, <1>3
  <2> HIDE DEF r
  <2>3. r \in Occurrences(name, s)
    BY <1>2, <2>1, <2>2, Occurs
  <2>4. NameAt(s, r) = Text(name)
    BY <2>3, OccurrenceReads
  <2> QED BY <2>3, <2>4 DEF NameSent, r
<1>4. CASE \E j \in Occurrences(name, b) : e = <<Pointer(j)>>
  <2>1. PICK j \in Occurrences(name, b) : e = <<Pointer(j)>>
    BY <1>4
  <2>2. j \in Occurrences(name, s) /\ j + Len(name) - 1 <= Len(b) /\ j \in 1 .. Len(b)
    BY OccurrenceExtends
  <2>3. Len(e) = 1 /\ e[1] = Pointer(j)
    BY <2>1
  <2>4. s[r] = Pointer(j)
    BY <2>3
  <2>5. j + Len(name) - 1 < r
    BY <1>1, <2>2
  <2> HIDE DEF r
  <2>6. NameAt(s, r) = Text(name)
    BY <1>2, <2>2, <2>4, <2>5, PointerReads
  <2> QED BY <2>2, <2>4, <2>5, <2>6 DEF NameSent, r
<1> QED BY <1>3, <1>4

\* The i-th record of the buffer: its name, then type and data as they were
\* in memory.
RecordOut(s, r, rr) ==
    LET h == FieldEnd(s, r) + 1
    IN /\ r \in Fields(s) /\ h \in Nat /\ h > 0
       /\ NameSent(rr.name, s, r) /\ NameAt(s, r) = Text(rr.name)
       /\ h + Len(rr.rdata) <= Len(s)
       /\ s[h] = <<"rr", rr.type, Len(rr.rdata)>>
       /\ \A k \in 1 .. Len(rr.rdata) : s[h + k] = rr.rdata[k]

\* It is so.
LEMMA RecordSent ==
  ASSUME NEW w, NEW S, NEW n, NEW p, NEW B, NEW st, Sent(w, S, n, p, B, st),
         ~(st /\ TextMeetsName(p)), NEW i \in 1 .. n
  PROVE  RecordOut(B[n], Len(B[i - 1]) + 1, p.rrs[i])
<1> DEFINE b == B[i - 1]
           s == B[n]
           rr == p.rrs[i]
           t == rr.type
           d == rr.rdata
           name == rr.name
<1>1. /\ n \in Nat /\ b \in Seq(Cell) /\ i - 1 \in 0 .. n /\ i \in 0 .. n
      /\ name \in CStrings /\ t \in RTypes /\ d \in Seq(Cell)
  BY StageIs DEF Parsed
<1>2. PICK e : NameField(e) /\ NameOut(e, name, b, st) /\ B[i] = With(b, e, t, d)
  BY StageIs
<1>3. s \in Seq(Cell)
  BY SameQuestion
<1>4. Begins(B[i], s)
  BY <1>1, StageBegins
<1>5. Begins(b, s)
  BY <1>1, StageBegins
<1>6. e = name \/ \E j \in Occurrences(name, b) : e = <<Pointer(j)>>
  <2>1. ~st \/ Unfinished(name, b) = {}
    BY NothingUnfinished
  <2> HIDE DEF b, name
  <2> QED BY <1>2, <2>1 DEF NameOut
<1> DEFINE c == B[i]
<1> HIDE DEF b, s, t, d, name
<1>a. Behind(With(b, e, t, d), b, e, t, d)
  BY <1>1, <1>2, BehindIs
<1>b. Behind(c, b, e, t, d) /\ Begins(c, s)
  BY <1>2, <1>4, <1>a
<1> HIDE DEF c
<1>7. /\ Len(b) \in Nat /\ Len(e) \in Nat /\ Len(d) \in Nat /\ Len(s) \in Nat /\ Len(e) > 0
      /\ Len(b) + 1 \in Fields(s) /\ FieldEnd(s, Len(b) + 1) = Len(b) + Len(e)
      /\ Len(b) + Len(e) + 1 + Len(d) <= Len(s)
      /\ \A k \in 1 .. Len(e) : s[Len(b) + k] = e[k]
      /\ s[Len(b) + Len(e) + 1] = <<"rr", t, Len(d)>>
      /\ \A k \in 1 .. Len(d) : s[Len(b) + Len(e) + 1 + k] = d[k]
  BY <1>2, <1>3, <1>b, RecordWithin
<1>8. Len(b) + Len(e) <= Len(s)
  BY <1>7
<1>9. NameSent(name, s, Len(b) + 1) /\ NameAt(s, Len(b) + 1) = Text(name)
  BY <1>1, <1>2, <1>3, <1>5, <1>6, <1>7, <1>8, NameSentIs
<1> DEFINE r == Len(b) + 1
           h == Len(b) + Len(e) + 1
<1>10. FieldEnd(s, r) + 1 = h /\ h \in Nat /\ h > 0
  BY <1>7
<1>11. /\ r \in Fields(s) /\ NameSent(name, s, r) /\ NameAt(s, r) = Text(name)
       /\ h + Len(d) <= Len(s) /\ s[h] = <<"rr", t, Len(d)>>
       /\ \A k \in 1 .. Len(d) : s[h + k] = d[k]
  BY <1>7, <1>9
<1> HIDE DEF r, h, rr
<1>12. RecordOut(s, r, rr)
  BY <1>10, <1>11 DEF RecordOut, t, d, name
<1> QED BY <1>12 DEF s, r, rr, b

\* A pointer in the name of a record leads to a whole name before it.
LEMMA PointerLeads ==
  ASSUME NEW name \in CStrings, NEW s \in Seq(Cell), NEW r, NameSent(name, s, r), s[r][1] = "ptr"
  PROVE  FieldEnd(s, s[r][2]) < r /\ s[FieldEnd(s, s[r][2])] = End
<1>1. r \notin Occurrences(name, s)
  <2> SUFFICES ASSUME r \in Occurrences(name, s) PROVE FALSE
    OBVIOUS
  <2>1. r \in Fields(s) /\ s[FieldEnd(s, r)] = End
    BY OccurrenceIs
  <2>2. Len(s) \in Nat
    BY LenProperties
  <2>3. FieldEnd(s, r) \in r .. Len(s) /\ IsField(s, r, FieldEnd(s, r)) /\ r \in 1 .. Len(s)
    BY <2>1, <2>2, FieldProps
  <2>4. CASE FieldEnd(s, r) = r
    BY <2>1, <2>4 DEF End
  <2>5. CASE FieldEnd(s, r) # r
    <3>1. r \in r .. FieldEnd(s, r) - 1
      BY <2>2, <2>3, <2>5
    <3> QED BY <2>3, <3>1 DEF IsField
  <2> QED BY <2>4, <2>5
<1>2. PICK j \in Occurrences(name, s) : s[r] = Pointer(j) /\ j + Len(name) - 1 < r
  BY <1>1 DEF NameSent
<1>3. s[r][2] = j
  BY <1>2 DEF Pointer
<1>4. FieldEnd(s, j) = j + Len(name) - 1 /\ s[FieldEnd(s, j)] = End
  BY OccurrenceIs
<1> QED BY <1>2, <1>3, <1>4

\* Two packets with the same question, whose name ends in cell F.
Shared(w, s, F) ==
    /\ w \in Seq(Cell) /\ s \in Seq(Cell) /\ Len(w) \in Nat /\ Len(s) \in Nat
    /\ F \in Nat /\ F > 0 /\ F + 1 <= Len(w) /\ F + 1 <= Len(s)
    /\ \A k \in 1 .. F + 1 : s[k] = w[k]
    /\ IsField(w, 1, F) /\ w[F] = End /\ w[F + 1] = <<"q", "A">>

\* The buffer has the question of the packet that came.
LEMMA SharedIs ==
  ASSUME NEW w, NEW S, NEW n, NEW p, NEW B, NEW st, Sent(w, S, n, p, B, st)
  PROVE  Shared(w, B[n], FieldEnd(w, 1))
BY SameQuestion DEF Shared

\* No record is inside the question.
LEMMA BehindQuestion ==
  ASSUME NEW w, NEW s, NEW F, Shared(w, s, F), NEW h \in Nat, h > 0, s[h][1] = "rr"
  PROVE  h > F
<1> SUFFICES ASSUME h <= F PROVE FALSE
  BY DEF Shared
<1>1. h \in 1 .. F + 1 /\ h \in 1 .. F /\ s[h] = w[h]
  BY DEF Shared
<1>2. CASE h = F
  BY <1>1, <1>2 DEF Shared, End
<1>3. CASE h # F
  <2>1. h \in 1 .. F - 1
    BY <1>1, <1>3 DEF Shared
  <2> QED BY <1>1, <2>1 DEF Shared, IsField
<1> QED BY <1>2, <1>3

\* A name that begins in the question is the same in both.
LEMMA QuestionNames ==
  ASSUME NEW w, NEW s, NEW F, Shared(w, s, F), NEW q \in Fields(w), q <= F + 1
  PROVE  q \in Fields(s) /\ FieldEnd(s, q) = F /\ NameAt(s, q) = NameAt(w, q)
<1>1. /\ w \in Seq(Cell) /\ s \in Seq(Cell) /\ Len(w) \in Nat /\ Len(s) \in Nat
      /\ F \in Nat /\ F > 0 /\ F + 1 <= Len(w) /\ F + 1 <= Len(s)
      /\ w[F] = End /\ w[F + 1] = <<"q", "A">>
  BY DEF Shared
<1>2. \A k \in 1 .. F + 1 : s[k] = w[k]
  BY DEF Shared
<1>3. \A k \in 1 .. F - 1 : w[k][1] = "label"
  BY DEF Shared, IsField
<1> DEFINE e == FieldEnd(w, q)
<1>4. q \in 1 .. Len(w) /\ e \in q .. Len(w) /\ IsField(w, q, e)
  BY <1>1, FieldProps
<1>5. q # F + 1
  <2> SUFFICES ASSUME q = F + 1 PROVE FALSE
    OBVIOUS
  <2>1. w[q][1] = "q"
    BY <1>1
  <2>2. CASE e = q
    BY <1>4, <2>1, <2>2 DEF IsField
  <2>3. CASE e # q
    <3> HIDE DEF e
    <3>1. q \in q .. e - 1
      BY <1>1, <1>4, <2>3
    <3> QED BY <1>4, <2>1, <3>1 DEF IsField
  <2> QED BY <2>2, <2>3
<1>6. q \in Nat /\ q > 0 /\ q <= F
  BY <1>1, <1>4, <1>5
<1>7. IsField(w, q, F)
  <2>1. \A k \in q .. F - 1 : k \in 1 .. F - 1
    BY <1>1, <1>6
  <2>2. w[F][1] = "end"
    BY <1>1 DEF End
  <2> QED BY <1>3, <2>1, <2>2 DEF IsField
<1>8. IsField(s, q, F)
  <2>1. \A k \in q .. F - 1 : k \in 1 .. F + 1
    BY <1>1, <1>6
  <2>2. F \in 1 .. F + 1
    BY <1>1
  <2> QED BY <1>2, <1>7, <2>1, <2>2 DEF IsField
<1>9. q \in 1 .. Len(w) /\ q \in 1 .. Len(s) /\ F \in q .. Len(w) /\ F \in q .. Len(s)
  BY <1>1, <1>6
<1>10. FieldEnd(w, q) = F
  BY <1>1, <1>7, <1>9, FieldIs
<1>11. q \in Fields(s) /\ FieldEnd(s, q) = F
  BY <1>1, <1>8, <1>9, FieldIs
<1>12. s[F] = End
  <2>1. F \in 1 .. F + 1
    BY <1>1
  <2> QED BY <1>1, <1>2, <2>1
<1>13. NameAt(w, q) = Labels(w, q, F)
  BY <1>1, <1>10, NameAtEq
<1>14. NameAt(s, q) = Labels(s, q, F)
  BY <1>1, <1>11, <1>12, NameAtEq
<1>15. \A j \in 1 .. F - q : s[q + j - 1] = w[q + j - 1]
  <2>1. \A j \in 1 .. F - q : q + j - 1 \in 1 .. F + 1
    BY <1>1, <1>6
  <2> QED BY <1>2, <2>1
<1>16. Labels(s, q, F) = Labels(w, q, F)
  BY <1>15 DEF Labels
<1> QED BY <1>11, <1>13, <1>14, <1>16

\* A name of m cells was copied from x to y; its pointer, if it has one,
\* leads into the question.
Copied(w, s, F, x, y, m) ==
    /\ x \in Fields(w) /\ y \in Nat /\ m \in Nat /\ y > F /\ y + m - 1 <= Len(s)
    /\ FieldEnd(w, x) = x + m - 1 /\ \A j \in 1 .. m : s[y + j - 1] = w[x + j - 1]
    /\ s[y + m - 1][1] = "ptr" => s[y + m - 1][2] <= F + 1

\* It reads the same.
LEMMA CopiedName ==
  ASSUME NEW w, NEW s, NEW F, Shared(w, s, F), Legal(w), NEW x, NEW y, NEW m,
         Copied(w, s, F, x, y, m)
  PROVE  FieldEnd(s, y) = y + m - 1 /\ NameAt(s, y) = NameAt(w, x)
<1> DEFINE e == x + m - 1
           f == y + m - 1
<1>0. /\ x \in Fields(w) /\ y \in Nat /\ m \in Nat /\ y > F /\ y + m - 1 <= Len(s)
      /\ FieldEnd(w, x) = x + m - 1
      /\ s[y + m - 1][1] = "ptr" => s[y + m - 1][2] <= F + 1
  BY DEF Copied
<1>a. \A j \in 1 .. m : s[y + j - 1] = w[x + j - 1]
  BY DEF Copied
<1>1. /\ w \in Seq(Cell) /\ s \in Seq(Cell) /\ Len(w) \in Nat /\ Len(s) \in Nat /\ F \in Nat /\ F > 0
  BY DEF Shared
<1>2. x \in 1 .. Len(w) /\ e \in x .. Len(w) /\ IsField(w, x, e)
  BY <1>0, <1>1, FieldProps
<1>3. m > 0 /\ x \in Nat /\ e \in Nat /\ f \in Nat /\ f \in y .. Len(s) /\ y \in 1 .. Len(s)
      /\ e - x = m - 1 /\ f - y = m - 1 /\ e \in 1 .. Len(w) /\ f > F
  BY <1>0, <1>1, <1>2
<1>4. s[f] = w[e]
  <2>1. m \in 1 .. m
    BY <1>0, <1>3
  <2> QED BY <1>a, <2>1
<1>5. IsField(s, y, f)
  <2>1. ASSUME NEW k \in y .. f - 1 PROVE s[k][1] = "label"
    <3>1. k - y + 1 \in 1 .. m /\ y + (k - y + 1) - 1 = k /\ x + (k - y + 1) - 1 \in x .. e - 1
      BY <1>0, <1>3
    <3>2. s[y + (k - y + 1) - 1] = w[x + (k - y + 1) - 1]
      BY <1>a, <3>1
    <3>3. w[x + (k - y + 1) - 1][1] = "label"
      BY <1>2, <3>1 DEF IsField
    <3> QED BY <3>1, <3>2, <3>3
  <2>2. s[f][1] \in {"end", "ptr"}
    BY <1>2, <1>4 DEF IsField
  <2> QED BY <2>1, <2>2 DEF IsField
<1>6. FieldEnd(w, x) = e
  BY <1>0
<1>7. Labels(s, y, f) = Labels(w, x, e)
  <2>1. \A j \in 1 .. m - 1 : s[y + j - 1] = w[x + j - 1]
    BY <1>0, <1>a, <1>3
  <2> QED BY <1>3, <2>1 DEF Labels
<1> HIDE DEF e, f
<1>8. y \in Fields(s) /\ FieldEnd(s, y) = f
  BY <1>0, <1>1, <1>3, <1>5, FieldIs
<1>9. CASE w[e] = End
  <2>1. NameAt(w, x) = Labels(w, x, e)
    BY <1>0, <1>1, <1>6, <1>9, NameAtEq
  <2>2. NameAt(s, y) = Labels(s, y, f)
    BY <1>1, <1>4, <1>8, <1>9, NameAtEq
  <2> QED BY <1>7, <1>8, <2>1, <2>2 DEF f
<1>10. CASE w[e] # End
  <2> DEFINE q == w[e][2]
  <2>1. w[e] \in Cell
    BY <1>1, <1>3, ElementOfSeq
  <2>2. w[e][1] = "ptr"
    BY <1>2, <1>10, <2>1, CellKinds DEF IsField
  <2>3. LeadsBack(w, e)
    BY <1>3, <2>2 DEF Legal
  <2>4. q \in Fields(w) /\ q <= F + 1
    <3>1. s[f][1] = "ptr" => s[f][2] <= F + 1
      BY <1>0 DEF f
    <3> QED BY <1>4, <2>2, <2>3, <3>1 DEF LeadsBack
  <2> HIDE DEF q
  <2>5. q \in Fields(s) /\ FieldEnd(s, q) = F /\ NameAt(s, q) = NameAt(w, q)
    BY <2>4, QuestionNames
  <2>6. s[f][2] = q /\ s[f] # End
    BY <1>4, <1>10 DEF q
  <2>7. LeadsBack(s, f)
    BY <1>3, <2>5, <2>6 DEF LeadsBack
  <2>8. NameAt(w, x) = Labels(w, x, e) \o NameAt(w, q)
    BY <1>0, <1>1, <1>6, <1>10, <2>3, NameAtEq DEF q
  <2>9. NameAt(s, y) = Labels(s, y, f) \o NameAt(s, q)
    BY <1>1, <1>8, <2>6, <2>7, NameAtEq
  <2> QED BY <1>7, <1>8, <2>5, <2>8, <2>9 DEF f
<1> QED BY <1>9, <1>10

\* What Reading says of the rdata of the record with its type in cell h.
DataRead(b, h) ==
    IF b[h][2] \in {"A", "TXT"} THEN <<SubSeq(b, h + 1, h + b[h][3])>>
    ELSE <<NameAt(b, h + 1), SubSeq(b, FieldEnd(b, h + 1) + 1, h + b[h][3])>>

\* d stands in b behind cell h.
Holds(b, h, d) ==
    /\ b \in Seq(Cell) /\ d \in Seq(Cell) /\ h \in Nat /\ Len(d) \in Nat /\ Len(b) \in Nat
    /\ h > 0 /\ h + Len(d) <= Len(b)
    /\ \A k \in 1 .. Len(d) : b[h + k] = d[k]

\* Then the cells behind h are d.
LEMMA HoldsIs ==
  ASSUME NEW b, NEW h, NEW d, Holds(b, h, d)
  PROVE  SubSeq(b, h + 1, h + Len(d)) = d
<1> DEFINE v == SubSeq(b, h + 1, h + Len(d))
           p == h + 1
           q == h + Len(d)
<1>1. /\ b \in Seq(Cell) /\ d \in Seq(Cell) /\ h \in Nat /\ Len(d) \in Nat /\ Len(b) \in Nat
      /\ p \in 1 .. Len(b) + 1 /\ q \in p - 1 .. Len(b) /\ q - p + 1 = Len(d)
  BY DEF Holds
<1>2. \A k \in 1 .. Len(d) : b[p + k - 1] = d[k]
  <2>1. \A k \in 1 .. Len(d) : p + k - 1 = h + k
    BY <1>1
  <2> QED BY <2>1 DEF Holds
<1> HIDE DEF p, q
<1>3. /\ SubSeq(b, p, q) \in Seq(Cell) /\ Len(SubSeq(b, p, q)) = q - p + 1
      /\ \A k \in 1 .. q - p + 1 : SubSeq(b, p, q)[k] = b[p + k - 1]
  BY <1>1, SubCells
<1>4. v = SubSeq(b, p, q)
  BY DEF p, q
<1> HIDE DEF v
<1>5. v \in Seq(Cell) /\ Len(v) = Len(d) /\ \A k \in 1 .. Len(v) : v[k] = d[k]
  BY <1>1, <1>2, <1>3, <1>4
<1>6. v = d
  BY <1>1, <1>5, SeqEqual
<1> QED BY <1>6 DEF v

\* A text or an address was copied.
LEMMA PlainRead ==
  ASSUME NEW b, NEW h, NEW d, NEW t \in {"A", "TXT"}, Holds(b, h, d), b[h][2] = t, b[h][3] = Len(d)
  PROVE  DataRead(b, h) = <<d>>
<1>1. SubSeq(b, h + 1, h + Len(d)) = d
  BY HoldsIs
<1> QED BY <1>1 DEF DataRead

\* rdata that is one name written in full.
LEMMA NameRead ==
  ASSUME NEW b, NEW h, NEW d \in CStrings, Holds(b, h, d), b[h][2] \notin {"A", "TXT"},
         b[h][3] = Len(d)
  PROVE  DataRead(b, h) = <<Text(d), <<>>>>
<1> DEFINE p == h + 1
<1>1. /\ b \in Seq(Cell) /\ h \in Nat /\ Len(d) \in Nat /\ Len(b) \in Nat /\ Len(d) > 0
      /\ h > 0 /\ h + Len(d) <= Len(b)
  BY DEF Holds, CStrings
<1>2. p \in 1 .. Len(b) /\ p + Len(d) - 1 = h + Len(d) /\ p + Len(d) - 1 <= Len(b)
  BY <1>1
<1>3. \A k \in 1 .. Len(d) : b[p + k - 1] = d[k]
  <2>1. \A k \in 1 .. Len(d) : p + k - 1 = h + k
    BY <1>1
  <2> QED BY <2>1 DEF Holds
<1> HIDE DEF p
<1>4. p \in Occurrences(d, b)
  BY <1>1, <1>2, <1>3, Occurs
<1>5. NameAt(b, p) = Text(d)
  BY <1>1, <1>4, OccurrenceReads
<1>6. FieldEnd(b, p) = h + Len(d)
  BY <1>1, <1>2, <1>4, OccurrenceIs
<1>7. SubSeq(b, FieldEnd(b, p) + 1, h + Len(d)) = <<>>
  <2>1. h + Len(d) < h + Len(d) + 1 /\ h + Len(d) \in Int /\ h + Len(d) + 1 \in Int
    BY <1>1
  <2> QED BY <1>1, <1>6, <2>1, SubSeqEmpty
<1> QED BY <1>5, <1>7 DEF DataRead, p

\* A packet the upstream sent, with one name as the rdata.
LEMMA FieldRead ==
  ASSUME NEW b \in Seq(Cell), NEW h \in Nat, h > 0, b[h][2] \notin {"A", "TXT"}, b[h][3] \in Nat,
         h + b[h][3] <= Len(b), FieldEnd(b, h + 1) = h + b[h][3]
  PROVE  DataRead(b, h) = <<NameAt(b, h + 1), <<>>>>
<1> DEFINE q == h + b[h][3]
<1>1. q < q + 1 /\ q \in Int /\ q + 1 \in Int
  OBVIOUS
<1>2. FieldEnd(b, h + 1) = q
  OBVIOUS
<1> HIDE DEF q
<1>3. SubSeq(b, q + 1, q) = <<>>
  BY <1>1, SubSeqEmpty
<1> QED BY <1>2, <1>3 DEF DataRead, q

\* A name and one cell behind it.
LEMMA TailRead ==
  ASSUME NEW b, NEW h, NEW d, Holds(b, h, d), b[h][2] \notin {"A", "TXT"}, b[h][3] = Len(d),
         Len(d) > 1, FieldEnd(b, h + 1) = h + Len(d) - 1
  PROVE  DataRead(b, h) = <<NameAt(b, h + 1), <<d[Len(d)]>>>>
<1> DEFINE q == h + Len(d)
           v == SubSeq(b, q, q)
<1>1. /\ b \in Seq(Cell) /\ d \in Seq(Cell) /\ h \in Nat /\ Len(d) \in Nat /\ Len(b) \in Nat
      /\ q \in 1 .. Len(b) + 1 /\ q \in q - 1 .. Len(b) /\ q - q + 1 = 1 /\ q + 1 - 1 = q
      /\ Len(d) \in 1 .. Len(d)
  BY DEF Holds
<1>2. b[q] = d[Len(d)] /\ d[Len(d)] \in Cell
  BY <1>1, ElementOfSeq DEF Holds
<1>3. FieldEnd(b, h + 1) + 1 = q
  BY <1>1
<1> HIDE DEF q
<1>4. /\ v \in Seq(Cell) /\ Len(v) = q - q + 1
      /\ \A k \in 1 .. q - q + 1 : v[k] = b[q + k - 1]
  BY <1>1, SubCells
<1> DEFINE u == <<d[Len(d)]>>
<1>5. u \in Seq(Cell) /\ Len(u) = 1 /\ u[1] = d[Len(d)]
  BY <1>2, One
<1> HIDE DEF v, u
<1>6. Len(v) = 1 /\ v[1] = d[Len(d)]
  <2>1. Len(v) = 1 /\ 1 \in 1 .. q - q + 1
    BY <1>1, <1>4
  <2>2. v[1] = b[q + 1 - 1]
    BY <1>4, <2>1
  <2> QED BY <1>1, <1>2, <2>1, <2>2
<1>7. Len(u) = Len(v) /\ \A k \in 1 .. Len(u) : u[k] = v[k]
  BY <1>5, <1>6
<1>8. u = v
  BY <1>4, <1>5, <1>7, SeqEqual
<1> QED BY <1>3, <1>8 DEF DataRead, q, v, u

\* Copied rdata has no pointer behind the question, whose name ends in F.
InQuestion(d, F) == \A k \in 1 .. Len(d) : d[k][1] = "ptr" => d[k][2] <= F + 1

\* A record and what became of it: cells g and h hold their types.
Kept(w, g, s, h, rr) ==
    /\ w \in Seq(Cell) /\ g \in Nat /\ g > 0 /\ w[g][2] = rr.type /\ w[g][3] \in Nat
    /\ g + w[g][3] <= Len(w) /\ Rdata(w, g + 1, rr.type, w[g][3])
    /\ rr.type \in {"CNAME", "NS"} => rr.rdata \in CStrings /\ Text(rr.rdata) = NameAt(w, g + 1)
    /\ rr.type \notin {"CNAME", "NS"} => Holds(w, g, rr.rdata) /\ Len(rr.rdata) = w[g][3]
    /\ Holds(s, h, rr.rdata) /\ s[h] = <<"rr", rr.type, Len(rr.rdata)>>

\* Its rdata keeps its meaning.
LEMMA SameData ==
  ASSUME NEW w, NEW s, NEW F, Shared(w, s, F), Legal(w), NEW g, NEW h, NEW rr,
         Kept(w, g, s, h, rr), rr.type \in {"A", "TXT", "CNAME", "NS", "SOA"},
         rr.type \notin {"CNAME", "NS"} => InQuestion(rr.rdata, F)
  PROVE  DataRead(s, h) = DataRead(w, g)
<1> DEFINE t == rr.type
           d == rr.rdata
           n == w[g][3]
<1>1. /\ w \in Seq(Cell) /\ g \in Nat /\ g > 0 /\ w[g][2] = t /\ n \in Nat /\ g + n <= Len(w)
      /\ Rdata(w, g + 1, t, n) /\ Holds(s, h, d) /\ s[h][2] = t /\ s[h][3] = Len(d)
  BY DEF Kept
<1>2. CASE t \in {"A", "TXT"}
  <2>1. Holds(w, g, d) /\ n = Len(d)
    BY <1>2 DEF Kept
  <2> HIDE DEF t, d
  <2>2. DataRead(w, g) = <<d>>
    BY <1>1, <1>2, <2>1, PlainRead
  <2>3. DataRead(s, h) = <<d>>
    BY <1>1, <1>2, PlainRead
  <2> QED BY <2>2, <2>3
<1>3. CASE t \in {"CNAME", "NS"}
  <2>1. d \in CStrings /\ Text(d) = NameAt(w, g + 1) /\ t \notin {"A", "TXT"}
    BY <1>3 DEF Kept
  <2>2. FieldEnd(w, g + 1) = g + 1 + n - 1
    BY <1>1, <1>3 DEF Rdata
  <2> HIDE DEF t, d
  <2>3. FieldEnd(w, g + 1) = g + w[g][3]
    BY <1>1, <2>2
  <2>4. DataRead(s, h) = <<Text(d), <<>>>>
    BY <1>1, <2>1, NameRead
  <2>5. DataRead(w, g) = <<NameAt(w, g + 1), <<>>>>
    BY <1>1, <2>1, <2>3, FieldRead
  <2> QED BY <2>1, <2>4, <2>5
<1>4. CASE t = "SOA"
  <2>1. Holds(w, g, d) /\ n = Len(d) /\ InQuestion(d, F)
    BY <1>4 DEF Kept
  <2>2. g + 1 \in Fields(w) /\ FieldEnd(w, g + 1) = g + 1 + n - 2 /\ n > 1
    BY <1>1, <1>4 DEF Rdata
  <2>3. s[h][1] = "rr" /\ h \in Nat /\ h > 0
    BY DEF Kept, Holds
  <2>4. h > F
    BY <2>3, BehindQuestion
  <2> HIDE DEF t, d, n
  <2>5. /\ h + Len(d) <= Len(s) /\ Len(s) \in Nat /\ F \in Nat /\ Len(d) \in Nat
        /\ (\A k \in 1 .. Len(d) : s[h + k] = d[k]) /\ \A k \in 1 .. Len(d) : w[g + k] = d[k]
    BY <1>1, <2>1 DEF Holds, Shared
  <2> DEFINE x == g + 1
             y == h + 1
             m == n - 1
  <2>6. /\ y \in Nat /\ m \in Nat /\ y > F /\ y + m - 1 <= Len(s) /\ FieldEnd(w, x) = x + m - 1
        /\ m \in 1 .. Len(d) /\ y + m - 1 = h + m
    <3>1. /\ g \in Nat /\ h \in Nat /\ n \in Nat /\ F \in Nat /\ Len(d) \in Nat /\ Len(s) \in Nat
          /\ n > 1 /\ n = Len(d) /\ h > F /\ h + Len(d) <= Len(s)
      BY <1>1, <2>1, <2>2, <2>3, <2>4, <2>5
    <3>2. g + 1 + n - 2 = (g + 1) + (n - 1) - 1
      BY <3>1
    <3>3. FieldEnd(w, x) = x + m - 1
      BY <2>2, <3>2
    <3>4. /\ y \in Nat /\ m \in Nat /\ y > F /\ y + m - 1 <= Len(s)
          /\ m \in 1 .. Len(d) /\ y + m - 1 = h + m
      BY <3>1
    <3> QED BY <3>3, <3>4
  <2>7. ASSUME NEW j \in 1 .. m PROVE s[y + j - 1] = w[x + j - 1]
    <3>1. y + j - 1 = h + j /\ x + j - 1 = g + j /\ j \in 1 .. Len(d)
      BY <1>1, <2>3, <2>6, <2>5
    <3> HIDE DEF x, y
    <3> QED BY <2>5, <3>1
  <2>8. s[y + m - 1][1] = "ptr" => s[y + m - 1][2] <= F + 1
    <3> HIDE DEF m, y
    <3>1. s[y + m - 1] = d[m]
      BY <2>5, <2>6
    <3> QED BY <2>1, <2>6, <3>1 DEF InQuestion
  <2>9. x \in Fields(w)
    BY <2>2
  <2> HIDE DEF x, y, m
  <2>a. /\ x \in Fields(w) /\ y \in Nat /\ m \in Nat /\ y > F /\ y + m - 1 <= Len(s)
        /\ FieldEnd(w, x) = x + m - 1 /\ \A j \in 1 .. m : s[y + j - 1] = w[x + j - 1]
        /\ s[y + m - 1][1] = "ptr" => s[y + m - 1][2] <= F + 1
    BY <2>6, <2>7, <2>8, <2>9
  <2>10. FieldEnd(s, y) = y + m - 1 /\ NameAt(s, y) = NameAt(w, x)
    <3>1. Copied(w, s, F, x, y, m)
      BY <2>a DEF Copied
    <3> QED BY <3>1, CopiedName
  <2>11. FieldEnd(s, h + 1) = h + Len(d) - 1 /\ FieldEnd(w, g + 1) = g + Len(d) - 1 /\ Len(d) > 1
    BY <1>1, <2>1, <2>2, <2>3, <2>10 DEF x, y, m
  <2>12. NameAt(s, h + 1) = NameAt(w, g + 1)
    BY <2>10 DEF x, y
  <2>13. t \notin {"A", "TXT"}
    BY <1>4
  <2>14. DataRead(s, h) = <<NameAt(s, h + 1), <<d[Len(d)]>>>>
    BY <1>1, <2>11, <2>13, TailRead
  <2>15. w[g][3] = Len(d)
    BY <2>1 DEF n
  <2>16. DataRead(w, g) = <<NameAt(w, g + 1), <<d[Len(d)]>>>>
    BY <1>1, <2>1, <2>11, <2>13, <2>15, TailRead
  <2> QED BY <2>12, <2>14, <2>16
<1> QED BY <1>2, <1>3, <1>4

\* Reading put together.
LEMMA ReadingIs ==
  ASSUME NEW b, NEW p, NEW h, h = FieldEnd(b, p) + 1
  PROVE  Reading(b, p) = [name |-> NameAt(b, p), type |-> b[h][2], rdata |-> DataRead(b, h)]
BY DEF Reading, DataRead

\* What was read, and what was written of it, are a record and what became
\* of it.
LEMMA KeptIs ==
  ASSUME NEW w \in Seq(Cell), NEW s \in Seq(Cell), NEW x, NEW next, IsRecord(w, x, next),
         NEW rr, Parsed(w, x, rr), NEW y, RecordOut(s, y, rr),
         NEW g, g = FieldEnd(w, x) + 1, NEW h, h = FieldEnd(s, y) + 1
  PROVE  Kept(w, g, s, h, rr)
<1> DEFINE d == rr.rdata
           n == w[g][3]
<1>1. x \in Fields(w) /\ n \in Nat /\ g + 1 + n <= Len(w) + 1 /\ Rdata(w, g + 1, w[g][2], n)
  BY DEF IsRecord, RecordAt
<1>2. Len(w) \in Nat /\ Len(s) \in Nat
  BY LenProperties
<1>3. FieldEnd(w, x) \in x .. Len(w) /\ x \in 1 .. Len(w)
  BY <1>1, <1>2, FieldProps
<1>4. g \in Nat /\ g > 0 /\ g + n <= Len(w)
  <2>1. n \in Nat /\ g + 1 + n <= Len(w) + 1 /\ Len(w) \in Nat
    BY <1>1, <1>2
  <2>2. g \in Nat /\ g > 0
    BY <1>2, <1>3
  <2> HIDE DEF n
  <2> QED BY <2>1, <2>2
<1>5. /\ w[g][2] = rr.type /\ d \in Seq(Cell)
      /\ rr.type \in {"CNAME", "NS"} => d \in CStrings /\ Text(d) = NameAt(w, g + 1)
      /\ rr.type \notin {"CNAME", "NS"} => d = SubSeq(w, g + 1, g + n) /\ Len(d) = n
  BY DEF Parsed
<1>6. Len(d) \in Nat
  BY <1>5, LenProperties
<1>7. /\ h \in Nat /\ h > 0 /\ h + Len(d) <= Len(s) /\ s[h] = <<"rr", rr.type, Len(d)>>
      /\ \A k \in 1 .. Len(d) : s[h + k] = d[k]
  BY DEF RecordOut
<1>8. Holds(s, h, d)
  BY <1>2, <1>5, <1>6, <1>7 DEF Holds
<1>9. ASSUME rr.type \notin {"CNAME", "NS"} PROVE Holds(w, g, d) /\ Len(d) = n
  <2> HIDE DEF n, d
  <2> DEFINE p == g + 1
             q == g + n
  <2>0. n \in Nat /\ Len(w) \in Nat /\ g \in Nat /\ g > 0 /\ g + n <= Len(w)
    BY <1>1, <1>2, <1>4
  <2>1. p \in 1 .. Len(w) + 1 /\ q \in p - 1 .. Len(w) /\ q - p + 1 = n
    BY <2>0
  <2>2. d = SubSeq(w, p, q) /\ Len(d) = n
    BY <1>5, <1>9
  <2> HIDE DEF p, q
  <2>3. \A j \in 1 .. q - p + 1 : SubSeq(w, p, q)[j] = w[p + j - 1]
    BY <2>1, SubCells
  <2>4. ASSUME NEW k \in 1 .. Len(d) PROVE w[g + k] = d[k]
    <3>1. p + k - 1 = g + k /\ k \in 1 .. q - p + 1
      BY <1>4, <2>1, <2>2 DEF p
    <3>2. d[k] = w[p + k - 1]
      BY <2>2, <2>3, <3>1
    <3> QED BY <3>1, <3>2
  <2> QED BY <1>2, <1>4, <1>5, <1>6, <2>2, <2>4 DEF Holds
<1> QED BY <1>1, <1>4, <1>5, <1>7, <1>8, <1>9 DEF Kept

\* Every record of the buffer means what the upstream said, but for copied
\* rdata that points behind the question.
LEMMA SameReading ==
  ASSUME NEW w, NEW S, NEW n, NEW p, NEW B, NEW st, Sent(w, S, n, p, B, st), Legal(w),
         ~(st /\ TextMeetsName(p)), NEW i \in 1 .. n,
         p.rrs[i].type \notin {"CNAME", "NS"} => InQuestion(p.rrs[i].rdata, FieldEnd(w, 1))
  PROVE  Reading(B[n], Len(B[i - 1]) + 1) = Reading(w, S[i])
<1> DEFINE s == B[n]
           rr == p.rrs[i]
           F == FieldEnd(w, 1)
           x == S[i]
           y == Len(B[i - 1]) + 1
           g == FieldEnd(w, x) + 1
           h == FieldEnd(s, y) + 1
<1>1. Shared(w, s, F) /\ w \in Seq(Cell) /\ s \in Seq(Cell)
  BY SharedIs, SameQuestion
<1>2. Parsed(w, x, rr) /\ IsRecord(w, x, S[i + 1]) /\ rr.type # "MX"
  BY StageIs
<1>3. RecordOut(s, y, rr)
  BY RecordSent
<1>4. rr.type \in {"A", "TXT", "CNAME", "NS", "SOA"}
  BY <1>2, WireAssumption DEF Parsed
<1>5. rr.type \notin {"CNAME", "NS"} => InQuestion(rr.rdata, F)
  OBVIOUS
<1> HIDE DEF s, rr, F, x, y
<1>6. Kept(w, g, s, h, rr)
  BY <1>1, <1>2, <1>3, KeptIs
<1>7. Reading(w, x) = [name |-> NameAt(w, x), type |-> w[g][2], rdata |-> DataRead(w, g)]
  BY ReadingIs
<1>8. Reading(s, y) = [name |-> NameAt(s, y), type |-> s[h][2], rdata |-> DataRead(s, h)]
  BY ReadingIs
<1>9. NameAt(s, y) = NameAt(w, x)
  BY <1>2, <1>3 DEF Parsed, RecordOut
<1> HIDE DEF g, h
<1>10. w[g][2] = s[h][2]
  BY <1>6 DEF Kept
<1>11. DataRead(s, h) = DataRead(w, g)
  BY <1>1, <1>4, <1>5, <1>6, SameData
<1>12. Reading(s, y) = Reading(w, x)
  BY <1>7, <1>8, <1>9, <1>10, <1>11
<1> QED BY <1>12 DEF s, x, y

\* Its pointers lead to whole names before them.
LEMMA PointersBack ==
  ASSUME NEW w, NEW S, NEW n, NEW p, NEW B, NEW st, Sent(w, S, n, p, B, st),
         ~(st /\ TextMeetsName(p)), NEW i \in 1 .. n, NEW r, r = Len(B[i - 1]) + 1,
         B[n][r][1] = "ptr"
  PROVE  FieldEnd(B[n], B[n][r][2]) < r /\ B[n][FieldEnd(B[n], B[n][r][2])] = End
<1> DEFINE s == B[n]
           name == p.rrs[i].name
<1>1. name \in CStrings /\ s \in Seq(Cell)
  BY StageIs, SameQuestion DEF Parsed
<1>2. NameSent(name, s, r)
  BY RecordSent DEF RecordOut
<1> HIDE DEF name
<1> QED BY <1>1, <1>2, PointerLeads

-----------------------------------------------------------------------------
(* The specification.                                                      *)

\* s is what pack_serialize makes of p.
WrittenAs(s, p, st) ==
    \E B : /\ Stages(B, p, st) /\ s = B[Len(p.rrs)]
           /\ \A i \in 0 .. Len(p.rrs) : B[i] \in Seq(Cell)

\* b is a packet of n records that can be read.
Answer(b, n) == Legal(b) /\ \E S : Laid(b, S, n)

\* The answer that is built is legal; what is in memory was read from it,
\* and what is in the buffer was written from that.
WireInv ==
    /\ count \in Nat
    /\ status = "empty" => count = 0
    /\ status # "empty" => Answer(wire, count)
    /\ status \in {"received", "sent", "dropped"} =>
          packet = pack_deserialize(wire, count) /\ ~HasMX(packet)
    /\ status \in {"sent", "dropped"} => WrittenAs(send_buf, packet, stale)

\* WireInv is inductive.
LEMMA WireInvHolds == Spec => []WireInv
<1>1. Init => WireInv
  BY DEF Init, WireInv
<1>2. WireInv /\ [Next]_vars => WireInv'
  <2> SUFFICES ASSUME WireInv, [Next]_vars PROVE WireInv'
    OBVIOUS
  <2>1. ASSUME NEW n \in QNames, Ask(n) PROVE WireInv'
    <3>1. n \in Seq(STRING)
      BY WireAssumption
    <3>2. Answer(CString(n) \o <<<<"q", "A">>>>, 0)
      BY <3>1, LaidQuestion DEF Answer
    <3>3. count' = 0 /\ status' = "building" /\ Answer(wire', count')
      BY <2>1, <3>2 DEF Ask, WireInv
    <3> QED BY <3>3 DEF WireInv
  <2>2. ASSUME NEW n \in Owners, NEW t \in RTypes, AddRecord(n, t) PROVE WireInv'
    <3>1. n \in Seq(STRING)
      BY WireAssumption
    <3>0. PICK e \in Encodings(wire, n) : \E d \in RdataOf(wire \o e, t) : wire' = With(wire, e, t, d)
      BY <2>2 DEF AddRecord, With
    <3>2. PICK d \in RdataOf(wire \o e, t) : wire' = With(wire, e, t, d)
      BY <3>0
    <3>3. Legal(wire) /\ \E S : Laid(wire, S, count)
      BY <2>2 DEF AddRecord, WireInv, Answer
    <3>4. PICK S : Laid(wire, S, count)
      BY <3>3
    <3>5. Answer(With(wire, e, t, d), count + 1)
      BY <3>1, <3>3, <3>4, LaidRecord DEF Answer
    <3>6. count' = count + 1 /\ count' \in Nat /\ status' = "building"
      BY <2>2 DEF AddRecord, WireInv
    <3> QED BY <3>2, <3>5, <3>6 DEF WireInv
  <2>3. ASSUME Receive PROVE WireInv'
    <3>1. /\ wire' = wire /\ count' = count /\ Answer(wire, count) /\ count \in Nat
          /\ status' \in {"refused", "undefined", "received"}
      BY <2>3 DEF Receive, WireInv
    <3>2. status' = "received" => packet' = pack_deserialize(wire, count) /\ ~HasMX(packet')
      BY <2>3 DEF Receive
    <3>3. status' = "received" => ~HasMX(packet)'
      BY <3>2 DEF HasMX
    <3> QED BY <3>1, <3>2, <3>3 DEF WireInv
  <2>4. ASSUME packet_send PROVE WireInv'
    <3>1. /\ wire' = wire /\ count' = count /\ packet' = packet /\ stale' = stale
          /\ status' \in {"dropped", "sent"} /\ status = "received"
          /\ send_buf' = pack_serialize(packet)
      BY <2>4 DEF packet_send
    <3>2. /\ count \in Nat /\ Answer(wire, count)
          /\ packet = pack_deserialize(wire, count) /\ ~HasMX(packet)
      BY <3>1 DEF WireInv
    <3>3. PICK S : Laid(wire, S, count) /\ Legal(wire)
      BY <3>2 DEF Answer
    <3>4. InMemory(wire, S, count, packet)
      BY <3>2, <3>3, PacketIs
    <3>5. /\ packet.question \in Seq(Cell) /\ Len(packet.rrs) \in Nat
          /\ \A i \in 1 .. Len(packet.rrs) : Writable(packet.rrs[i])
      BY <3>2, <3>4 DEF InMemory, Parsed, Writable
    <3>6. WrittenAs(pack_serialize(packet), packet, stale)
      BY <3>5, WrittenIs DEF WrittenAs
    <3>7. ~HasMX(packet)'
      BY <3>1, <3>2 DEF HasMX
    <3>8. WrittenAs(send_buf', packet', stale')
      BY <3>1, <3>6
    <3> QED BY <3>1, <3>2, <3>7, <3>8 DEF WireInv
  <2>5. ASSUME UNCHANGED vars PROVE WireInv'
    BY <2>5 DEF vars, WireInv, HasMX
  <2> QED BY <2>1, <2>2, <2>3, <2>4, <2>5 DEF Next
<1> QED BY <1>1, <1>2, PTL DEF Spec

\* The parts of a packet that was sent.
LEMMA SentIs ==
  ASSUME WireInv, status = "sent"
  PROVE  /\ count \in Nat /\ Legal(wire)
         /\ \E S, B : Sent(wire, S, count, packet, B, stale) /\ send_buf = B[count]
<1>1. /\ count \in Nat /\ Answer(wire, count) /\ packet = pack_deserialize(wire, count)
      /\ ~HasMX(packet) /\ WrittenAs(send_buf, packet, stale)
  BY DEF WireInv
<1>2. PICK S : Laid(wire, S, count) /\ Legal(wire)
  BY <1>1 DEF Answer
<1>3. InMemory(wire, S, count, packet) /\ Len(packet.rrs) = count
  BY <1>1, <1>2, PacketIs DEF InMemory
<1>4. PICK B : /\ Stages(B, packet, stale) /\ send_buf = B[Len(packet.rrs)]
               /\ \A i \in 0 .. Len(packet.rrs) : B[i] \in Seq(Cell)
  BY <1>1 DEF WrittenAs
<1>5. Sent(wire, S, count, packet, B, stale) /\ send_buf = B[count]
  BY <1>1, <1>2, <1>3, <1>4 DEF Sent
<1> QED BY <1>1, <1>2, <1>5

\* The records of a packet laid out as S begin where S says.
LEMMA RecordsAre ==
  ASSUME NEW b, NEW S, count \in Nat, Laid(b, S, count)
  PROVE  /\ \A i \in 1 .. count : Records(b)[i] = S[i]
         /\ \A p \in Range(Records(b)) : \E i \in 1 .. count : p = S[i]
<1>1. \A i \in 1 .. count : i \in 1 .. count + 1
  OBVIOUS
<1>2. \A i \in 1 .. count : RecordCell(b, FieldEnd(b, 1) + 2, i) = S[i]
  BY <1>1, CellsOfRecords
<1>3. \A i \in 1 .. count : Records(b)[i] = S[i]
  BY <1>2 DEF Records
<1>4. DOMAIN Records(b) = 1 .. count
  BY DEF Records
<1> QED BY <1>3, <1>4 DEF Range

\* In every packet the relay sends, the name of a record is written in full
\* or as a pointer to a name without pointers that is complete before it
\* (name_serialize and find_previous_name): no reader follows it for ever.
\* Bytes of an earlier packet behind the cursor are the one exception.
THEOREM PointersLeadBack == Spec => []PointersGoBack
<1>1. WireInv => PointersGoBack
  <2> SUFFICES ASSUME WireInv, status = "sent", ~(stale /\ TextMeetsName(packet)),
                      NEW p \in Range(Records(send_buf)), send_buf[p][1] = "ptr"
               PROVE  /\ FieldEnd(send_buf, send_buf[p][2]) < p
                      /\ send_buf[FieldEnd(send_buf, send_buf[p][2])] = End
    BY DEF PointersGoBack
  <2>1. PICK S, B : Sent(wire, S, count, packet, B, stale) /\ send_buf = B[count]
    BY SentIs
  <2>2. count \in Nat
    BY SentIs
  <2>3. Laid(send_buf, Starts(B, count), count)
    BY <2>1, SentLaid
  <2>4. PICK i \in 1 .. count : p = Starts(B, count)[i]
    BY <2>2, <2>3, RecordsAre
  <2>5. p = Len(B[i - 1]) + 1
    BY <2>2, <2>4 DEF Starts
  <2>6. B[count][p][1] = "ptr"
    BY <2>1
  <2>7. FieldEnd(B[count], B[count][p][2]) < p /\ B[count][FieldEnd(B[count], B[count][p][2])] = End
    BY <2>1, <2>5, <2>6, PointersBack
  <2> QED BY <2>1, <2>7
<1> QED BY <1>1, WireInvHolds, PTL

\* However the upstream compressed its answer, each record the client gets
\* has the owner, the type and the data of the record that came
\* (pack_deserialize, then pack_serialize), but for copied rdata that points
\* behind the question.
THEOREM MeaningKept == Spec => []SameMeaning
<1>1. WireInv => SameMeaning
  <2> SUFFICES ASSUME WireInv, status = "sent", ~(stale /\ TextMeetsName(packet)),
                      NEW i \in 1 .. count, ~PointsBehindQuestion(packet.rrs[i])
               PROVE  Reading(send_buf, Records(send_buf)[i]) = Reading(wire, Records(wire)[i])
    BY DEF SameMeaning
  <2>1. PICK S, B : Sent(wire, S, count, packet, B, stale) /\ send_buf = B[count]
    BY SentIs
  <2>2. count \in Nat /\ Legal(wire)
    BY SentIs
  <2>3. Laid(send_buf, Starts(B, count), count)
    BY <2>1, SentLaid
  <2>4. Records(send_buf)[i] = Starts(B, count)[i]
    BY <2>2, <2>3, RecordsAre
  <2>5. Records(send_buf)[i] = Len(B[i - 1]) + 1
    BY <2>2, <2>4 DEF Starts
  <2>6. Laid(wire, S, count)
    BY <2>1 DEF Sent
  <2>7. Records(wire)[i] = S[i]
    BY <2>2, <2>6, RecordsAre
  <2> DEFINE d == packet.rrs[i].rdata
             F == FieldEnd(wire, 1)
  <2>8. ASSUME packet.rrs[i].type \notin {"CNAME", "NS"} PROVE InQuestion(d, F)
    <3>1. d \in Seq(Cell)
      BY <2>1, StageIs DEF Parsed
    <3>2. Len(packet.question) = F + 1 /\ F \in Nat
      BY <2>1, SameQuestion
    <3>3. \A k \in DOMAIN d : d[k][1] = "ptr" => ~(d[k][2] > F + 1)
      BY <2>8, <3>2 DEF PointsBehindQuestion
    <3> HIDE DEF d, F
    <3>4. ASSUME NEW k \in 1 .. Len(d), d[k][1] = "ptr" PROVE d[k][2] <= F + 1
      <4>1. k \in DOMAIN d /\ d[k] \in Cell
        BY <3>1, LenProperties, ElementOfSeq
      <4>2. d[k][2] \in Nat
        BY <3>4, <4>1, CellKinds
      <4> QED BY <3>2, <3>3, <3>4, <4>1, <4>2
    <3> QED BY <3>4 DEF InQuestion
  <2>9. Reading(B[count], Len(B[i - 1]) + 1) = Reading(wire, S[i])
    BY <2>1, <2>2, <2>8, SameReading
  <2> QED BY <2>1, <2>5, <2>7, <2>9
<1> QED BY <1>1, WireInvHolds, PTL
=============================================================================
