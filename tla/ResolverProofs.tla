--------------------------- MODULE ResolverProofs ---------------------------
(***************************************************************************)
(* Proofs about what the server answers, for every ip table, all names and *)
(* types, whatever the upstream servers say, and however time and the      *)
(* pruning daemon come between the lookups of a query.                     *)
(***************************************************************************)
EXTENDS Resolver, TLAPS

USE DEF cacheVars

-----------------------------------------------------------------------------
(* The inductive invariant.                                                *)

\* Types of what the decisions are made from.
ResolverTypeOK ==
    /\ value \in [Question -> Body \cup {None}]
    /\ use_cache \in BOOLEAN
    /\ pc \in {"idle", "pre", "lookup"}
    /\ pc # "idle" => query \in Queries
    /\ pc = "pre" => at \in Names
    /\ pending \in [RelayIds -> Question \cup {None}]
    /\ said \in [Question -> UpstreamReplies \cup {None}]

\* What is in the cache comes from the ip table, or from the last upstream
\* response that carried this question; the latter only when answers are
\* cached.
StoredInv ==
    \A k \in Question : value[k] # None =>
        \/ k \in DOMAIN IpTable /\ value[k] = IpTable[k]
        \/ use_cache /\ said[k] # None /\ said[k].body = value[k]

\* The questions that query_pre_validate has to look up for the query: its
\* name from label i on.
Above(i) == [name |-> SubSeq(query.question.name, i, Len(query.question.name)),
             type |-> query.question.type]

\* query_pre_validate is at label i, no name it has left blocks the query,
\* and the name itself, once left, passes the check.
WalkInv ==
    /\ pc = "pre" =>
          \E i \in 1 .. Len(query.question.name) + 1 :
             /\ i > 1 => i <= Len(query.question.name)
             /\ AtQuestion = Above(i)
             /\ \A j \in 1 .. i - 1 : ~HoldsBlock(Above(j))
    /\ pc = "lookup" =>
          \A a \in Ancestors(query.question.name) :
             ~HoldsBlock([name |-> a, type |-> query.question.type])
    /\ pc = "lookup" \/ (pc = "pre" /\ at # query.question.name) =>
          value[query.question] = None \/ ~FailsPreCheck(value[query.question])

ResolverInv == ResolverTypeOK /\ StoredInv /\ WalkInv

-----------------------------------------------------------------------------
(* Bytes and names.                                                        *)

\* memallz says yes when all bytes are zero.
LEMMA MemallzSees ==
  ASSUME NEW m \in Seq(0 .. 255), AllZero(m)
  PROVE  memallz(m)
<1>1. {i \in 1 .. Len(m) : m[i] # 0} = {}
  BY DEF AllZero
<1> QED BY <1>1 DEF memallz

\* The parent of a name from label i on is the name from label i + 1 on.
LEMMA ParentIsNext ==
  ASSUME NEW n \in Seq(Labels), NEW i \in 1 .. Len(n) + 1,
         i > 1 => i <= Len(n)
  PROVE  LET s == SubSeq(n, i, Len(n))
         IN /\ i = 1 => s = n
            /\ Len(s) > 1 => /\ i + 1 <= Len(n)
                             /\ Tail(s) = SubSeq(n, i + 1, Len(n))
            /\ ~(Len(s) > 1) => i >= Len(n)
<1> DEFINE s == SubSeq(n, i, Len(n))
<1>1. s \in Seq(Labels) /\ Len(s) = Len(n) - i + 1
  OBVIOUS
<1>2. i = 1 => s = n
  OBVIOUS
<1>3. ASSUME Len(s) > 1 
      PROVE  i + 1 <= Len(n) /\ Tail(s) = SubSeq(n, i + 1, Len(n))
  <2>1. i + 1 <= Len(n)
    BY <1>1, <1>3
  <2>2. SubSeq(n, i + 1, Len(n)) \in Seq(Labels)
        /\ Len(SubSeq(n, i + 1, Len(n))) = Len(n) - i
    BY <2>1
  <2>3. Tail(s) \in Seq(Labels) /\ Len(Tail(s)) = Len(n) - i
    <3>1. s # << >> /\ Len(n) \in Nat
      BY <1>3
    <3> HIDE DEF s
    <3>2. Tail(s) \in Seq(Labels) /\ Len(Tail(s)) = Len(s) - 1
      BY <1>1, <3>1
    <3> QED BY <1>1, <3>1, <3>2
  <2>4. ASSUME NEW j \in 1 .. Len(n) - i
        PROVE  Tail(s)[j] = SubSeq(n, i + 1, Len(n))[j]
    BY <1>1, <1>3, <2>1
  <2> QED BY <2>1, <2>2, <2>3, <2>4
<1> QED BY <1>1, <1>2, <1>3

-----------------------------------------------------------------------------
(* The cache under the operations of module LruCache.                      *)

\* An entry of the ip table never expires.
LEMMA TableNeverExpires ==
  ASSUME NEW k \in DOMAIN IpTable, value[k] = IpTable[k]
  PROVE  ~Cache!IsExpired(k)
  BY ResolverAssumption DEF Cache!IsExpired, is_entry_expired

\* A lookup returns an entry or leaves none under its question; the daemon
\* takes away what has expired.
LEMMA LookupSteps ==
  ASSUME ResolverTypeOK, NEW k \in Question
  PROVE  /\ Cache!Hit(k) => value' = value /\ value[k] # None
         /\ Cache!LookupFails(k) \/ Cache!Expire(k) =>
               /\ value' = [value EXCEPT ![k] = None]
               /\ value[k] # None => Cache!IsExpired(k)
<1>1. value \in [Question -> Body \cup {None}]
  BY DEF ResolverTypeOK
<1>2. Cache!Hit(k) => value' = value /\ value[k] # None
  BY DEF Cache!Hit, Cache!Held
<1>3. ASSUME Cache!Expire(k)
      PROVE  value' = [value EXCEPT ![k] = None] /\ Cache!IsExpired(k)
  BY <1>3 DEF Cache!Expire, Cache!Forget
<1>4. ASSUME Cache!LookupFails(k)
      PROVE  /\ value' = [value EXCEPT ![k] = None]
             /\ value[k] # None => Cache!IsExpired(k)
  <2>1. CASE k \notin Cache!Held /\ value' = value
    <3>1. value[k] = None
      BY <2>1 DEF Cache!Held
    <3>2. value = [value EXCEPT ![k] = None]
      BY <1>1, <3>1
    <3> QED BY <2>1, <3>1, <3>2
  <2>2. CASE Cache!IsExpired(k) /\ Cache!Forget(k)
    BY <2>2 DEF Cache!Forget
  <2> QED BY <1>4, <2>1, <2>2 DEF Cache!LookupFails
<1> QED BY <1>2, <1>3, <1>4

\* Storing an upstream's answer puts it under its question and takes at most
\* one other entry away.
LEMMA StoreStep ==
  ASSUME ResolverTypeOK, NEW k \in Question, NEW u \in UpstreamReplies,
         Cache!Store(k, u.body)
  PROVE  /\ value' \in [Question -> Body \cup {None}]
         /\ value'[k] = u.body
         /\ \A x \in Question : x # k => value'[x] = value[x] \/ value'[x] = None
<1>1. u.body \in Body
  BY DEF Body, UpstreamBodies
<1>2. value \in [Question -> Body \cup {None}]
  BY DEF ResolverTypeOK
<1>3. \E E, v : value' = [x \in Question |-> IF x = k THEN u.body
                                            ELSE IF E /\ x = v THEN None
                                            ELSE value[x]]
  BY DEF Cache!Store
<1> QED BY <1>1, <1>2, <1>3

\* A blocking entry of the ip table that is gone does not come back: what
\* the upstreams say has a time to live.
LEMMA NoUpstreamBlocks ==
  ASSUME NEW u \in UpstreamReplies, NEW k \in DOMAIN IpTable,
         IpTable[k] = u.body
  PROVE  ~\E rr \in IpTable[k].answers : AllZero(rr.rdata)
  BY ResolverAssumption DEF UpstreamBodies, Records

\* When entries only go, blocks only go.
LEMMA BlocksOnlyGo ==
  ASSUME ResolverTypeOK,
         \A x \in Question : value'[x] = value[x] \/ value'[x] = None
  PROVE  \A x : HoldsBlock(x)' => HoldsBlock(x)
<1> SUFFICES ASSUME NEW x, HoldsBlock(x)' PROVE HoldsBlock(x)
  OBVIOUS
<1>1. x \in DOMAIN IpTable /\ x \in Question /\ value'[x] = IpTable[x]
  BY ResolverAssumption DEF HoldsBlock
<1>2. IpTable[x] # None
  BY <1>1, ResolverAssumption DEF Body
<1> QED BY <1>1, <1>2 DEF HoldsBlock

\* A lookup that does not refuse the query leaves no block under the name.
LEMMA PassedDoesNotBlock ==
  ASSUME ResolverTypeOK, NEW k \in Question, value[k] = None \/ ~FailsPreCheck(value[k])
  PROVE  ~HoldsBlock(k)
<1> SUFFICES ASSUME HoldsBlock(k) PROVE FALSE
  OBVIOUS
<1>1. k \in DOMAIN IpTable /\ value[k] = IpTable[k] /\ IpTable[k] \in Body
  BY DEF HoldsBlock, Body
<1>2. value[k] # None
  BY <1>1, ResolverAssumption
<1>3. PICK rr \in IpTable[k].answers : AllZero(rr.rdata)
  BY DEF HoldsBlock
<1>4. rr \in Records(IpTable[k])
  BY <1>3 DEF Records
<1>5. rr.type \in {"A", "AAAA"} /\ rr.rdata \in Seq(0 .. 255)
  BY <1>1, <1>4, ResolverAssumption
<1>6. BlockedAddress(rr)
  BY <1>3, <1>5, MemallzSees DEF BlockedAddress
<1> QED BY <1>1, <1>2, <1>4, <1>6 DEF FailsPreCheck

\* What the cache holds, when entries only go.
LEMMA StoredStays ==
  ASSUME ResolverTypeOK, StoredInv, UNCHANGED <<said, use_cache>>,
         \A x \in Question : value'[x] = value[x] \/ value'[x] = None
  PROVE  StoredInv'
  BY DEF StoredInv

\* The walk, when nothing of it changes and entries only go.
LEMMA WalkStays ==
  ASSUME ResolverTypeOK, WalkInv, UNCHANGED <<pc, query, at>>,
         \A x \in Question : value'[x] = value[x] \/ value'[x] = None
  PROVE  WalkInv'
<1>1. \A x : HoldsBlock(x)' => HoldsBlock(x)
  BY BlocksOnlyGo
<1>2. \A i : Above(i)' = Above(i)
  BY DEF Above
<1>3. AtQuestion' = AtQuestion
  BY DEF AtQuestion
<1>4. ASSUME pc' = "pre"
      PROVE  \E i \in 1 .. Len(query.question.name) + 1 :
                /\ i > 1 => i <= Len(query.question.name)
                /\ AtQuestion' = Above(i)'
                /\ \A j \in 1 .. i - 1 : ~HoldsBlock(Above(j))'
  <2>1. PICK i \in 1 .. Len(query.question.name) + 1 :
           /\ i > 1 => i <= Len(query.question.name)
           /\ AtQuestion = Above(i)
           /\ \A j \in 1 .. i - 1 : ~HoldsBlock(Above(j))
    BY <1>4 DEF WalkInv
  <2>2. \A j : HoldsBlock(Above(j))' => HoldsBlock(Above(j))
    <3> TAKE j
    <3>1. HoldsBlock(Above(j))' => HoldsBlock(Above(j)')
      BY <1>1
    <3> QED BY <1>2, <3>1
  <2> QED BY <1>2, <1>3, <2>1, <2>2
<1>5. ASSUME pc' = "lookup", NEW a \in Ancestors(query.question.name)
      PROVE  ~HoldsBlock([name |-> a, type |-> query.question.type])'
  <2>1. ~HoldsBlock([name |-> a, type |-> query.question.type])
    BY <1>5 DEF WalkInv
  <2> QED BY <1>1, <2>1
<1>6. ASSUME pc' = "lookup" \/ (pc' = "pre" /\ at # query.question.name)
      PROVE  value'[query.question] = None \/ ~FailsPreCheck(value'[query.question])
  <2>1. query.question \in Question
    BY <1>6, ResolverAssumption DEF ResolverTypeOK, Query
  <2> QED BY <1>6, <2>1 DEF WalkInv
<1> QED BY <1>4, <1>5, <1>6 DEF WalkInv

-----------------------------------------------------------------------------
(* Each step keeps the invariant.                                          *)

\* The question being looked up is a question.
LEMMA LookedUp ==
  ASSUME ResolverTypeOK
  PROVE  /\ pc # "idle" => /\ query \in Query /\ query.question \in Question
                           /\ query.question.name \in Names
                           /\ query.question.name \in Seq(Labels)
         /\ pc = "pre" => AtQuestion \in Question
<1>1. pc # "idle" => query \in Query /\ query.question \in Question
  BY ResolverAssumption DEF ResolverTypeOK, Query
<1>2. pc # "idle" => query.question.name \in Names /\ query.question.type \in Types
  BY <1>1 DEF Question
<1>3. pc # "idle" => query.question.name \in Seq(Labels)
  BY <1>2, ResolverAssumption
<1>4. pc = "pre" => at \in Names
  BY DEF ResolverTypeOK
<1>5. pc = "pre" => AtQuestion \in Question
  BY <1>2, <1>4 DEF AtQuestion, Question
<1> QED BY <1>1, <1>2, <1>3, <1>5

\* Steps that end the handling of a query, or happen between two of them,
\* without storing anything.
LEMMA EndKeepsInv ==
  ASSUME ResolverInv, pc' = "idle", UNCHANGED <<use_cache, said>>,
         pending' \in [RelayIds -> Question \cup {None}],
         value' \in [Question -> Body \cup {None}],
         \A x \in Question : value'[x] = value[x] \/ value'[x] = None
  PROVE  ResolverInv'
<1>1. ResolverTypeOK'
  BY DEF ResolverInv, ResolverTypeOK
<1>2. StoredInv'
  BY StoredStays DEF ResolverInv
<1>3. WalkInv'
  BY DEF WalkInv
<1> QED BY <1>1, <1>2, <1>3 DEF ResolverInv

\* A query is taken up: its own name is looked at first.
LEMMA AcceptKeepsInv ==
  ASSUME ResolverInv, NEW q \in Queries, AcceptQuery(q)
  PROVE  ResolverInv'
<1>1. /\ pc' = "pre" /\ query' = q /\ at' = q.question.name
      /\ UNCHANGED <<value, use_cache, pending, said>>
  BY DEF AcceptQuery
<1>2. q.question \in Question /\ q.question.name \in Names
  BY ResolverAssumption DEF Query, Question
<1>3. q.question.name \in Seq(Labels)
  BY <1>2, ResolverAssumption
<1>4. ResolverTypeOK'
  BY <1>1, <1>2 DEF ResolverInv, ResolverTypeOK
<1>5. StoredInv'
  BY <1>1 DEF ResolverInv, StoredInv
<1>6. AtQuestion' = Above(1)'
  <2>1. SubSeq(q.question.name, 1, Len(q.question.name)) = q.question.name
    BY <1>3
  <2> QED BY <1>1, <2>1 DEF AtQuestion, Above
<1>7. 1 \in 1 .. Len(q.question.name) + 1
  BY <1>3
<1>8. WalkInv'
  BY <1>1, <1>6, <1>7 DEF WalkInv
<1> QED BY <1>4, <1>5, <1>8 DEF ResolverInv

\* query_pre_validate passes a name: on to its parent, or to the answer.
LEMMA PassKeepsInv == ASSUME ResolverInv, PrePasses PROVE ResolverInv'
<1> USE DEF ResolverInv
<1> DEFINE n == query.question.name
           t == query.question.type
<1>1. /\ pc = "pre" /\ UNCHANGED <<query, use_cache, pending, said>>
      /\ at' = get_parent_qname(at)
      /\ pc' = IF at' = None THEN "lookup" ELSE "pre"
  BY DEF PrePasses
<1>2. /\ query.question \in Question /\ n \in Names /\ n \in Seq(Labels)
      /\ AtQuestion \in Question
  BY <1>1, LookedUp
<1>3. value \in [Question -> Body \cup {None}]
  BY DEF ResolverTypeOK
<1>4. /\ value' = value \/ value' = [value EXCEPT ![AtQuestion] = None]
      /\ value'[AtQuestion] = None \/ ~FailsPreCheck(value'[AtQuestion])
  BY <1>2, <1>3, LookupSteps DEF PrePasses
<1>5. /\ value' \in [Question -> Body \cup {None}]
      /\ \A x \in Question : value'[x] = value[x] \/ value'[x] = None
  BY <1>2, <1>3, <1>4
<1>6. PICK i \in 1 .. Len(n) + 1 :
         /\ i > 1 => i <= Len(n)
         /\ AtQuestion = Above(i)
         /\ \A j \in 1 .. i - 1 : ~HoldsBlock(Above(j))
  BY <1>1 DEF WalkInv
<1> DEFINE s == SubSeq(n, i, Len(n))
<1>7. at = s
  BY <1>6 DEF AtQuestion, Above
<1>8. /\ i = 1 => at = n
      /\ Len(at) > 1 => i + 1 <= Len(n) /\ Tail(at) = SubSeq(n, i + 1, Len(n))
      /\ ~(Len(at) > 1) => i >= Len(n)
  BY <1>2, <1>6, <1>7, ParentIsNext
<1>9. at \in Names /\ None \notin Names
  BY <1>1, ResolverAssumption DEF ResolverTypeOK
<1>10. /\ pc' = "pre" => Len(at) > 1 /\ at' = Tail(at) /\ at' \in Names
       /\ pc' = "lookup" => ~(Len(at) > 1)
       /\ pc' \in {"pre", "lookup"}
  BY <1>1, <1>9, ResolverAssumption DEF get_parent_qname
<1>11. ResolverTypeOK'
  BY <1>1, <1>5, <1>10 DEF ResolverTypeOK
<1>12. StoredInv'
  BY <1>1, <1>5, StoredStays
<1>13. ~HoldsBlock(Above(i))'
  <2>1. ~HoldsBlock(AtQuestion) \/ value'[AtQuestion] = None
    BY <1>2, <1>4, <1>5, PassedDoesNotBlock
  <2>2. AtQuestion \in DOMAIN IpTable => IpTable[AtQuestion] # None
    BY ResolverAssumption DEF Body
  <2>3. \A x : HoldsBlock(x)' => HoldsBlock(x)
    BY <1>5, BlocksOnlyGo
  <2>4. Above(i)' = AtQuestion
    BY <1>1, <1>6 DEF Above
  <2>5. ~(AtQuestion \in DOMAIN IpTable /\ value'[AtQuestion] = IpTable[AtQuestion]
           /\ \E rr \in IpTable[AtQuestion].answers : AllZero(rr.rdata))
    <3>1. CASE value'[AtQuestion] = None
      BY <2>2, <3>1
    <3>2. CASE value'[AtQuestion] # None
      <4>1. ~HoldsBlock(AtQuestion) /\ value'[AtQuestion] = value[AtQuestion]
        BY <1>2, <1>5, <2>1, <3>2
      <4> QED BY <4>1 DEF HoldsBlock
    <3> QED BY <3>1, <3>2
  <2> QED BY <2>4, <2>5 DEF HoldsBlock
<1>14. \A j \in 1 .. i : ~HoldsBlock(Above(j))'
  <2> SUFFICES ASSUME NEW j \in 1 .. i PROVE ~HoldsBlock(Above(j))'
    OBVIOUS
  <2>1. CASE j = i
    BY <1>13, <2>1
  <2>2. CASE j # i
    <3>1. ~HoldsBlock(Above(j))
      BY <1>6, <2>2
    <3>2. Above(j)' = Above(j)
      BY <1>1 DEF Above
    <3>3. HoldsBlock(Above(j))' => HoldsBlock(Above(j)')
      BY <1>5, BlocksOnlyGo
    <3> QED BY <3>1, <3>2, <3>3
  <2> QED BY <2>1, <2>2
<1>15. ASSUME pc' = "pre"
       PROVE  \E k \in 1 .. Len(n) + 1 :
                 /\ k > 1 => k <= Len(n)
                 /\ AtQuestion' = Above(k)'
                 /\ \A j \in 1 .. k - 1 : ~HoldsBlock(Above(j))'
  <2>1. i + 1 <= Len(n) /\ at' = SubSeq(n, i + 1, Len(n))
    BY <1>8, <1>10, <1>15
  <2>2. AtQuestion' = Above(i + 1)'
    BY <1>1, <2>1 DEF AtQuestion, Above
  <2>3. i + 1 \in 1 .. Len(n) + 1 /\ (i + 1) - 1 = i
    BY <1>2, <2>1
  <2> QED BY <1>14, <2>1, <2>2, <2>3
<1>16. ASSUME pc' = "lookup", NEW a \in Ancestors(n)
       PROVE  ~HoldsBlock([name |-> a, type |-> t])'
  <2>1. PICK j \in 1 .. i : a = SubSeq(n, j, Len(n))
    <3>1. i >= Len(n) /\ i \in Int /\ i >= 1
      BY <1>8, <1>10, <1>16, <1>2
    <3>2. SubSeq(n, 1, Len(n)) = n
      BY <1>2
    <3>3. CASE a = n
      BY <3>1, <3>2, <3>3
    <3>4. CASE \E j \in 1 .. Len(n) : a = SubSeq(n, j, Len(n))
      BY <1>2, <3>1, <3>4
    <3> QED BY <1>16, <3>3, <3>4 DEF Ancestors
  <2>2. Above(j)' = [name |-> a, type |-> t]
    BY <1>1, <2>1 DEF Above
  <2>3. ~HoldsBlock(Above(j))'
    BY <1>14
  <2> QED BY <1>1, <2>2, <2>3 DEF HoldsBlock
<1>17. value'[query.question] = None \/ ~FailsPreCheck(value'[query.question])
  <2>1. CASE at = n
    <3>1. AtQuestion = query.question
      BY <1>2, <2>1 DEF AtQuestion, Question
    <3> QED BY <1>4, <3>1
  <2>2. CASE at # n
    <3>1. value[query.question] = None \/ ~FailsPreCheck(value[query.question])
      BY <1>1, <2>2 DEF WalkInv
    <3> QED BY <1>2, <1>5, <3>1
  <2> QED BY <2>1, <2>2
<1>18. WalkInv'
  BY <1>1, <1>15, <1>16, <1>17 DEF WalkInv
<1> QED BY <1>11, <1>12, <1>18

\* An upstream's answer comes back and is stored, or not.
LEMMA RelayAnswerKeepsInv ==
  ASSUME ResolverInv, NEW id \in RelayIds, NEW k \in Question,
         NEW u \in UpstreamReplies, RelayAnswer(id, k, u)
  PROVE  ResolverInv'
<1> USE DEF ResolverInv
<1>1. /\ pc = "idle" /\ UNCHANGED <<pc, use_cache>>
      /\ pending' = [pending EXCEPT ![id] = None]
      /\ said' = [said EXCEPT ![k] = u]
  BY DEF RelayAnswer
<1>3. /\ said \in [Question -> UpstreamReplies \cup {None}]
      /\ pending \in [RelayIds -> Question \cup {None}]
      /\ value \in [Question -> Body \cup {None}]
  BY DEF ResolverTypeOK
<1>4. /\ pending' \in [RelayIds -> Question \cup {None}]
      /\ said' \in [Question -> UpstreamReplies \cup {None}]
      /\ said'[k] = u /\ u # None
      /\ \A x \in Question : x # k => said'[x] = said[x]
  BY <1>1, <1>3, ResolverAssumption
<1>5. CASE use_cache /\ Cache!Store(k, u.body)
  <2>1. /\ value' \in [Question -> Body \cup {None}] /\ value'[k] = u.body
        /\ \A x \in Question : x # k => value'[x] = value[x] \/ value'[x] = None
    BY <1>5, StoreStep
  <2>2. ResolverTypeOK'
    BY <1>1, <1>4, <2>1 DEF ResolverTypeOK
  <2>3. StoredInv'
    <3> SUFFICES ASSUME NEW x \in Question, value'[x] # None
                 PROVE  \/ x \in DOMAIN IpTable /\ value'[x] = IpTable[x]
                        \/ use_cache' /\ said'[x] # None /\ said'[x].body = value'[x]
      BY DEF StoredInv
    <3>1. CASE x = k
      BY <1>1, <1>4, <1>5, <2>1, <3>1
    <3>2. CASE x # k
      BY <1>1, <1>4, <2>1, <3>2 DEF StoredInv
    <3> QED BY <3>1, <3>2
  <2> QED BY <1>1, <2>2, <2>3 DEF WalkInv
<1>6. CASE ~use_cache /\ UNCHANGED value
  <2>1. ResolverTypeOK'
    BY <1>1, <1>4, <1>6 DEF ResolverTypeOK
  <2>2. StoredInv'
    BY <1>1, <1>6 DEF StoredInv
  <2> QED BY <1>1, <2>1, <2>2 DEF WalkInv
<1> QED BY <1>5, <1>6 DEF RelayAnswer

\* The lookups that end the handling of a query, by what they do to the
\* cache.
LEMMA FinalLookup ==
  ASSUME ResolverInv,
         PreBlocks \/ AnswerFromCache \/ AnswerNothing \/ RelayQuery \/ RelayExhausted
  PROVE  /\ pc' = "idle" /\ UNCHANGED <<use_cache, said>>
         /\ pending' \in [RelayIds -> Question \cup {None}]
         /\ value' \in [Question -> Body \cup {None}]
         /\ \A x \in Question : value'[x] = value[x] \/ value'[x] = None
<1> USE DEF ResolverInv
<1>1. /\ value \in [Question -> Body \cup {None}]
      /\ pending \in [RelayIds -> Question \cup {None}]
  BY DEF ResolverTypeOK
<1>2. pc # "idle" /\ query.question \in Question
  BY LookedUp DEF PreBlocks, AnswerFromCache, AnswerNothing, RelayQuery, RelayExhausted
<1>3. pc' = "idle" /\ UNCHANGED <<use_cache, said>>
  BY DEF PreBlocks, AnswerFromCache, AnswerNothing, RelayQuery, RelayExhausted,
     Answer, pack_make_std_response_local
<1>4. pending' \in [RelayIds -> Question \cup {None}]
  <2>1. CASE RelayQuery
    BY <1>1, <1>2, <2>1 DEF RelayQuery
  <2>2. CASE ~RelayQuery
    BY <1>1, <2>2 DEF PreBlocks, AnswerFromCache, AnswerNothing, RelayExhausted,
       Answer, pack_make_std_response_local
  <2> QED BY <2>1, <2>2
<1>5. \E k \in Question : value' = value \/ value' = [value EXCEPT ![k] = None]
  <2>1. CASE PreBlocks
    BY <2>1, LookedUp, LookupSteps DEF PreBlocks
  <2>2. CASE ~PreBlocks
    BY <1>2, <2>2, LookupSteps
    DEF AnswerFromCache, AnswerNothing, RelayQuery, RelayExhausted
  <2> QED BY <2>1, <2>2
<1> QED BY <1>1, <1>3, <1>4, <1>5

\* Between queries: a query refused, an upstream that never answers.
LEMMA IdleKeepsInv ==
  ASSUME ResolverInv,
         \/ \E q \in Queries : RefuseQuery(q)
         \/ \E id \in RelayIds : RelayFails(id)
  PROVE  ResolverInv'
<1>1. /\ pc' = "idle" /\ UNCHANGED <<use_cache, said, value>>
      /\ pending' \in [RelayIds -> Question \cup {None}]
  BY DEF RefuseQuery, Answer, RelayFails, ResolverInv, ResolverTypeOK
<1>2. value' \in [Question -> Body \cup {None}]
  BY <1>1 DEF ResolverInv, ResolverTypeOK
<1> QED BY <1>1, <1>2, EndKeepsInv

\* Time and the daemon, in the middle of a query or not.
LEMMA OtherThreadKeepsInv ==
  ASSUME ResolverInv, Tick \/ \E k \in Question : Prune(k)
  PROVE  ResolverInv'
<1> USE DEF ResolverInv
<1>1. UNCHANGED <<use_cache, pc, query, at, pending, said>>
  BY DEF Tick, Prune
<1>2. /\ value' \in [Question -> Body \cup {None}]
      /\ \A x \in Question : value'[x] = value[x] \/ value'[x] = None
  <2>1. value \in [Question -> Body \cup {None}]
    BY DEF ResolverTypeOK
  <2>2. CASE Tick
    BY <2>1, <2>2 DEF Tick, Cache!Tick
  <2>3. CASE \E k \in Question : Prune(k)
    BY <2>1, <2>3, LookupSteps DEF Prune
  <2> QED BY <2>2, <2>3
<1>3. ResolverTypeOK'
  BY <1>1, <1>2 DEF ResolverTypeOK
<1> QED BY <1>1, <1>2, <1>3, StoredStays, WalkStays

\* The server has loaded its ip table.
LEMMA ResolverStart == Init => ResolverInv
<1> SUFFICES ASSUME Init PROVE ResolverInv
  OBVIOUS
<1>1. ResolverTypeOK
  BY DEF Init, ResolverTypeOK, Body
<1> QED BY <1>1 DEF Init, ResolverInv, StoredInv, WalkInv

\* Every step of the two threads and of time.
LEMMA ResolverStep == ResolverInv /\ [Next]_vars => ResolverInv'
<1> SUFFICES ASSUME ResolverInv, [Next]_vars PROVE ResolverInv'
  OBVIOUS
<1>1. CASE UNCHANGED vars
  BY <1>1, StoredStays, WalkStays DEF vars, ResolverInv, ResolverTypeOK
<1>2. CASE \E q \in Queries : AcceptQuery(q)
  BY <1>2, AcceptKeepsInv
<1>3. CASE PrePasses
  BY <1>3, PassKeepsInv
<1>4. CASE PreBlocks \/ AnswerFromCache \/ AnswerNothing \/ RelayQuery \/ RelayExhausted
  BY <1>4, FinalLookup, EndKeepsInv
<1>5. CASE \E id \in RelayIds, y \in Question, u \in UpstreamReplies :
               RelayAnswer(id, y, u)
  BY <1>5, RelayAnswerKeepsInv
<1>6. CASE \/ \E q \in Queries : RefuseQuery(q)
           \/ \E id \in RelayIds : RelayFails(id)
  BY <1>6, IdleKeepsInv
<1>7. CASE Tick \/ \E k \in Question : Prune(k)
  BY <1>7, OtherThreadKeepsInv
<1> QED BY <1>1, <1>2, <1>3, <1>4, <1>5, <1>6, <1>7 DEF Next

-----------------------------------------------------------------------------
(* What the server answers.                                                *)

\* A query under a blocked name never leaves the server, for every ip table,
\* whatever is evicted, pruned or answered while the name and its parents
\* are looked up one by one.
THEOREM BlockListHolds == Spec => []BlockedIsNotRelayed
<1>1. Init => BlockedIsNotRelayed
  BY DEF Init, BlockedIsNotRelayed, Relayed
<1>2. ResolverInv /\ BlockedIsNotRelayed /\ [Next]_vars => BlockedIsNotRelayed'
  <2> SUFFICES ASSUME ResolverInv, BlockedIsNotRelayed, [Next]_vars,
                      NEW k \in Relayed', NEW a \in Names, a \in Ancestors(k.name)
               PROVE  ~HoldsBlock([name |-> a, type |-> k.type])'
    BY DEF BlockedIsNotRelayed
  <2> DEFINE b == [name |-> a, type |-> k.type]
  <2>1. HoldsBlock(b)' => HoldsBlock(b)
    <3>1. CASE \E id \in RelayIds, y \in Question, u \in UpstreamReplies :
                   RelayAnswer(id, y, u)
      <4>1. PICK id \in RelayIds, y \in Question, u \in UpstreamReplies :
               RelayAnswer(id, y, u)
        BY <3>1
      <4>2. CASE UNCHANGED value
        BY <4>2 DEF HoldsBlock
      <4>3. CASE Cache!Store(y, u.body)
        <5>2. /\ value'[y] = u.body
              /\ \A x \in Question : x # y =>
                    value'[x] = value[x] \/ value'[x] = None
          BY <4>3, StoreStep DEF ResolverInv
        <5> SUFFICES ASSUME HoldsBlock(b)' PROVE HoldsBlock(b)
          OBVIOUS
        <5>3. /\ b \in DOMAIN IpTable /\ value'[b] = IpTable[b]
              /\ \E rr \in IpTable[b].answers : AllZero(rr.rdata)
          BY DEF HoldsBlock
        <5>4. b # y
          BY <5>2, <5>3, NoUpstreamBlocks
        <5>5. b \in Question /\ IpTable[b] # None
          BY <5>3, ResolverAssumption DEF Body
        <5> QED BY <5>2, <5>3, <5>4, <5>5 DEF HoldsBlock
      <4> QED BY <4>1, <4>2, <4>3 DEF RelayAnswer
    <3>2. ASSUME \A x \in Question : value'[x] = value[x] \/ value'[x] = None
          PROVE  HoldsBlock(b)' => HoldsBlock(b)
      BY <3>2, BlocksOnlyGo DEF ResolverInv
    <3>3. CASE PrePasses \/ \E x \in Question : Prune(x)
      <4>1. \E x \in Question : value' = value \/ value' = [value EXCEPT ![x] = None]
        BY <3>3, LookedUp, LookupSteps DEF PrePasses, Prune, ResolverInv
      <4> QED BY <3>2, <4>1 DEF ResolverInv, ResolverTypeOK
    <3>4. CASE PreBlocks \/ AnswerFromCache \/ AnswerNothing \/ RelayQuery
               \/ RelayExhausted
      BY <3>2, <3>4, FinalLookup
    <3>5. CASE \/ \E q \in Queries : RefuseQuery(q) \/ AcceptQuery(q)
               \/ \E id \in RelayIds : RelayFails(id)
               \/ Tick \/ UNCHANGED vars
      BY <3>2, <3>5 DEF RefuseQuery, AcceptQuery, RelayFails, Tick, Cache!Tick, vars
    <3> QED BY <3>1, <3>3, <3>4, <3>5 DEF Next
  <2>2. CASE k \in Relayed
    BY <2>1, <2>2 DEF BlockedIsNotRelayed
  <2>3. CASE k \notin Relayed
    <3>1. pending \in [RelayIds -> Question \cup {None}]
      BY DEF ResolverInv, ResolverTypeOK
    <3>2. CASE RelayQuery
      <4>1. PICK id \in RelayIds : pending' = [pending EXCEPT ![id] = query.question]
        BY <3>2 DEF RelayQuery
      <4>2. k = query.question
        BY <2>3, <3>1, <4>1 DEF Relayed
      <4>3. ~HoldsBlock(b)
        BY <3>2, <4>2 DEF RelayQuery, ResolverInv, WalkInv
      <4> QED BY <2>1, <4>3
    <3>3. ASSUME UNCHANGED pending PROVE FALSE
      BY <2>3, <3>3 DEF Relayed
    <3>4. ASSUME NEW id \in RelayIds, pending' = [pending EXCEPT ![id] = None]
          PROVE  FALSE
      BY <2>3, <3>1, <3>4 DEF Relayed
    <3>5. CASE \/ \E id \in RelayIds, y \in Question, u \in UpstreamReplies :
                      RelayAnswer(id, y, u)
               \/ \E id \in RelayIds : RelayFails(id)
      BY <3>4, <3>5 DEF RelayAnswer, RelayFails
    <3>6. CASE \/ \E q \in Queries : RefuseQuery(q) \/ AcceptQuery(q)
               \/ PreBlocks \/ PrePasses \/ AnswerFromCache \/ AnswerNothing
               \/ RelayExhausted \/ Tick \/ UNCHANGED vars
               \/ \E x \in Question : Prune(x)
      BY <3>3, <3>6 DEF RefuseQuery, AcceptQuery, PreBlocks, PrePasses,
         AnswerFromCache, AnswerNothing, RelayExhausted, Answer,
         pack_make_std_response_local, Tick, vars, Prune
    <3> QED BY <3>2, <3>5, <3>6 DEF Next
  <2> QED BY <2>2, <2>3
<1> QED BY <1>1, <1>2, ResolverStart, ResolverStep, PTL DEF Spec

\* The last reply changes only with a query that ends or one that begins.
LEMMA ReplySteps ==
  ASSUME [Next]_vars
  PROVE  \/ UNCHANGED <<reply, said>>
         \/ reply' = None
         \/ PreBlocks \/ AnswerFromCache
         \/ /\ reply'.from \in {"refused", "nothing", "failed", "upstream"}
<1>1. CASE UNCHANGED vars \/ Tick \/ \E k \in Question : Prune(k)
  BY <1>1 DEF vars, Tick, Prune
<1>2. CASE PrePasses \/ RelayQuery
  BY <1>2 DEF PrePasses, RelayQuery
<1>3. CASE \E q \in Queries : AcceptQuery(q)
  BY <1>3 DEF AcceptQuery
<1>4. CASE \E q \in Queries : RefuseQuery(q)
  BY <1>4 DEF RefuseQuery, Answer
<1>5. CASE AnswerNothing \/ RelayExhausted
  BY <1>5 DEF AnswerNothing, RelayExhausted, Answer
<1>6. CASE \/ \E id \in RelayIds, y \in Question, u \in UpstreamReplies :
                  RelayAnswer(id, y, u)
           \/ \E id \in RelayIds : RelayFails(id)
  BY <1>6 DEF RelayAnswer, RelayFails
<1> QED BY <1>1, <1>2, <1>3, <1>4, <1>5, <1>6 DEF Next

\* The check of the answer section after the lookup never finds anything
\* that the check before it let pass.
THEOREM PreCheckIsEnough == Spec => []PreCheckSuffices
<1>1. Init => PreCheckSuffices
  BY DEF Init, PreCheckSuffices
<1>2. ResolverInv /\ PreCheckSuffices /\ [Next]_vars => PreCheckSuffices'
  <2> SUFFICES ASSUME ResolverInv, PreCheckSuffices, [Next]_vars
               PROVE  PreCheckSuffices'
    OBVIOUS
  <2>1. CASE AnswerFromCache
    <3>1. query.question \in Question /\ pc = "lookup"
      BY <2>1, LookedUp DEF AnswerFromCache, ResolverInv
    <3>2. value[query.question] # None
      BY <2>1, <3>1, LookupSteps DEF AnswerFromCache, ResolverInv
    <3>3. ~FailsPreCheck(value[query.question])
      BY <3>1, <3>2 DEF ResolverInv, WalkInv
    <3>4. ~FailsPostCheck(value[query.question])
      BY <3>3 DEF FailsPreCheck, FailsPostCheck, Records
    <3>5. reply'.from = "cache"
      BY <2>1, <3>4 DEF AnswerFromCache, pack_make_std_response_local, Answer
    <3> QED BY <3>5 DEF PreCheckSuffices
  <2>2. CASE PreBlocks
    BY <2>2 DEF PreBlocks, Answer, PreCheckSuffices
  <2>3. CASE UNCHANGED <<reply, said>> \/ reply' = None
    BY <2>3 DEF PreCheckSuffices
  <2>4. CASE reply'.from \in {"refused", "nothing", "failed", "upstream"}
    BY <2>4 DEF PreCheckSuffices
  <2> QED BY <2>1, <2>2, <2>3, <2>4, ReplySteps
<1> QED BY <1>1, <1>2, ResolverStart, ResolverStep, PTL DEF Spec

\* The cache answers a question with the ip table's records or with those of
\* the last upstream response that carried that very question, though
\* responses are filed under whatever question they carry.
THEOREM CacheAnswersTruly == Spec => []CacheAnswersAsStored
<1>1. Init => CacheAnswersAsStored
  BY DEF Init, CacheAnswersAsStored
<1>2. ResolverInv /\ CacheAnswersAsStored /\ [Next]_vars => CacheAnswersAsStored'
  <2> SUFFICES ASSUME ResolverInv, CacheAnswersAsStored, [Next]_vars
               PROVE  CacheAnswersAsStored'
    OBVIOUS
  <2>1. CASE AnswerFromCache
    <3> DEFINE k == query.question
    <3>1. k \in Question /\ value[k] # None /\ said' = said
      BY <2>1, LookedUp, LookupSteps
      DEF AnswerFromCache, ResolverInv, pack_make_std_response_local, Answer
    <3>2. \/ reply'.from = "post"
          \/ reply'.question = k /\ reply'.body = value[k]
      BY <2>1 DEF AnswerFromCache, pack_make_std_response_local, Answer
    <3>3. \/ k \in DOMAIN IpTable /\ value[k] = IpTable[k]
          \/ said[k] # None /\ said[k].body = value[k]
      BY <3>1 DEF ResolverInv, StoredInv
    <3> QED BY <3>1, <3>2, <3>3 DEF CacheAnswersAsStored
  <2>2. CASE PreBlocks
    BY <2>2 DEF PreBlocks, Answer, CacheAnswersAsStored
  <2>3. CASE UNCHANGED <<reply, said>> \/ reply' = None
    BY <2>3 DEF CacheAnswersAsStored
  <2>4. CASE reply'.from \in {"refused", "nothing", "failed", "upstream"}
    BY <2>4 DEF CacheAnswersAsStored
  <2> QED BY <2>1, <2>2, <2>3, <2>4, ReplySteps
<1> QED BY <1>1, <1>2, ResolverStart, ResolverStep, PTL DEF Spec

\* With the cache unused, the ip table stays as it was loaded.
THEOREM TableStays == Spec => []TableStaysUnlessCaching
<1>1. Init => TableStaysUnlessCaching
  BY ResolverAssumption DEF Init, TableStaysUnlessCaching
<1>2. ResolverInv /\ TableStaysUnlessCaching /\ [Next]_vars =>
         TableStaysUnlessCaching'
  <2> SUFFICES ASSUME ResolverInv, TableStaysUnlessCaching, [Next]_vars,
                      ~use_cache', NEW k \in DOMAIN IpTable
               PROVE  value'[k] = IpTable[k]
    BY DEF TableStaysUnlessCaching
  <2>1. use_cache' = use_cache
    BY DEF Next, RefuseQuery, AcceptQuery, PreBlocks, PrePasses, AnswerFromCache,
       AnswerNothing, RelayQuery, RelayExhausted, Answer,
       pack_make_std_response_local, RelayAnswer, RelayFails, Tick, Prune, vars
  <2>2. k \in Question /\ value[k] = IpTable[k] /\ IpTable[k] # None
    BY <2>1, ResolverAssumption DEF TableStaysUnlessCaching, Body
  <2>3. ~Cache!IsExpired(k)
    BY <2>2, TableNeverExpires
  <2>4. ASSUME NEW x \in Question,
               Cache!Hit(x) \/ Cache!LookupFails(x) \/ Cache!Expire(x)
        PROVE  value'[k] = IpTable[k]
    <3>1. \/ value' = value
          \/ /\ value' = [value EXCEPT ![x] = None]
             /\ value[x] # None => Cache!IsExpired(x)
      BY <2>4, LookupSteps DEF ResolverInv
    <3>2. CASE x = k
      BY <2>2, <2>3, <3>1, <3>2
    <3>3. CASE x # k
      BY <2>2, <3>1, <3>3 DEF ResolverInv, ResolverTypeOK
    <3> QED BY <3>2, <3>3
  <2>5. ASSUME UNCHANGED value PROVE value'[k] = IpTable[k]
    BY <2>2, <2>5
  <2>6. CASE PreBlocks \/ PrePasses
    BY <2>4, <2>6, LookedUp DEF PreBlocks, PrePasses, ResolverInv
  <2>7. CASE AnswerFromCache \/ AnswerNothing \/ RelayQuery \/ RelayExhausted
    BY <2>4, <2>7, LookedUp
    DEF AnswerFromCache, AnswerNothing, RelayQuery, RelayExhausted, ResolverInv
  <2>8. CASE \E x \in Question : Prune(x)
    BY <2>4, <2>8 DEF Prune
  <2>9. CASE \/ \E q \in Queries : RefuseQuery(q) \/ AcceptQuery(q)
             \/ \E id \in RelayIds, y \in Question, u \in UpstreamReplies :
                    RelayAnswer(id, y, u)
             \/ \E id \in RelayIds : RelayFails(id)
             \/ Tick \/ UNCHANGED vars
    BY <2>1, <2>5, <2>9
    DEF RefuseQuery, AcceptQuery, RelayAnswer, RelayFails, Tick, Cache!Tick, vars
  <2> QED BY <2>6, <2>7, <2>8, <2>9 DEF Next
<1> QED BY <1>1, <1>2, ResolverStart, ResolverStep, PTL DEF Spec
=============================================================================
