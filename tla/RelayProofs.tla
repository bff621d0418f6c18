---------------------------- MODULE RelayProofs ----------------------------
(***************************************************************************)
(* Proofs about the relay server for every number of ids, every set of     *)
(* queries, every timeout and every number of retries: the agreement of    *)
(* ids, sessions and tables, and, resting on it, what the server does for  *)
(* its clients and upstreams (which answers go to whom, how often a query  *)
(* is sent, how the load is spread and how long select() sleeps).          *)
(***************************************************************************)
EXTENDS RelayProps, IdPoolUse, FiniteSetTheorems, TLAPS

-----------------------------------------------------------------------------
(* The id pool, for every number of ids: its stack and marks agree, a      *)
(* free is never refused, and it implements the allocator of sets.         *)

\* The inductive invariant of the pool.
PoolInv == PoolTypeOK /\ FreeStackMatchesMarks

\* id_pool_init (id_factory.c:8-15) establishes it.
LEMMA PoolStart == id_pool_init => PoolInv
  BY IdMaxAssumption
  DEF id_pool_init, PoolInv, PoolTypeOK, FreeStackMatchesMarks, Ids

\* A successful id_alloc hands out an id that was free and keeps the
\* agreement of stack and marks.
LEMMA AllocStep ==
  ASSUME PoolInv, NEW id \in Ids, id_alloc(id)
  PROVE  /\ PoolInv'
         /\ st[id] = 0
         /\ st' = [st EXCEPT ![id] = 1]
<1>1. st[id] = 0 /\ st' = [st EXCEPT ![id] = 1]
  BY DEF PoolInv, PoolTypeOK, FreeStackMatchesMarks, id_alloc, Ids
<1>2. PoolTypeOK'
  BY IdMaxAssumption DEF PoolInv, PoolTypeOK, id_alloc, Ids
<1>3. FreeStackMatchesMarks'
  <2>1. /\ top \in 0 .. IdMax /\ top' = top - 1 /\ ids' = ids
        /\ st' = [st EXCEPT ![id] = 1] /\ id = ids[top]
    BY DEF PoolInv, PoolTypeOK, id_alloc, Ids
  <2>2. \A i, j \in 0 .. top' : ids'[i] = ids'[j] => i = j
    <3>1. \A i \in 0 .. top' : i \in 0 .. top
      BY <2>1, IdMaxAssumption
    <3> QED BY <3>1, <2>1 DEF PoolInv, FreeStackMatchesMarks
  <2>3. \A i \in 0 .. top' : st'[ids'[i]] = 0
    BY <2>1, IdMaxAssumption DEF PoolInv, PoolTypeOK, FreeStackMatchesMarks, Ids
  <2>4. ASSUME NEW k \in Ids, st'[k] = 0
        PROVE  \E i \in 0 .. top' : ids'[i] = k
    <3>1. k # id /\ st[k] = 0
      BY <2>1, <2>4 DEF PoolInv, PoolTypeOK
    <3>2. PICK i \in 0 .. top : ids[i] = k
      BY <3>1 DEF PoolInv, FreeStackMatchesMarks
    <3>3. i # top
      BY <3>1, <3>2, <2>1
    <3>4. i \in 0 .. top'
      BY <3>2, <3>3, <2>1, IdMaxAssumption
    <3> QED BY <3>2, <3>4, <2>1
  <2> QED BY <2>2, <2>3, <2>4 DEF FreeStackMatchesMarks
<1> QED BY <1>1, <1>2, <1>3 DEF PoolInv

\* Pigeonhole: with an id handed out the stack cannot be full, because its
\* entries are distinct and none of them is that id.
LEMMA StackNotFull ==
  ASSUME PoolInv, NEW id \in Ids, st[id] = 1
  PROVE  top < IdMax
<1>1. SUFFICES ASSUME top = IdMax PROVE FALSE
  BY IdMaxAssumption DEF PoolInv, PoolTypeOK
<1>2. ids \in [Ids -> Ids \ {id}]
  BY <1>1 DEF PoolInv, PoolTypeOK, FreeStackMatchesMarks, Ids
<1>3. IsFiniteSet(Ids) /\ Cardinality(Ids) = IdMax + 1
  BY FS_Interval, IdMaxAssumption DEF Ids
<1>4. IsFiniteSet(Ids \ {id}) /\ Cardinality(Ids \ {id}) = IdMax
  BY <1>3, FS_RemoveElement, IdMaxAssumption
<1>5. Cardinality(Ids \ {id}) < Cardinality(Ids)
  BY <1>3, <1>4, IdMaxAssumption
<1>6. \E x, y \in Ids : x # y /\ ids[x] = ids[y]
  BY <1>2, <1>3, <1>4, <1>5, FS_PigeonHole
<1> QED BY <1>1, <1>6 DEF PoolInv, FreeStackMatchesMarks, Ids

\* id_free of an id that is handed out always gives it back, of any other
\* id does nothing; either way stack and marks still agree.
LEMMA FreeStep ==
  ASSUME PoolInv, NEW id \in Ids, id_free(id)
  PROVE  /\ PoolInv'
         /\ st[id] = 1 => st' = [st EXCEPT ![id] = 0]
         /\ st[id] = 0 => UNCHANGED poolVars
<1>1. CASE st[id] = 1
  <2>1. top < IdMax
    BY <1>1, StackNotFull
  <2>2. /\ top \in -1 .. IdMax - 1 /\ top' = top + 1
        /\ st' = [st EXCEPT ![id] = 0] /\ ids' = [ids EXCEPT ![top + 1] = id]
    BY <1>1, <2>1, IdMaxAssumption DEF id_free, PoolInv, PoolTypeOK
  <2>3. PoolTypeOK'
    BY <2>2, IdMaxAssumption, SMTT(30) DEF PoolInv, PoolTypeOK, Ids
  <2>4. \A i \in 0 .. top : i \in Ids /\ ids[i] # id
    BY <1>1, <2>2, IdMaxAssumption
    DEF PoolInv, PoolTypeOK, FreeStackMatchesMarks, Ids
  <2>5. /\ \A i \in 0 .. top : ids'[i] = ids[i]
        /\ ids'[top'] = id
        /\ \A i \in 0 .. top' : i \in 0 .. top \/ i = top'
    BY <2>2, <2>4, IdMaxAssumption, SMTT(30) DEF PoolInv, PoolTypeOK, Ids
  <2>6. \A i, j \in 0 .. top' : ids'[i] = ids'[j] => i = j
    BY <2>4, <2>5 DEF PoolInv, FreeStackMatchesMarks
  <2>7. \A i \in 0 .. top' : st'[ids'[i]] = 0
    BY <2>2, <2>4, <2>5 DEF PoolInv, PoolTypeOK, FreeStackMatchesMarks
  <2>8. ASSUME NEW k \in Ids, st'[k] = 0
        PROVE  \E i \in 0 .. top' : ids'[i] = k
    <3>1. CASE k = id
      BY <3>1, <2>2, <2>5, IdMaxAssumption
    <3>2. CASE k # id
      <4>1. st[k] = 0
        BY <3>2, <2>2, <2>8 DEF PoolInv, PoolTypeOK
      <4>2. PICK i \in 0 .. top : ids[i] = k
        BY <4>1 DEF PoolInv, FreeStackMatchesMarks
      <4>3. i \in 0 .. top'
        BY <2>2, <4>2
      <4> QED BY <4>2, <4>3, <2>5
    <3> QED BY <3>1, <3>2
  <2> QED BY <1>1, <2>2, <2>3, <2>6, <2>7, <2>8
          DEF PoolInv, FreeStackMatchesMarks
<1>2. CASE st[id] = 0
  <2>1. UNCHANGED poolVars
    BY <1>2 DEF id_free
  <2> QED BY <1>2, <2>1
          DEF PoolInv, PoolTypeOK, FreeStackMatchesMarks, poolVars
<1> QED BY <1>1, <1>2 DEF PoolInv, PoolTypeOK

\* Every call keeps the agreement of stack and marks.
LEMMA PoolStep == PoolInv /\ [PoolNext]_useVars => PoolInv'
<1> SUFFICES ASSUME PoolInv, [PoolNext]_useVars PROVE PoolInv'
  OBVIOUS
<1>1. CASE UNCHANGED poolVars
  BY <1>1 DEF PoolInv, PoolTypeOK, FreeStackMatchesMarks, poolVars
<1>2. CASE \E id \in Ids : id_alloc(id)
  BY <1>2, AllocStep
<1>3. CASE \E id \in Ids : id_free(id)
  BY <1>3, FreeStep
<1> QED BY <1>1, <1>2, <1>3
        DEF PoolNext, useVars, AllocCall, FreeCall, id_alloc_fails

-----------------------------------------------------------------------------
\* Whatever the caller does with id_alloc and id_free, ids[0..top] holds
\* every free id once and none that is handed out.
THEOREM StackAndMarksAgree ==
  PoolSpec => [](PoolTypeOK /\ FreeStackMatchesMarks)
<1>1. PoolInv => PoolTypeOK /\ FreeStackMatchesMarks
  BY DEF PoolInv
<1>2. PoolInit => PoolInv
  BY PoolStart DEF PoolInit
<1> QED BY <1>1, <1>2, PoolStep, PTL DEF PoolSpec

\* The test top < 65535 of id_free never refuses the holder of an id.
THEOREM HoldersCanFree == PoolSpec => []FreeIsNeverRefused
<1>1. PoolInv => FreeIsNeverRefused
  BY StackNotFull DEF FreeIsNeverRefused
<1>2. PoolInit => PoolInv
  BY PoolStart DEF PoolInit
<1> QED BY <1>1, <1>2, PoolStep, PTL DEF PoolSpec

\* The pool implements the allocator of sets of ids: id_alloc hands out an
\* id nobody holds and fails only when every id is held, id_free takes
\* exactly the freed id back.
THEOREM PoolImplementsAllocator == PoolSpec => ImplementsAllocator
<1>1. PoolInit => PoolInv /\ Allocator!Init
  BY PoolStart DEF PoolInit, id_pool_init, Allocator!Init, Held
<1>2. ASSUME PoolInv, [PoolNext]_useVars
      PROVE  [Allocator!Next]_<<Held, got>>
  <2>1. CASE UNCHANGED useVars
    BY <2>1 DEF useVars, poolVars, Held
  <2>2. CASE id_alloc_fails /\ got' = Failed
    <3>1. \A id \in Ids : st[id] = 1
      BY <1>2, <2>2 DEF PoolInv, PoolTypeOK, FreeStackMatchesMarks, id_alloc_fails
    <3>2. Held = Ids /\ Held' = Held
      BY <3>1, <2>2 DEF Held, id_alloc_fails, poolVars
    <3> QED BY <2>2, <3>2 DEF Allocator!Next, Allocator!AllocFails
  <2>3. ASSUME NEW id \in Ids, id_alloc(id), got' = id PROVE Allocator!Next
    <3>1. id \notin Held /\ Held' = Held \cup {id}
      BY <1>2, <2>3, AllocStep DEF Held, PoolInv, PoolTypeOK
    <3> QED BY <2>3, <3>1 DEF Allocator!Next, Allocator!Alloc
  <2>4. ASSUME NEW id \in Ids, FreeCall(id) PROVE Allocator!Next
    <3>1. Held' = Held \ {id}
      <4>1. CASE st[id] = 1
        BY <1>2, <2>4, <4>1, FreeStep DEF Held, PoolInv, PoolTypeOK, FreeCall
      <4>2. CASE st[id] = 0
        BY <1>2, <2>4, <4>2, FreeStep DEF Held, poolVars, FreeCall
      <4> QED BY <1>2, <4>1, <4>2 DEF PoolInv, PoolTypeOK
    <3> QED BY <2>4, <3>1 DEF Allocator!Next, Allocator!Free, FreeCall
  <2> QED BY <1>2, <2>1, <2>2, <2>3, <2>4 DEF PoolNext, AllocCall
<1> QED BY <1>1, <1>2, PoolStep, PTL
        DEF PoolSpec, ImplementsAllocator, Allocator!Spec

-----------------------------------------------------------------------------
(* The relay server.                                                       *)

USE DEF poolVars, sessionVars, loopVars, netVars, upVars, history

-----------------------------------------------------------------------------
(* Type correctness, action by action.                                     *)

\* Reply appends one outcome to one query's history.
LEMMA ReplyType ==
  ASSUME fate \in [Queries -> Seq(Outcomes)], NEW q \in Queries,
         NEW ok \in BOOLEAN, NEW o \in Outcomes, Reply(q, ok, o)
  PROVE  fate' \in [Queries -> Seq(Outcomes)]
<1> DEFINE x == IF ok THEN o ELSE "dropped"
<1>1. x \in Outcomes
  BY DEF Outcomes
<1>2. Append(fate[q], x) \in Seq(Outcomes)
  BY <1>1
<1>3. fate' = [fate EXCEPT ![q] = Append(fate[q], x)]
  BY DEF Reply
<1> QED BY <1>2, <1>3

\* SendUpstream moves the cursor and the counters within their types.
LEMMA SendType ==
  ASSUME TypeOK, NEW id \in Ids, NEW q \in Queries, NEW ok \in BOOLEAN,
         SendUpstream(id, q, ok)
  PROVE  /\ next_upstream' \in 0 .. Upstreams
         /\ picks' \in [1 .. Upstreams -> Nat]
         /\ attempts' \in [Queries -> Nat]
         /\ wire' \in SUBSET [id : Ids, q : Queries]
<1>1. next_upstream' \in 0 .. Upstreams /\ picks' \in [1 .. Upstreams -> Nat]
  BY RelayAssumption DEF TypeOK, SendUpstream, pick_upstream
<1>2. attempts' \in [Queries -> Nat]
  BY DEF TypeOK, SendUpstream
<1>3. wire' \in SUBSET [id : Ids, q : Queries]
  BY DEF TypeOK, SendUpstream
<1> QED BY <1>1, <1>2, <1>3

\* session_wait stores a session with a fresh timestamp.
LEMMA WaitType ==
  ASSUME TypeOK, NEW id \in Ids, NEW q \in Queries,
         NEW r \in -(CharMax + 1) .. CharMax, session_wait(id, q, r)
  PROVE  /\ sessions' \in [Ids -> Session \cup {NoSession}]
         /\ sessions_queue' \in SUBSET Ids
<1>1. [q |-> q, retry_times |-> r, elapse |-> 0] \in Session
  BY RelayAssumption DEF Session, ElapseCap
<1> QED BY <1>1 DEF TypeOK, session_wait

\* An open session's fields have their types.
LEMMA LiveType ==
  ASSUME TypeOK, NEW id \in Live
  PROVE  /\ id \in Ids
         /\ sessions[id] \in Session
         /\ sessions[id].q \in Queries
         /\ sessions[id].retry_times \in -(CharMax + 1) .. CharMax
         /\ sessions[id].elapse \in 0 .. request_timeout + 1
  BY DEF TypeOK, Live, Session, ElapseCap

-----------------------------------------------------------------------------
(* The tables and the pool under the operations of the session factory.    *)

\* Freeing a session object.
LEMMA CloseLive ==
  ASSUME TypeOK, NEW id \in Ids, NEW key, session_close(id, key)
  PROVE  /\ Live' = Live \ {id}
         /\ sessions' \in [Ids -> Session \cup {NoSession}]
         /\ sessions_queue' \in SUBSET Ids
         /\ agent_id_sessions' \in SUBSET Ids
  BY DEF TypeOK, session_close, Live

\* Queueing a session, a new one or one that is sent again.
LEMMA WaitLive ==
  ASSUME TypeOK, NEW id \in Ids, NEW q \in Queries,
         NEW r \in -(CharMax + 1) .. CharMax, session_wait(id, q, r)
  PROVE  Live' = Live \cup {id}
<1>1. [q |-> q, retry_times |-> r, elapse |-> 0] \in Session
  BY RelayAssumption DEF Session, ElapseCap
<1>2. [q |-> q, retry_times |-> r, elapse |-> 0] # NoSession
  BY <1>1, NoSessionAssumption
<1> QED BY <1>2 DEF TypeOK, session_wait, Live

\* The ids handed out, before and after id_alloc and id_free.
LEMMA HeldSteps ==
  ASSUME PoolInv, NEW id \in Ids
  PROVE  /\ id_alloc(id) => PoolInv' /\ id \notin Held /\ Held' = Held \cup {id}
         /\ id_free(id) => PoolInv' /\ Held' = Held \ {id}
<1>1. ASSUME id_alloc(id)
      PROVE  PoolInv' /\ id \notin Held /\ Held' = Held \cup {id}
  BY <1>1, AllocStep DEF Held, PoolInv, PoolTypeOK
<1>2. ASSUME id_free(id) PROVE PoolInv' /\ Held' = Held \ {id}
  <2>1. CASE st[id] = 1
    BY <1>2, <2>1, FreeStep DEF Held, PoolInv, PoolTypeOK
  <2>2. CASE st[id] = 0
    BY <1>2, <2>2, FreeStep DEF Held
  <2> QED BY <2>1, <2>2 DEF PoolInv, PoolTypeOK
<1> QED BY <1>1, <1>2

\* The inductive invariant: types, the pool's own invariant, and the
\* agreement of sessions, tables and pool.
RelayInv == TypeOK /\ PoolInv /\ IdsMatchSessions

\* What the agreement says outside batch_timeout, and in it while no freed
\* session is queued.
LEMMA TablesAgree ==
  ASSUME RelayInv, ~Down, pc # "batch" \/ ~Dangling
  PROVE  Held = Live /\ agent_id_sessions = Live /\ sessions_queue = Live
  BY DEF RelayInv, IdsMatchSessions, Down

\* A step that leaves sessions, tables and pool alone, and leaves the phase
\* in which a freed session is queued only for the end of the process.
LEMMA TablesUntouched ==
  ASSUME RelayInv, TypeOK', UNCHANGED <<poolVars, sessionVars>>,
         \/ pc' = pc
         \/ pc' = "crashed"
         \/ pc # "crashed" /\ (pc # "batch" \/ ~Dangling)
  PROVE  RelayInv'
<1>1. Held' = Held /\ Live' = Live /\ Dangling' = Dangling
  BY DEF Held, Live, Dangling
<1>2. PoolInv'
  BY DEF RelayInv, PoolInv, PoolTypeOK, FreeStackMatchesMarks
<1>3. IdsMatchSessions'
  BY <1>1 DEF RelayInv, IdsMatchSessions
<1> QED BY <1>2, <1>3 DEF RelayInv

-----------------------------------------------------------------------------
(* Each action keeps the invariant.                                        *)

\* The clock: objects stay allocated, elapse stays below its cap.
LEMMA TickKeepsInv == ASSUME RelayInv, Tick PROVE RelayInv'
<1> USE DEF RelayInv
<1>1. \A id \in Ids : /\ sessions'[id] \in Session \cup {NoSession}
                      /\ sessions'[id] = NoSession <=> sessions[id] = NoSession
  <2> SUFFICES ASSUME NEW id \in Ids
               PROVE  /\ sessions'[id] \in Session \cup {NoSession}
                      /\ sessions'[id] = NoSession <=> sessions[id] = NoSession
    OBVIOUS
  <2>1. CASE sessions[id] = NoSession \/ sessions[id].elapse = ElapseCap
    BY <2>1 DEF Tick, TypeOK
  <2>2. CASE ~(sessions[id] = NoSession \/ sessions[id].elapse = ElapseCap)
    <3>1. sessions'[id] = [sessions[id] EXCEPT !.elapse = @ + 1]
      BY <2>2 DEF Tick
    <3>2. sessions[id] \in Session /\ sessions[id].elapse \in 0 .. ElapseCap
      BY <2>2 DEF TypeOK, Session
    <3>3. sessions[id].elapse + 1 \in 0 .. ElapseCap
      BY <2>2, <3>2, RelayAssumption DEF ElapseCap
    <3>4. sessions'[id] \in Session
      BY <3>1, <3>2, <3>3 DEF Session
    <3> QED BY <2>2, <3>4, NoSessionAssumption
  <2> QED BY <2>1, <2>2
<1>2. sessions' \in [Ids -> Session \cup {NoSession}]
  BY <1>1 DEF Tick
<1>3. Live' = Live
  BY <1>1 DEF Live
<1>4. next_timeout' \in -1 .. request_timeout
  BY RelayAssumption DEF Tick, TypeOK
<1>5. UNCHANGED <<poolVars, agent_id_sessions, sessions_queue, pc, netVars,
                  upVars, history>>
  BY DEF Tick
<1>6. TypeOK'
  BY <1>2, <1>4, <1>5 DEF TypeOK, PoolTypeOK
<1>7. PoolInv' /\ Held' = Held
  BY <1>5 DEF PoolInv, PoolTypeOK, FreeStackMatchesMarks, Held
<1>8. IdsMatchSessions'
  BY <1>3, <1>5, <1>7 DEF IdsMatchSessions, Dangling
<1> QED BY <1>6, <1>7, <1>8

\* Datagrams arriving at the socket.
LEMMA ArrivalKeepsInv ==
  ASSUME RelayInv,
         \/ NoiseArrives
         \/ \E q \in Queries : ClientSends(q)
         \/ \E m \in wire : UpstreamAnswers(m)
  PROVE  RelayInv'
<1>1. PICK d \in Datagram : Arrive(d) /\ fresh' \subseteq fresh
  <2>1. CASE NoiseArrives
    BY <2>1 DEF NoiseArrives, Datagram
  <2>2. CASE \E q \in Queries : ClientSends(q)
    BY <2>2 DEF ClientSends, Datagram, Query
  <2>3. CASE \E m \in wire : UpstreamAnswers(m)
    BY <2>3 DEF UpstreamAnswers, Datagram, Answer, RelayInv, TypeOK
  <2> QED BY <2>1, <2>2, <2>3
<1>2. TypeOK'
  BY <1>1 DEF RelayInv, TypeOK, PoolTypeOK, Arrive
<1>3. UNCHANGED <<poolVars, sessionVars>> /\ pc' = pc
  BY <1>1 DEF Arrive
<1> QED BY <1>2, <1>3, TablesUntouched

\* The steps of server_loop that only move from phase to phase.
LEMMA LoopKeepsInv ==
  ASSUME RelayInv, LoopStep \/ SelectFails
  PROVE  RelayInv'
<1>1. CASE PrepareSelect
  <2>1. next_timeout' \in -1 .. request_timeout
    <3>1. CASE sessions_queue = {} /\ next_timeout' = -1
      BY <3>1, RelayAssumption
    <3>2. CASE \E id \in sessions_queue :
                  next_timeout' = get_session_timeout_remain(id)
      <4>1. PICK id \in sessions_queue :
                  next_timeout' = get_session_timeout_remain(id)
        BY <3>2
      <4>2. id \in Live
        BY <4>1, <1>1, TablesAgree DEF PrepareSelect, Down
      <4>3. sessions[id].elapse \in 0 .. request_timeout + 1
        BY <4>2, LiveType DEF RelayInv
      <4> QED BY <4>1, <4>3, RelayAssumption DEF get_session_timeout_remain
    <3> QED BY <1>1, <3>1, <3>2 DEF PrepareSelect
  <2>2. TypeOK'
    BY <1>1, <2>1 DEF PrepareSelect, RelayInv, TypeOK, PoolTypeOK
  <2> QED BY <1>1, <2>2, TablesUntouched DEF PrepareSelect
<1>2. CASE socket_sleep_on
  <2>1. TypeOK'
    BY <1>2 DEF socket_sleep_on, RelayInv, TypeOK, PoolTypeOK
  <2> QED BY <1>2, <2>1, TablesUntouched DEF socket_sleep_on
<1>3. CASE RecvStops
  <2>1. TypeOK'
    BY <1>3 DEF RecvStops, RelayInv, TypeOK, PoolTypeOK
  <2> QED BY <1>3, <2>1, TablesUntouched DEF RecvStops
<1>4. CASE BatchDone
  <2>1. TypeOK'
    BY <1>4 DEF BatchDone, RelayInv, TypeOK, PoolTypeOK
  <2> QED BY <1>4, <2>1, TablesUntouched DEF BatchDone
<1>5. CASE PeekFreed
  <2>1. TypeOK'
    BY <1>5 DEF PeekFreed, RelayInv, TypeOK, PoolTypeOK
  <2> QED BY <1>5, <2>1, TablesUntouched DEF PeekFreed
<1>6. CASE SelectFails
  <2>1. TypeOK'
    BY <1>6 DEF SelectFails, RelayInv, TypeOK, PoolTypeOK
  <2> QED BY <1>6, <2>1, TablesUntouched DEF SelectFails
<1> QED BY <1>1, <1>2, <1>3, <1>4, <1>5, <1>6 DEF LoopStep

\* Handling a query: answered here, refused for lack of ids, or relayed.
LEMMA QueryKeepsInv ==
  ASSUME RelayInv, NEW q \in Queries, HandleQuery(q)
  PROVE  RelayInv'
<1>1. /\ pc = "recv" /\ pc' = pc /\ next_timeout' = next_timeout
      /\ fresh' = fresh /\ inbox' \subseteq inbox
  BY DEF HandleQuery, HandleLocal, HandleExhausted, HandleRelay, Recv
<1>2. Held = Live /\ agent_id_sessions = Live /\ sessions_queue = Live
  BY <1>1, TablesAgree DEF Down
<1>3. CASE HandleLocal(q) \/ HandleExhausted(q)
  <2>1. fate' \in [Queries -> Seq(Outcomes)]
    BY <1>3, ReplyType
    DEF HandleLocal, HandleExhausted, Outcomes, RelayInv, TypeOK
  <2>2. UNCHANGED <<poolVars, sessionVars, wire, upVars, delivered, attempts>>
    BY <1>3 DEF HandleLocal, HandleExhausted, id_alloc_fails
  <2>3. TypeOK'
    BY <1>1, <2>1, <2>2 DEF RelayInv, TypeOK, PoolTypeOK
  <2> QED BY <1>1, <2>2, <2>3, TablesUntouched
<1>4. CASE HandleRelay(q)
  <2>1. PICK id \in Ids :
          \/ /\ id_alloc(id)
             /\ SendUpstream(id, q, TRUE)
             /\ session_open(id, q)
             /\ UNCHANGED fate
          \/ /\ SendUpstream(id, q, FALSE)
             /\ Reply(q, FALSE, "none")
             /\ UNCHANGED <<poolVars, sessionVars>>
    BY <1>4 DEF HandleRelay
  <2>2. UNCHANGED delivered
    BY <1>4 DEF HandleRelay
  <2>3. /\ next_upstream' \in 0 .. Upstreams
        /\ picks' \in [1 .. Upstreams -> Nat]
        /\ attempts' \in [Queries -> Nat]
        /\ wire' \in SUBSET [id : Ids, q : Queries]
    BY <2>1, SendType DEF RelayInv
  <2>4. CASE id_alloc(id) /\ session_open(id, q) /\ UNCHANGED fate
    <3>1. 0 \in -(CharMax + 1) .. CharMax
      BY RelayAssumption
    <3>2. session_wait(id, q, 0)
      BY <2>4 DEF session_open
    <3>3. /\ sessions' \in [Ids -> Session \cup {NoSession}]
          /\ sessions_queue' \in SUBSET Ids
      BY <3>1, <3>2, WaitType DEF RelayInv
    <3>4. Live' = Live \cup {id}
      BY <3>1, <3>2, WaitLive DEF RelayInv
    <3>5. PoolInv' /\ Held' = Held \cup {id}
      BY <2>4, HeldSteps DEF RelayInv
    <3>6. agent_id_sessions' = agent_id_sessions \cup {id}
      BY <2>4 DEF session_open
    <3>7. TypeOK'
      BY <1>1, <2>2, <2>3, <2>4, <3>3, <3>5, <3>6
      DEF RelayInv, TypeOK, PoolInv
    <3>8. IdsMatchSessions'
      BY <1>2, <3>2, <3>4, <3>5, <3>6 DEF IdsMatchSessions, session_wait
    <3> QED BY <3>5, <3>7, <3>8 DEF RelayInv
  <2>5. CASE Reply(q, FALSE, "none") /\ UNCHANGED <<poolVars, sessionVars>>
    <3>1. Reply(q, FALSE, "local")
      BY <2>5 DEF Reply
    <3>2. fate' \in [Queries -> Seq(Outcomes)]
      BY <3>1, ReplyType DEF Outcomes, RelayInv, TypeOK
    <3>3. TypeOK'
      BY <1>1, <2>2, <2>3, <2>5, <3>2 DEF RelayInv, TypeOK, PoolTypeOK
    <3> QED BY <1>1, <2>5, <3>3, TablesUntouched
  <2> QED BY <2>1, <2>4, <2>5
<1> QED BY <1>3, <1>4 DEF HandleQuery

\* Handling a response: passed on with its session closed, or dropped.
LEMMA ResponseKeepsInv ==
  ASSUME RelayInv, NEW id \in Ids, NEW q \in Queries, HandleResponse(id, q)
  PROVE  RelayInv'
<1>1. /\ pc = "recv" /\ pc' = pc /\ next_timeout' = next_timeout
      /\ fresh' = fresh /\ inbox' \subseteq inbox
  BY DEF HandleResponse, HandleAnswer, HandleUnmatched, Recv
<1>2. Held = Live /\ agent_id_sessions = Live /\ sessions_queue = Live
  BY <1>1, TablesAgree DEF Down
<1>3. CASE HandleUnmatched(id, q)
  <2>1. TypeOK'
    BY <1>1, <1>3 DEF HandleUnmatched, RelayInv, TypeOK, PoolTypeOK
  <2> QED BY <1>1, <1>3, <2>1, TablesUntouched DEF HandleUnmatched
<1>4. CASE HandleAnswer(id, q)
  <2>1. id \in Live /\ sessions[id].q \in Queries
    BY <1>2, <1>4, LiveType DEF HandleAnswer, RelayInv
  <2>2. PICK ok \in BOOLEAN :
          /\ Reply(sessions[id].q, ok, "answer")
          /\ delivered' = IF ok
               THEN delivered \cup {[to |-> sessions[id].q, id |-> id, of |-> q]}
               ELSE delivered
    BY <1>4 DEF HandleAnswer
  <2>3. fate' \in [Queries -> Seq(Outcomes)]
    BY <2>1, <2>2, ReplyType DEF Outcomes, RelayInv, TypeOK
  <2>4. delivered' \in SUBSET [to : Queries, id : Ids, of : Queries]
    BY <2>1, <2>2 DEF RelayInv, TypeOK
  <2>5. session_close(id, id) /\ id_free(id) /\ UNCHANGED <<wire, upVars, attempts>>
    BY <1>4 DEF HandleAnswer
  <2>6. /\ Live' = Live \ {id}
        /\ sessions' \in [Ids -> Session \cup {NoSession}]
        /\ sessions_queue' \in SUBSET Ids
        /\ agent_id_sessions' \in SUBSET Ids
    BY <2>5, CloseLive DEF RelayInv
  <2>7. PoolInv' /\ Held' = Held \ {id}
    BY <2>5, HeldSteps DEF RelayInv
  <2>8. TypeOK'
    BY <1>1, <2>3, <2>4, <2>5, <2>6, <2>7 DEF RelayInv, TypeOK, PoolInv
  <2>9. IdsMatchSessions'
    BY <1>2, <2>5, <2>6, <2>7 DEF IdsMatchSessions, session_close
  <2> QED BY <2>7, <2>8, <2>9 DEF RelayInv
<1> QED BY <1>3, <1>4 DEF HandleResponse

\* A session whose time is up: sent again, or given up.
LEMMA TimeoutKeepsInv ==
  ASSUME RelayInv, NEW id \in Ids, Timeout(id)
  PROVE  RelayInv'
<1>1. Expired(id) /\ pc = "batch" /\ ~Dangling
  BY DEF Timeout, Resend, GiveUp, Expired
<1>2. Held = Live /\ agent_id_sessions = Live /\ sessions_queue = Live
  BY <1>1, TablesAgree DEF Down
<1>3. /\ id \in Live /\ sessions[id].q \in Queries
      /\ sessions[id].retry_times \in -(CharMax + 1) .. CharMax
  BY <1>1, <1>2, LiveType DEF Expired, session_peek, RelayInv
<1>4. CASE Resend(id)
  <2> DEFINE r == IncChar(sessions[id].retry_times)
  <2>1. r \in -(CharMax + 1) .. CharMax
    BY <1>3, RelayAssumption DEF IncChar
  <2>2. /\ session_wait(id, sessions[id].q, r)
        /\ UNCHANGED <<poolVars, agent_id_sessions, loopVars, inbox, fresh,
                       fate, delivered>>
    BY <1>4 DEF Resend
  <2>3. /\ next_upstream' \in 0 .. Upstreams
        /\ picks' \in [1 .. Upstreams -> Nat]
        /\ attempts' \in [Queries -> Nat]
        /\ wire' \in SUBSET [id : Ids, q : Queries]
    BY <1>3, <1>4, SendType DEF Resend, RelayInv
  <2> HIDE DEF r
  <2>4. /\ sessions' \in [Ids -> Session \cup {NoSession}]
        /\ sessions_queue' \in SUBSET Ids
    BY <1>3, <2>1, <2>2, WaitType DEF RelayInv
  <2>5. Live' = Live \cup {id}
    BY <1>3, <2>1, <2>2, WaitLive DEF RelayInv
  <2>6. TypeOK'
    BY <2>2, <2>3, <2>4 DEF RelayInv, TypeOK, PoolTypeOK
  <2>7. PoolInv' /\ Held' = Held
    BY <2>2 DEF RelayInv, PoolInv, PoolTypeOK, FreeStackMatchesMarks, Held
  <2>8. IdsMatchSessions'
    BY <1>2, <1>3, <2>2, <2>5, <2>7 DEF IdsMatchSessions, session_wait
  <2> QED BY <2>6, <2>7, <2>8 DEF RelayInv
<1>5. CASE GiveUp(id)
  <2> DEFINE key == sessions[id].q.id
  <2>1. /\ session_close(id, key) /\ id_free(id)
        /\ UNCHANGED <<loopVars, netVars, upVars, delivered, attempts>>
    BY <1>5 DEF GiveUp
  <2>2. fate' \in [Queries -> Seq(Outcomes)]
    BY <1>3, <1>5, ReplyType DEF GiveUp, Outcomes, RelayInv, TypeOK
  <2> HIDE DEF key
  <2>3. /\ Live' = Live \ {id}
        /\ sessions' \in [Ids -> Session \cup {NoSession}]
        /\ sessions_queue' \in SUBSET Ids
        /\ agent_id_sessions' \in SUBSET Ids
    BY <2>1, CloseLive DEF RelayInv
  <2>4. PoolInv' /\ Held' = Held \ {id}
    BY <2>1, HeldSteps DEF RelayInv
  <2>5. TypeOK'
    BY <2>1, <2>2, <2>3, <2>4 DEF RelayInv, TypeOK, PoolInv
  <2>6. CASE key = id
    <3>1. IdsMatchSessions'
      BY <1>2, <2>1, <2>3, <2>4, <2>6 DEF IdsMatchSessions, session_close
    <3> QED BY <2>4, <2>5, <3>1 DEF RelayInv
  <2>7. CASE key # id
    <3>1. id \in sessions_queue' /\ id \notin Live'
      BY <1>2, <1>3, <2>1, <2>3, <2>7 DEF session_close
    <3>2. IdsMatchSessions'
      BY <1>1, <2>1, <3>1 DEF IdsMatchSessions, Dangling
    <3> QED BY <2>4, <2>5, <3>2 DEF RelayInv
  <2> QED BY <2>6, <2>7
<1> QED BY <1>4, <1>5 DEF Timeout

\* The initial state.
LEMMA InitInv == Init => RelayInv
<1> SUFFICES ASSUME Init PROVE RelayInv
  OBVIOUS
<1>1. PoolInv
  BY PoolStart DEF Init
<1>2. Held = {} /\ Live = {}
  BY DEF Init, id_pool_init, Held, Live
<1>3. fate \in [Queries -> Seq(Outcomes)]
  BY DEF Init
<1>4. TypeOK
  BY <1>1, <1>3, RelayAssumption DEF Init, TypeOK, PoolInv
<1>5. IdsMatchSessions
  BY <1>2 DEF Init, IdsMatchSessions
<1> QED BY <1>1, <1>4, <1>5 DEF RelayInv

\* Every step of the server and its surroundings.
LEMMA NextInv == RelayInv /\ [Next]_vars => RelayInv'
<1> SUFFICES ASSUME RelayInv, [Next]_vars PROVE RelayInv'
  OBVIOUS
<1>1. CASE UNCHANGED vars
  <2>1. TypeOK'
    BY <1>1 DEF vars, RelayInv, TypeOK, PoolTypeOK
  <2> QED BY <1>1, <2>1, TablesUntouched DEF vars
<1>2. CASE Environment
  BY <1>2, TickKeepsInv, ArrivalKeepsInv DEF Environment
<1>3. CASE LoopStep \/ SelectFails
  BY <1>3, LoopKeepsInv
<1>4. CASE \E q \in Queries : HandleQuery(q)
  BY <1>4, QueryKeepsInv
<1>5. CASE \E id \in Ids, q \in Queries : HandleResponse(id, q)
  BY <1>5, ResponseKeepsInv
<1>6. CASE \E id \in Ids : Timeout(id)
  BY <1>6, TimeoutKeepsInv
<1> QED BY <1>1, <1>2, <1>3, <1>4, <1>5, <1>6 DEF Next

-----------------------------------------------------------------------------
\* Type correctness of the relay server.
THEOREM RelayTypeCorrect == Spec => []TypeOK
<1>1. RelayInv => TypeOK
  BY DEF RelayInv
<1> QED BY <1>1, InitInv, NextInv, PTL DEF Spec

\* No relay id leaks and no table entry goes stale, other than by the way
\* do_handle_timeout gives up: between handlers the ids out of the pool, the
\* session objects, the id map and the timeout queue are the same set.
THEOREM SessionsMatchIds == Spec => []IdsMatchSessions
<1>1. RelayInv => IdsMatchSessions
  BY DEF RelayInv
<1> QED BY <1>1, InitInv, NextInv, PTL DEF Spec

-----------------------------------------------------------------------------
(* Every query is at one place.                                            *)

\* A query nothing happened to.
LEMMA SamePlace ==
  ASSUME NEW p, OnePlace(p), p \in fresh' <=> p \in fresh,
         Query(p) \in inbox' <=> Query(p) \in inbox,
         OpenFor(p)' = OpenFor(p), fate'[p] = fate[p]
  PROVE  OnePlace(p)'
<1>1. \A id \in Live : OpenFor(p) = {id} => OpenFor(p)' = {id} /\ id \in Live'
  BY DEF OpenFor
<1> QED BY <1>1 DEF OnePlace

\* The sessions opened for a query do not change when none is touched.
LEMMA SameOpen ==
  ASSUME UNCHANGED sessions, NEW p
  PROVE  OpenFor(p)' = OpenFor(p)
  BY DEF OpenFor, Live

\* Reply ends one query and no other.
LEMMA ReplyEnds ==
  ASSUME fate \in [Queries -> Seq(Outcomes)], NEW q \in Queries,
         NEW ok \in BOOLEAN, NEW o, Reply(q, ok, o)
  PROVE  /\ \A p \in Queries : p # q => fate'[p] = fate[p]
         /\ fate[q] = <<>> => Len(fate'[q]) = 1
         /\ fate[q] = <<>> => fate'[q] = <<IF ok THEN o ELSE "dropped">>
<1> DEFINE x == IF ok THEN o ELSE "dropped"
<1>1. fate' = [fate EXCEPT ![q] = Append(fate[q], x)]
  BY DEF Reply
<1> HIDE DEF x
<1>2. Append(<< >>, x) = <<x>> /\ Len(<<x>>) = 1
  OBVIOUS
<1>3. fate[q] = <<>> => fate'[q] = <<x>>
  BY <1>1, <1>2
<1> QED BY <1>1, <1>2, <1>3 DEF x

\* Closing a session frees the place of its query.
LEMMA CloseOpen ==
  ASSUME TypeOK, NEW id \in Live, NEW key, session_close(id, key)
  PROVE  \A p : OpenFor(p)' = IF p = sessions[id].q THEN OpenFor(p) \ {id}
                                                    ELSE OpenFor(p)
<1>1. Live' = Live \ {id}
  BY CloseLive DEF Live
<1>2. \A k \in Live' : sessions'[k] = sessions[k]
  BY <1>1 DEF session_close, TypeOK, Live
<1> QED BY <1>1, <1>2 DEF OpenFor

\* Queueing a session under an id not in use, or again under its own id.
LEMMA WaitOpen ==
  ASSUME TypeOK, NEW id \in Ids, NEW q \in Queries,
         NEW r \in -(CharMax + 1) .. CharMax, session_wait(id, q, r),
         id \in Live => sessions[id].q = q
  PROVE  \A p : OpenFor(p)' = IF p = q THEN OpenFor(p) \cup {id}
                                       ELSE OpenFor(p)
<1>1. Live' = Live \cup {id}
  BY WaitLive
<1>2. /\ sessions'[id].q = q
      /\ \A k \in Live : k # id => sessions'[k] = sessions[k]
  BY DEF session_wait, TypeOK, Live
<1>3. ASSUME NEW p, NEW k
      PROVE  k \in OpenFor(p)' <=>
               k \in (IF p = q THEN OpenFor(p) \cup {id} ELSE OpenFor(p))
  <2>1. CASE k = id
    BY <1>1, <1>2, <2>1 DEF OpenFor
  <2>2. CASE k # id
    BY <1>1, <1>2, <2>2 DEF OpenFor
  <2> QED BY <2>1, <2>2
<1> QED BY <1>3

\* Time and the network: sessions keep their queries; a query goes from its
\* client into the socket.
LEMMA EnvironmentKeepsPlaces ==
  ASSUME RelayInv, EveryQueryAtOnePlace, Environment
  PROVE  EveryQueryAtOnePlace'
<1> USE DEF EveryQueryAtOnePlace
<1> SUFFICES ASSUME NEW p \in Queries PROVE OnePlace(p)'
  OBVIOUS
<1>1. OnePlace(p)
  OBVIOUS
<1>2. CASE Tick
  <2>1. \A id \in Ids : /\ sessions'[id] = NoSession <=> sessions[id] = NoSession
                        /\ sessions[id] # NoSession =>
                              sessions'[id].q = sessions[id].q
    <3> SUFFICES ASSUME NEW id \in Ids
                 PROVE /\ sessions'[id] = NoSession <=> sessions[id] = NoSession
                       /\ sessions[id] # NoSession =>
                              sessions'[id].q = sessions[id].q
      OBVIOUS
    <3>1. sessions'[id] = IF sessions[id] = NoSession
                               \/ sessions[id].elapse = ElapseCap
                          THEN sessions[id]
                          ELSE [sessions[id] EXCEPT !.elapse = @ + 1]
      BY <1>2 DEF Tick
    <3>2. TypeOK /\ TypeOK'
      BY <1>2, TickKeepsInv DEF RelayInv
    <3>3. CASE sessions[id] = NoSession
      BY <3>1, <3>3
    <3>4. CASE sessions[id] # NoSession
      <4>1. sessions[id] \in Session
        BY <3>2, <3>4 DEF TypeOK
      <4>2. sessions'[id] \in Session \cup {NoSession}
        BY <3>2 DEF TypeOK
      <4>3. sessions'[id].q = sessions[id].q
        BY <3>1, <4>1 DEF Session
      <4>4. sessions'[id] \in Session
        <5>1. CASE sessions[id].elapse = ElapseCap
          BY <3>1, <4>1, <5>1
        <5>2. CASE sessions[id].elapse # ElapseCap
          <6>1. sessions[id].elapse + 1 \in 0 .. ElapseCap
            BY <4>1, <5>2, RelayAssumption DEF Session, ElapseCap
          <6> QED BY <3>1, <3>4, <4>1, <5>2, <6>1 DEF Session
        <5> QED BY <5>1, <5>2
      <4> QED BY <3>4, <4>3, <4>4, NoSessionAssumption
    <3> QED BY <3>3, <3>4
  <2>2. OpenFor(p)' = OpenFor(p)
    BY <2>1 DEF OpenFor, Live
  <2>3. UNCHANGED <<inbox, fresh, fate>>
    BY <1>2 DEF Tick
  <2> QED BY <1>1, <2>2, <2>3, SamePlace
<1>3. ASSUME NEW d, Arrive(d), d # Query(p), p \in fresh' <=> p \in fresh
      PROVE  OnePlace(p)'
  <2>1. UNCHANGED <<sessions, fate>> /\ inbox' = inbox \cup {d}
    BY <1>3 DEF Arrive
  <2>2. OpenFor(p)' = OpenFor(p)
    BY <2>1, SameOpen
  <2> QED BY <1>1, <1>3, <2>1, <2>2, SamePlace
<1>4. CASE NoiseArrives
  <2>1. Noise # Query(p)
    BY DEF Noise, Query
  <2> QED BY <1>3, <1>4, <2>1 DEF NoiseArrives
<1>5. CASE \E m \in wire : UpstreamAnswers(m)
  <2>1. PICK m \in wire : UpstreamAnswers(m)
    BY <1>5
  <2>2. Answer(m.id, m.q) # Query(p)
    BY DEF Answer, Query
  <2> QED BY <1>3, <2>1, <2>2 DEF UpstreamAnswers
<1>6. CASE \E q \in Queries : ClientSends(q)
  <2>1. PICK q \in Queries : ClientSends(q)
    BY <1>6
  <2>2. CASE p = q
    <3>1. /\ p \in fresh /\ p \notin fresh' /\ Query(p) \in inbox'
          /\ UNCHANGED <<sessions, fate>>
      BY <2>1, <2>2 DEF ClientSends, Arrive
    <3>2. OpenFor(p)' = OpenFor(p)
      BY <3>1, SameOpen
    <3> QED BY <1>1, <3>1, <3>2 DEF OnePlace
  <2>3. CASE p # q
    <3>1. Query(q) # Query(p)
      BY <2>3 DEF Query
    <3>2. p \in fresh' <=> p \in fresh
      BY <2>1, <2>3 DEF ClientSends
    <3> QED BY <1>3, <2>1, <3>1, <3>2 DEF ClientSends
  <2> QED BY <2>2, <2>3
<1> QED BY <1>2, <1>4, <1>5, <1>6 DEF Environment

\* A query read from the socket ends at once or moves into a session.
LEMMA QueryKeepsPlaces ==
  ASSUME RelayInv, EveryQueryAtOnePlace, NEW q \in Queries, HandleQuery(q)
  PROVE  EveryQueryAtOnePlace'
<1> USE DEF EveryQueryAtOnePlace
<1> SUFFICES ASSUME NEW p \in Queries PROVE OnePlace(p)'
  OBVIOUS
<1>1. /\ pc = "recv" /\ fresh' = fresh
      /\ Query(q) \in inbox /\ inbox' = inbox \ {Query(q)}
  BY DEF HandleQuery, HandleLocal, HandleExhausted, HandleRelay, Recv
<1>2. OnePlace(p) /\ OnePlace(q)
  OBVIOUS
<1>3. /\ q \notin fresh' /\ Query(q) \notin inbox'
      /\ OpenFor(q) = {} /\ fate[q] = <<>>
  BY <1>1, <1>2 DEF OnePlace
<1>4. p # q => (Query(p) \in inbox' <=> Query(p) \in inbox)
  BY <1>1 DEF Query
<1>5. fate \in [Queries -> Seq(Outcomes)]
  BY DEF RelayInv, TypeOK
<1>6. ASSUME UNCHANGED sessions, NEW ok \in BOOLEAN, NEW o, Reply(q, ok, o)
      PROVE  OnePlace(p)'
  <2>1. OpenFor(p)' = OpenFor(p)
    BY <1>6, SameOpen
  <2>2. CASE p = q
    <3>1. Len(fate'[q]) = 1
      BY <1>3, <1>5, <1>6, ReplyEnds
    <3> QED BY <1>3, <2>1, <2>2, <3>1 DEF OnePlace
  <2>3. CASE p # q
    <3>1. fate'[p] = fate[p]
      BY <1>5, <1>6, <2>3, ReplyEnds
    <3> QED BY <1>1, <1>2, <1>4, <2>1, <2>3, <3>1, SamePlace
  <2> QED BY <2>2, <2>3
<1>7. CASE HandleLocal(q) \/ HandleExhausted(q)
  BY <1>6, <1>7 DEF HandleLocal, HandleExhausted
<1>8. CASE HandleRelay(q)
  <2>1. PICK id \in Ids :
          \/ id_alloc(id) /\ session_open(id, q) /\ UNCHANGED fate
          \/ Reply(q, FALSE, "none") /\ UNCHANGED sessions
    BY <1>8 DEF HandleRelay
  <2>2. CASE id_alloc(id) /\ session_open(id, q) /\ UNCHANGED fate
    <3>1. id \notin Live
      BY <1>1, <2>2, HeldSteps, TablesAgree DEF RelayInv, Down
    <3>2. 0 \in -(CharMax + 1) .. CharMax
      BY RelayAssumption
    <3>3. session_wait(id, q, 0)
      BY <2>2 DEF session_open
    <3>4. OpenFor(p)' = IF p = q THEN OpenFor(p) \cup {id} ELSE OpenFor(p)
      BY <3>1, <3>2, <3>3, WaitOpen DEF RelayInv
    <3>5. CASE p = q
      <4>1. OpenFor(q)' = {id} /\ id \in Live'
        <5>1. Live' = Live \cup {id}
          BY <3>2, <3>3, WaitLive DEF RelayInv
        <5> QED BY <1>3, <3>4, <3>5, <5>1
      <4>2. fate'[q] = <<>>
        BY <1>3, <2>2
      <4> QED BY <1>3, <3>5, <4>1, <4>2 DEF OnePlace
    <3>6. CASE p # q
      BY <1>1, <1>2, <1>4, <2>2, <3>4, <3>6, SamePlace
    <3> QED BY <3>5, <3>6
  <2>3. CASE Reply(q, FALSE, "none") /\ UNCHANGED sessions
    BY <1>6, <2>3
  <2> QED BY <2>1, <2>2, <2>3
<1> QED BY <1>7, <1>8 DEF HandleQuery

\* Closing the session of a query and replying to it ends that query.
LEMMA EndKeepsPlaces ==
  ASSUME RelayInv, EveryQueryAtOnePlace, NEW id \in Live,
         NEW ok \in BOOLEAN, NEW o, NEW key,
         Reply(sessions[id].q, ok, o), session_close(id, key),
         fresh' = fresh,
         \A p \in Queries : Query(p) \in inbox' <=> Query(p) \in inbox
  PROVE  EveryQueryAtOnePlace'
<1> USE DEF EveryQueryAtOnePlace
<1> SUFFICES ASSUME NEW p \in Queries PROVE OnePlace(p)'
  OBVIOUS
<1>1. PICK q \in Queries : q = sessions[id].q
  BY LiveType DEF RelayInv
<1>2. id \in OpenFor(q)
  BY <1>1 DEF OpenFor
<1>3. \A r : OpenFor(r)' = IF r = q THEN OpenFor(r) \ {id} ELSE OpenFor(r)
  BY <1>1, CloseOpen DEF RelayInv
<1>4. fate \in [Queries -> Seq(Outcomes)] /\ Reply(q, ok, o)
  BY <1>1 DEF RelayInv, TypeOK
<1>5. OnePlace(p) /\ OnePlace(q)
  BY <1>1
<1>6. CASE p = q
  <2>1. /\ q \notin fresh /\ Query(q) \notin inbox /\ fate[q] = <<>>
        /\ OpenFor(q) = {id}
    BY <1>2, <1>5 DEF OnePlace
  <2>2. Len(fate'[q]) = 1
    BY <1>1, <1>4, <2>1, ReplyEnds
  <2>3. OpenFor(q)' = {}
    BY <1>3, <2>1
  <2> QED BY <1>6, <2>1, <2>2, <2>3 DEF OnePlace
<1>7. CASE p # q
  <2>1. fate'[p] = fate[p]
    BY <1>1, <1>4, <1>7, ReplyEnds
  <2>2. OpenFor(p)' = OpenFor(p)
    BY <1>3, <1>7
  <2> QED BY <1>5, <2>1, <2>2, SamePlace
<1> QED BY <1>6, <1>7

\* Responses, timeouts and the steps of the loop.
LEMMA ServerKeepsPlaces ==
  ASSUME RelayInv, EveryQueryAtOnePlace,
         \/ LoopStep \/ SelectFails
         \/ \E id \in Ids, q \in Queries : HandleResponse(id, q)
         \/ \E id \in Ids : Timeout(id)
  PROVE  EveryQueryAtOnePlace'
<1>1. \A p \in Queries : Query(p) # Noise
  BY DEF Query, Noise
<1>2. ASSUME UNCHANGED <<sessions, fresh, fate>>,
             \A p \in Queries : Query(p) \in inbox' <=> Query(p) \in inbox
      PROVE  EveryQueryAtOnePlace'
  BY <1>2, SameOpen, SamePlace DEF EveryQueryAtOnePlace
<1>3. CASE LoopStep \/ SelectFails
  BY <1>1, <1>2, <1>3 DEF LoopStep, SelectFails, PrepareSelect,
     socket_sleep_on, RecvStops, BatchDone, PeekFreed
<1>4. CASE \E id \in Ids, q \in Queries : HandleResponse(id, q)
  <2>1. PICK id \in Ids, q \in Queries : HandleResponse(id, q)
    BY <1>4
  <2>2. /\ pc = "recv" /\ fresh' = fresh /\ inbox' = inbox \ {Answer(id, q)}
    BY <2>1 DEF HandleResponse, HandleAnswer, HandleUnmatched, Recv
  <2>3. \A p \in Queries : Query(p) \in inbox' <=> Query(p) \in inbox
    BY <2>2 DEF Query, Answer
  <2>4. CASE HandleUnmatched(id, q)
    BY <1>2, <2>2, <2>3, <2>4 DEF HandleUnmatched
  <2>5. CASE HandleAnswer(id, q)
    <3>1. id \in Live
      BY <2>2, <2>5, TablesAgree DEF HandleAnswer, Down
    <3>2. PICK ok \in BOOLEAN : Reply(sessions[id].q, ok, "answer")
      BY <2>5 DEF HandleAnswer
    <3>3. session_close(id, id)
      BY <2>5 DEF HandleAnswer
    <3> QED BY <2>2, <2>3, <3>1, <3>2, <3>3, EndKeepsPlaces
  <2> QED BY <2>1, <2>4, <2>5 DEF HandleResponse
<1>5. CASE \E id \in Ids : Timeout(id)
  <2>1. PICK id \in Ids : Timeout(id)
    BY <1>5
  <2>2. Expired(id) /\ pc = "batch" /\ ~Dangling
    BY <2>1 DEF Timeout, Resend, GiveUp, Expired
  <2>3. id \in Live
    BY <2>2, TablesAgree DEF Down, Expired, session_peek
  <2>4. CASE GiveUp(id)
    <3>1. PICK ok \in BOOLEAN : Reply(sessions[id].q, ok, "timeout")
      BY <2>4 DEF GiveUp
    <3>2. session_close(id, sessions[id].q.id) /\ UNCHANGED <<inbox, fresh>>
      BY <2>4 DEF GiveUp
    <3> QED BY <2>3, <3>1, <3>2, EndKeepsPlaces
  <2>5. CASE Resend(id)
    <3> DEFINE q == sessions[id].q
               r == IncChar(sessions[id].retry_times)
    <3>1. session_wait(id, q, r) /\ UNCHANGED <<inbox, fresh, fate>>
      BY <2>5 DEF Resend
    <3>2. q \in Queries /\ r \in -(CharMax + 1) .. CharMax /\ id \in OpenFor(q)
      BY <2>3, LiveType, RelayAssumption DEF RelayInv, IncChar, OpenFor
    <3>3. id \in Live => sessions[id].q = q
      OBVIOUS
    <3> HIDE DEF q, r
    <3>4. \A p : OpenFor(p)' = OpenFor(p)
      BY <3>1, <3>2, <3>3, WaitOpen DEF RelayInv
    <3> QED BY <3>1, <3>4, SamePlace DEF EveryQueryAtOnePlace
  <2> QED BY <2>1, <2>4, <2>5 DEF Timeout
<1> QED BY <1>3, <1>4, <1>5

\* No client gets two replies to a query and no query is forgotten: however
\* answers, duplicates, retransmissions and timeouts interleave, a query is
\* with its client, in the socket, in one session, or ended once.
THEOREM QueriesAtOnePlace == Spec => []EveryQueryAtOnePlace
<1>1. Init => EveryQueryAtOnePlace
  <2> SUFFICES ASSUME Init, NEW p \in Queries PROVE OnePlace(p)
    BY DEF EveryQueryAtOnePlace
  <2>1. OpenFor(p) = {}
    BY DEF Init, OpenFor, Live
  <2> QED BY <2>1 DEF Init, OnePlace
<1>2. RelayInv /\ EveryQueryAtOnePlace /\ [Next]_vars => EveryQueryAtOnePlace'
  <2> SUFFICES ASSUME RelayInv, EveryQueryAtOnePlace, [Next]_vars
               PROVE  EveryQueryAtOnePlace'
    OBVIOUS
  <2>1. CASE UNCHANGED vars
    BY <2>1, SameOpen, SamePlace DEF vars, EveryQueryAtOnePlace
  <2>2. CASE Environment
    BY <2>2, EnvironmentKeepsPlaces
  <2>3. CASE \E q \in Queries : HandleQuery(q)
    BY <2>3, QueryKeepsPlaces
  <2> QED BY <2>1, <2>2, <2>3, ServerKeepsPlaces DEF Next
<1> QED BY <1>1, <1>2, InitInv, NextInv, PTL DEF Spec

\* "Relay id exhausted" is said only when every relay id belongs to an open
\* session.
THEOREM ExhaustionIsReal == Spec => NoSpuriousExhaustion
<1>1. ASSUME RelayInv, EveryQueryAtOnePlace, [Next]_vars, NEW q \in Queries,
             fate[q] = <<>>, fate'[q] = <<"exhausted">>
      PROVE  Live = Ids
  <2>1. fate \in [Queries -> Seq(Outcomes)] /\ fate'[q] # fate[q]
    <3>1. <<"exhausted">> # << >>
      OBVIOUS
    <3> QED BY <1>1, <3>1 DEF RelayInv, TypeOK
  <2>2. ASSUME NEW p \in Queries, NEW ok \in BOOLEAN, NEW o, Reply(p, ok, o)
        PROVE  p = q /\ (IF ok THEN o ELSE "dropped") = "exhausted"
    <3> DEFINE x == IF ok THEN o ELSE "dropped"
    <3>1. p = q
      BY <2>1, <2>2, ReplyEnds
    <3>2. fate'[q] = <<x>>
      BY <1>1, <2>1, <2>2, <3>1, ReplyEnds
    <3> HIDE DEF x
    <3>3. <<x>> = <<"exhausted">> => x = "exhausted"
      OBVIOUS
    <3> QED BY <1>1, <3>1, <3>2, <3>3 DEF x
  <2>3. CASE UNCHANGED fate
    BY <2>1, <2>3
  <2>4. ASSUME NEW p \in Queries, HandleQuery(p)
        PROVE  Live = Ids
    <3>1. CASE HandleExhausted(p)
      <4>1. \A id \in Ids : st[id] = 1
        BY <1>1, <3>1 DEF HandleExhausted, id_alloc_fails, RelayInv, PoolInv,
           PoolTypeOK, FreeStackMatchesMarks
      <4>2. Held = Live
        BY <1>1, <3>1, TablesAgree DEF HandleExhausted, Recv, Down
      <4> QED BY <4>1, <4>2 DEF Held
    <3>2. CASE HandleLocal(p)
      BY <2>2, <3>2 DEF HandleLocal
    <3>3. CASE HandleRelay(p)
      BY <2>2, <2>3, <3>3 DEF HandleRelay
    <3> QED BY <2>4, <3>1, <3>2, <3>3 DEF HandleQuery
  <2>5. ASSUME NEW id \in Ids, NEW p \in Queries, HandleAnswer(id, p)
        PROVE  FALSE
    <3>1. id \in Live
      BY <1>1, <2>5, TablesAgree DEF HandleAnswer, Recv, Down
    <3>2. sessions[id].q \in Queries
      BY <1>1, <3>1, LiveType DEF RelayInv
    <3> QED BY <2>2, <2>5, <3>2 DEF HandleAnswer
  <2>6. ASSUME NEW id \in Ids, GiveUp(id)
        PROVE  FALSE
    <3>1. id \in Live
      BY <1>1, <2>6, TablesAgree DEF GiveUp, Expired, session_peek, Down
    <3>2. sessions[id].q \in Queries
      BY <1>1, <3>1, LiveType DEF RelayInv
    <3> QED BY <2>2, <2>6, <3>2 DEF GiveUp
  <2>7. CASE UNCHANGED vars \/ Environment \/ LoopStep \/ SelectFails
    BY <2>3, <2>7 DEF vars, Environment, Tick, NoiseArrives, ClientSends,
       UpstreamAnswers, Arrive, LoopStep, SelectFails, PrepareSelect,
       socket_sleep_on, RecvStops, BatchDone, PeekFreed
  <2>8. CASE \E id \in Ids, p \in Queries : HandleResponse(id, p)
    BY <2>3, <2>5, <2>8 DEF HandleResponse, HandleUnmatched
  <2>9. CASE \E id \in Ids : Timeout(id)
    BY <2>3, <2>6, <2>9 DEF Timeout, Resend
  <2> QED BY <1>1, <2>4, <2>7, <2>8, <2>9 DEF Next
<1>2. RelayInv /\ EveryQueryAtOnePlace /\ [Next]_vars =>
        [\A q \in Queries :
           fate[q] = <<>> /\ fate'[q] = <<"exhausted">> => Live = Ids]_vars
  BY <1>1
<1> QED BY <1>2, InitInv, NextInv, QueriesAtOnePlace, PTL
        DEF Spec, NoSpuriousExhaustion

-----------------------------------------------------------------------------
(* Round robin.                                                            *)

\* Has u been picked in the round the cursor is in.
InRound(u) == IF next_upstream # 0 /\ u < next_upstream THEN 1 ELSE 0

\* The inductive invariant: upstreams before the cursor are one pick ahead.
LoadInv ==
    \A u, v \in 1 .. Upstreams : picks[u] - picks[v] = InRound(u) - InRound(v)

\* The cursor moves only when an upstream is picked.
LEMMA PickOrStay == [Next]_vars => pick_upstream \/ UNCHANGED upVars
<1> SUFFICES ASSUME [Next]_vars PROVE pick_upstream \/ UNCHANGED upVars
  OBVIOUS
<1>1. CASE UNCHANGED vars
  BY <1>1 DEF vars
<1>2. CASE Environment
  BY <1>2 DEF Environment, Tick, NoiseArrives, ClientSends, UpstreamAnswers, Arrive
<1>3. CASE LoopStep \/ SelectFails
  BY <1>3 DEF LoopStep, SelectFails, PrepareSelect, socket_sleep_on, RecvStops,
     BatchDone, PeekFreed
<1>4. CASE \E q \in Queries : HandleQuery(q)
  BY <1>4 DEF HandleQuery, HandleLocal, HandleExhausted, HandleRelay, SendUpstream
<1>5. CASE \E id \in Ids, q \in Queries : HandleResponse(id, q)
  BY <1>5 DEF HandleResponse, HandleAnswer, HandleUnmatched
<1>6. CASE \E id \in Ids : Timeout(id)
  BY <1>6 DEF Timeout, Resend, GiveUp, SendUpstream
<1> QED BY <1>1, <1>2, <1>3, <1>4, <1>5, <1>6 DEF Next

\* Picking keeps the upstreams before the cursor one pick ahead, also when
\* the cursor comes to the end of the list.
LEMMA PickKeepsLoad ==
  ASSUME TypeOK, LoadInv, pick_upstream
  PROVE  LoadInv'
<1> DEFINE u == IF next_upstream = 0 THEN 1 ELSE next_upstream
<1>1. u \in 1 .. Upstreams
  BY RelayAssumption DEF TypeOK
<1>2. /\ next_upstream' = IF u = Upstreams THEN 0 ELSE u + 1
      /\ picks' = [picks EXCEPT ![u] = @ + 1]
  BY DEF pick_upstream
<1>3. picks \in [1 .. Upstreams -> Nat] /\ next_upstream \in 0 .. Upstreams
  BY DEF TypeOK
<1>4. ASSUME NEW w \in 1 .. Upstreams
      PROVE  picks'[w] = picks[w] + (IF w = u THEN 1 ELSE 0)
  BY <1>1, <1>2, <1>3
<1>5. ASSUME NEW w \in 1 .. Upstreams
      PROVE  InRound(w)' = InRound(w) + (IF w = u THEN 1 ELSE 0)
                             - (IF u = Upstreams THEN 1 ELSE 0)
  BY <1>1, <1>2, <1>3, RelayAssumption DEF InRound
<1> HIDE DEF u
<1> SUFFICES ASSUME NEW v \in 1 .. Upstreams, NEW w \in 1 .. Upstreams
             PROVE  picks'[v] - picks'[w] = InRound(v)' - InRound(w)'
  BY DEF LoadInv
<1>6. picks[v] - picks[w] = InRound(v) - InRound(w)
  BY DEF LoadInv
<1>7. /\ picks[v] \in Nat /\ picks[w] \in Nat
      /\ InRound(v) \in {0, 1} /\ InRound(w) \in {0, 1}
  BY <1>3 DEF InRound
<1> QED BY <1>4, <1>5, <1>6, <1>7

\* Queries and retransmissions together, no upstream server is picked twice
\* more often than another was, for every number of upstream servers.
THEOREM LoadIsEven == Spec => []EvenLoad
<1>1. Init => LoadInv
  BY DEF Init, LoadInv, InRound
<1>2. RelayInv /\ LoadInv /\ [Next]_vars => LoadInv'
  <2> SUFFICES ASSUME RelayInv, LoadInv, [Next]_vars PROVE LoadInv'
    OBVIOUS
  <2>1. CASE pick_upstream
    BY <2>1, PickKeepsLoad DEF RelayInv
  <2>2. CASE UNCHANGED upVars
    BY <2>2 DEF LoadInv, InRound
  <2> QED BY <2>1, <2>2, PickOrStay
<1>3. LoadInv => EvenLoad
  BY DEF LoadInv, EvenLoad, InRound
<1> QED BY <1>1, <1>2, <1>3, InitInv, NextInv, PTL DEF Spec

-----------------------------------------------------------------------------
(* What a step does to the sessions and to the ends of queries.            *)

\* A millisecond changes neither the queries of the sessions nor what they
\* have counted.
LEMMA TickKeepsSessions ==
  ASSUME RelayInv, Tick
  PROVE  /\ Live' = Live
         /\ \A id \in Live : /\ sessions'[id].q = sessions[id].q
                             /\ sessions'[id].retry_times = sessions[id].retry_times
<1>1. ASSUME NEW id \in Ids
      PROVE  sessions'[id] = IF sessions[id] = NoSession
                                  \/ sessions[id].elapse = ElapseCap
                             THEN sessions[id]
                             ELSE [sessions[id] EXCEPT !.elapse = @ + 1]
  BY DEF Tick
<1>2. ASSUME NEW id \in Live
      PROVE  /\ sessions'[id].q = sessions[id].q
             /\ sessions'[id].retry_times = sessions[id].retry_times
  <2>1. id \in Ids /\ sessions[id] \in Session
    BY LiveType DEF RelayInv
  <2> QED BY <1>1, <2>1 DEF Session
<1>3. TypeOK'
  BY TickKeepsInv DEF RelayInv
<1>4. Live' = Live
  <2>1. ASSUME NEW id \in Live PROVE id \in Live'
    <3>1. id \in Ids /\ sessions[id] \in Session /\ sessions[id] # NoSession
      BY LiveType DEF RelayInv, Live
    <3>2. CASE sessions[id].elapse = ElapseCap
      BY <1>1, <3>1, <3>2 DEF Live
    <3>3. CASE sessions[id].elapse # ElapseCap
      <4>1. sessions'[id] = [sessions[id] EXCEPT !.elapse = @ + 1]
        BY <1>1, <3>1, <3>3
      <4>2. sessions[id].elapse + 1 \in 0 .. ElapseCap
        BY <3>1, <3>3, RelayAssumption DEF Session, ElapseCap
      <4>3. sessions'[id] \in Session
        BY <3>1, <4>1, <4>2 DEF Session
      <4> QED BY <3>1, <4>3, NoSessionAssumption DEF Live
    <3> QED BY <3>2, <3>3
  <2>2. ASSUME NEW id \in Live' PROVE id \in Live
    BY <1>1 DEF Live
  <2> QED BY <2>1, <2>2
<1> QED BY <1>2, <1>4

\* The query of an open session has not ended.
LEMMA OpenHasNotEnded ==
  ASSUME RelayInv, EveryQueryAtOnePlace, NEW id \in Live
  PROVE  sessions[id].q \in Queries /\ fate[sessions[id].q] = <<>>
         /\ OpenFor(sessions[id].q) = {id}
<1>1. sessions[id].q \in Queries
  BY LiveType DEF RelayInv
<1>2. id \in OpenFor(sessions[id].q)
  BY DEF OpenFor
<1> QED BY <1>1, <1>2 DEF EveryQueryAtOnePlace, OnePlace

\* A query still in the socket has neither a session nor an end.
LEMMA WaitingHasNotEnded ==
  ASSUME EveryQueryAtOnePlace, NEW q \in Queries, Query(q) \in inbox
  PROVE  fate[q] = <<>> /\ OpenFor(q) = {}
  BY DEF EveryQueryAtOnePlace, OnePlace

\* A handler starts with sessions, tables and pool in agreement.
LEMMA ResponseFindsSession ==
  ASSUME RelayInv, NEW id \in Ids, NEW q \in Queries, HandleAnswer(id, q)
  PROVE  id \in Live /\ sessions[id].q \in Queries
<1>1. agent_id_sessions = Live
  BY TablesAgree DEF HandleAnswer, Recv, Down
<1> QED BY <1>1, LiveType DEF HandleAnswer, RelayInv

LEMMA TimeoutFindsSession ==
  ASSUME RelayInv, NEW id \in Ids, Timeout(id)
  PROVE  /\ id \in Live /\ sessions[id].q \in Queries
         /\ sessions[id].retry_times \in -(CharMax + 1) .. CharMax
         /\ IncChar(sessions[id].retry_times) \in -(CharMax + 1) .. CharMax
<1>1. Expired(id)
  BY DEF Timeout, Resend, GiveUp
<1>2. sessions_queue = Live
  BY <1>1, TablesAgree DEF Expired, Down
<1>3. id \in Live
  BY <1>1, <1>2 DEF Expired, session_peek
<1> QED BY <1>3, LiveType, RelayAssumption DEF RelayInv, IncChar

-----------------------------------------------------------------------------
(* Answers.                                                                *)

\* The inductive invariant: an answer in the socket answers something that
\* was sent, and as long as a query that was sent has not ended, the session
\* under the id it was sent with is its own.
AnswerInv ==
    /\ \A id \in Ids, q \in Queries :
          Answer(id, q) \in inbox => [id |-> id, q |-> q] \in wire
    /\ \A m \in wire : \/ fate[m.q] # <<>>
                       \/ m.id \in Live /\ sessions[m.id].q = m.q
    /\ NoAnswerIsStolen

\* A step that passes on no answer: what is sent has a session, a session
\* keeps its query or its query ends, no answer comes from nowhere and what
\* has ended has ended.
LEMMA NothingDelivered ==
  ASSUME RelayInv, AnswerInv, wire \subseteq wire', delivered' = delivered,
         \A m \in wire' : m \in wire \/ (m.id \in Live' /\ sessions'[m.id].q = m.q),
         \A id \in Live :
            \/ id \in Live' /\ sessions'[id].q = sessions[id].q
            \/ fate'[sessions[id].q] # <<>>,
         \A id \in Ids, q \in Queries :
            Answer(id, q) \in inbox' =>
                Answer(id, q) \in inbox \/ [id |-> id, q |-> q] \in wire,
         \A q \in Queries : fate[q] # <<>> => fate'[q] # <<>>
  PROVE  AnswerInv'
<1>1. /\ \A m \in wire : m.q \in Queries
      /\ \A d \in delivered : d.of \in Queries
  BY DEF RelayInv, TypeOK
<1>2. ASSUME NEW m \in wire'
      PROVE  fate'[m.q] # <<>> \/ (m.id \in Live' /\ sessions'[m.id].q = m.q)
  BY <1>1, <1>2 DEF AnswerInv
<1>3. NoAnswerIsStolen'
  BY <1>1 DEF AnswerInv, NoAnswerIsStolen
<1>4. \A id \in Ids, q \in Queries :
         Answer(id, q) \in inbox' => [id |-> id, q |-> q] \in wire'
  BY DEF AnswerInv
<1> QED BY <1>2, <1>3, <1>4 DEF AnswerInv

\* A reply ends its query and brings no other back.
LEMMA EndedStaysEnded ==
  ASSUME fate \in [Queries -> Seq(Outcomes)], NEW p \in Queries, fate[p] = <<>>,
         NEW ok \in BOOLEAN, NEW o, Reply(p, ok, o)
  PROVE  /\ fate'[p] # <<>>
         /\ \A q \in Queries : fate[q] # <<>> => fate'[q] # <<>>
<1> DEFINE x == IF ok THEN o ELSE "dropped"
<1>1. /\ \A q \in Queries : q # p => fate'[q] = fate[q]
      /\ fate'[p] = <<x>>
  BY ReplyEnds
<1> HIDE DEF x
<1>2. fate'[p] # <<>>
  <2>1. <<x>> # << >>
    OBVIOUS
  <2> QED BY <1>1, <2>1
<1> QED BY <1>1, <1>2

\* Time and the network.
LEMMA EnvironmentKeepsAnswers ==
  ASSUME RelayInv, AnswerInv, Environment
  PROVE  AnswerInv'
<1>1. UNCHANGED <<wire, delivered, fate>>
  BY DEF Environment, Tick, NoiseArrives, ClientSends, UpstreamAnswers, Arrive
<1>2. \A id \in Live : id \in Live' /\ sessions'[id].q = sessions[id].q
  <2>1. CASE Tick
    BY <2>1, TickKeepsSessions
  <2>2. CASE ~Tick
    BY <2>2 DEF Environment, NoiseArrives, ClientSends, UpstreamAnswers, Arrive, Live
  <2> QED BY <2>1, <2>2
<1>3. ASSUME NEW id \in Ids, NEW q \in Queries, Answer(id, q) \in inbox'
      PROVE  Answer(id, q) \in inbox \/ [id |-> id, q |-> q] \in wire
  <2>1. CASE Tick
    BY <1>3, <2>1 DEF Tick
  <2>2. CASE NoiseArrives
    BY <1>3, <2>2 DEF NoiseArrives, Arrive, Noise, Answer
  <2>3. CASE \E p \in Queries : ClientSends(p)
    BY <1>3, <2>3 DEF ClientSends, Arrive, Query, Answer
  <2>4. CASE \E m \in wire : UpstreamAnswers(m)
    <3>1. PICK m \in wire : UpstreamAnswers(m)
      BY <2>4
    <3>2. inbox' = inbox \cup {Answer(m.id, m.q)}
      BY <3>1 DEF UpstreamAnswers, Arrive
    <3>3. Answer(id, q) = Answer(m.id, m.q) => id = m.id /\ q = m.q
      BY DEF Answer
    <3>4. m = [id |-> m.id, q |-> m.q]
      BY <3>1 DEF RelayInv, TypeOK
    <3> QED BY <1>3, <3>1, <3>2, <3>3, <3>4
  <2> QED BY <2>1, <2>2, <2>3, <2>4 DEF Environment
<1> QED BY <1>1, <1>2, <1>3, NothingDelivered

\* Queries: a session is opened under an id that no open session has, for a
\* query that was just sent.
LEMMA QueryKeepsAnswers ==
  ASSUME RelayInv, EveryQueryAtOnePlace, AnswerInv, NEW q \in Queries,
         HandleQuery(q)
  PROVE  AnswerInv'
<1>1. /\ pc = "recv" /\ Query(q) \in inbox /\ inbox' \subseteq inbox
      /\ delivered' = delivered
  BY DEF HandleQuery, HandleLocal, HandleExhausted, HandleRelay, Recv
<1>2. fate[q] = <<>> /\ fate \in [Queries -> Seq(Outcomes)]
  BY <1>1, WaitingHasNotEnded DEF RelayInv, TypeOK
<1>3. ASSUME UNCHANGED <<sessions, wire>>, NEW ok \in BOOLEAN, NEW o, Reply(q, ok, o)
      PROVE  AnswerInv'
  <2>1. \A p \in Queries : fate[p] # <<>> => fate'[p] # <<>>
    BY <1>2, <1>3, EndedStaysEnded
  <2>2. Live' = Live
    BY <1>3 DEF Live
  <2> QED BY <1>1, <1>3, <2>1, <2>2, NothingDelivered
<1>4. CASE HandleLocal(q) \/ HandleExhausted(q)
  BY <1>3, <1>4 DEF HandleLocal, HandleExhausted
<1>5. CASE HandleRelay(q)
  <2>1. PICK id \in Ids :
          \/ /\ id_alloc(id)
             /\ SendUpstream(id, q, TRUE)
             /\ session_open(id, q)
             /\ UNCHANGED fate
          \/ /\ SendUpstream(id, q, FALSE)
             /\ Reply(q, FALSE, "none")
             /\ UNCHANGED sessions
    BY <1>5 DEF HandleRelay
  <2>2. CASE id_alloc(id) /\ SendUpstream(id, q, TRUE) /\ session_open(id, q)
                /\ UNCHANGED fate
    <3>1. id \notin Live
      BY <1>1, <2>2, HeldSteps, TablesAgree DEF RelayInv, Down
    <3>2. session_wait(id, q, 0) /\ 0 \in -(CharMax + 1) .. CharMax
      BY <2>2, RelayAssumption DEF session_open
    <3>3. Live' = Live \cup {id}
      BY <3>2, WaitLive DEF RelayInv
    <3>4. wire' = wire \cup {[id |-> id, q |-> q]}
      BY <2>2 DEF SendUpstream
    <3>5. sessions'[id].q = q /\ \A k \in Live : k # id => sessions'[k] = sessions[k]
      BY <3>2 DEF session_wait, RelayInv, TypeOK, Live
    <3>6. \A k \in Live : k \in Live' /\ sessions'[k].q = sessions[k].q
      BY <3>1, <3>3, <3>5
    <3>7. \A m \in wire' : m \in wire \/ (m.id \in Live' /\ sessions'[m.id].q = m.q)
      BY <3>3, <3>4, <3>5
    <3> QED BY <1>1, <2>2, <3>4, <3>6, <3>7, NothingDelivered
  <2>3. CASE SendUpstream(id, q, FALSE) /\ Reply(q, FALSE, "none") /\ UNCHANGED sessions
    BY <1>3, <2>3 DEF SendUpstream
  <2> QED BY <2>1, <2>2, <2>3
<1> QED BY <1>4, <1>5 DEF HandleQuery

\* Closing the session of a query and replying to it.
LEMMA EndKeepsSent ==
  ASSUME RelayInv, EveryQueryAtOnePlace, NEW id \in Live, NEW key,
         session_close(id, key), NEW ok \in BOOLEAN, NEW o,
         Reply(sessions[id].q, ok, o)
  PROVE  /\ \A k \in Live : \/ k \in Live' /\ sessions'[k].q = sessions[k].q
                            \/ fate'[sessions[k].q] # <<>>
         /\ \A q \in Queries : fate[q] # <<>> => fate'[q] # <<>>
<1>1. id \in Ids /\ sessions[id].q \in Queries /\ fate[sessions[id].q] = <<>>
  BY OpenHasNotEnded DEF Live
<1>2. fate \in [Queries -> Seq(Outcomes)]
  BY DEF RelayInv, TypeOK
<1>3. /\ fate'[sessions[id].q] # <<>>
      /\ \A q \in Queries : fate[q] # <<>> => fate'[q] # <<>>
  BY <1>1, <1>2, EndedStaysEnded
<1>4. Live' = Live \ {id}
  BY <1>1, CloseLive DEF RelayInv
<1>5. \A k \in Live' : sessions'[k] = sessions[k]
  BY <1>4 DEF session_close, RelayInv, TypeOK, Live
<1> QED BY <1>3, <1>4, <1>5

\* Responses: an answer whose query has not ended finds that query's session.
LEMMA ResponseKeepsAnswers ==
  ASSUME RelayInv, EveryQueryAtOnePlace, AnswerInv, NEW id \in Ids,
         NEW q \in Queries, HandleResponse(id, q)
  PROVE  AnswerInv'
<1>1. CASE HandleUnmatched(id, q)
  <2>1. Live' = Live
    BY <1>1 DEF HandleUnmatched, Live
  <2> QED BY <1>1, <2>1, NothingDelivered DEF HandleUnmatched, Recv
<1>2. CASE HandleAnswer(id, q)
  <2>1. id \in Live /\ sessions[id].q \in Queries
    BY <1>2, ResponseFindsSession
  <2>2. PICK p \in Queries : p = sessions[id].q
    BY <2>1
  <2>3. /\ Answer(id, q) \in inbox /\ inbox' \subseteq inbox
        /\ session_close(id, id) /\ UNCHANGED wire
    BY <1>2 DEF HandleAnswer, Recv
  <2>4. PICK ok \in BOOLEAN :
          /\ Reply(p, ok, "answer")
          /\ delivered' = IF ok
               THEN delivered \cup {[to |-> p, id |-> id, of |-> q]}
               ELSE delivered
    BY <1>2, <2>2 DEF HandleAnswer
  <2>5. /\ \A k \in Live : \/ k \in Live' /\ sessions'[k].q = sessions[k].q
                           \/ fate'[sessions[k].q] # <<>>
        /\ \A r \in Queries : fate[r] # <<>> => fate'[r] # <<>>
    BY <2>1, <2>2, <2>3, <2>4, EndKeepsSent
  <2>6. \A m \in wire : m.q \in Queries
    BY DEF RelayInv, TypeOK
  <2>7. \A m \in wire' : fate'[m.q] # <<>> \/ (m.id \in Live' /\ sessions'[m.id].q = m.q)
    BY <2>3, <2>5, <2>6 DEF AnswerInv
  <2>8. q = p \/ fate'[q] # <<>>
    <3>1. [id |-> id, q |-> q] \in wire
      BY <2>3 DEF AnswerInv
    <3> QED BY <2>2, <2>5, <3>1 DEF AnswerInv
  <2>9. NoAnswerIsStolen'
    <3> SUFFICES ASSUME NEW d \in delivered' PROVE d.of = d.to \/ fate'[d.of] # <<>>
      BY DEF NoAnswerIsStolen
    <3>1. CASE d \in delivered
      BY <2>5, <3>1 DEF AnswerInv, NoAnswerIsStolen, RelayInv, TypeOK
    <3>2. CASE d = [to |-> p, id |-> id, of |-> q]
      BY <2>8, <3>2
    <3> QED BY <2>4, <3>1, <3>2
  <2>10. \A k \in Ids, r \in Queries :
            Answer(k, r) \in inbox' => [id |-> k, q |-> r] \in wire'
    BY <2>3 DEF AnswerInv
  <2> QED BY <2>7, <2>9, <2>10 DEF AnswerInv
<1> QED BY <1>1, <1>2 DEF HandleResponse

\* Timeouts: the session sent again keeps its query, and the query given up
\* has ended.
LEMMA TimeoutKeepsAnswers ==
  ASSUME RelayInv, EveryQueryAtOnePlace, AnswerInv, NEW id \in Ids, Timeout(id)
  PROVE  AnswerInv'
<1>1. /\ id \in Live /\ sessions[id].q \in Queries
      /\ IncChar(sessions[id].retry_times) \in -(CharMax + 1) .. CharMax
  BY TimeoutFindsSession
<1>2. PICK p \in Queries : p = sessions[id].q
  BY <1>1
<1>3. CASE Resend(id)
  <2>1. PICK r \in -(CharMax + 1) .. CharMax : session_wait(id, p, r)
    BY <1>1, <1>2, <1>3 DEF Resend
  <2>2. /\ UNCHANGED <<inbox, fate, delivered>> /\ wire \subseteq wire'
        /\ wire' \subseteq wire \cup {[id |-> id, q |-> p]}
    BY <1>2, <1>3 DEF Resend, SendUpstream
  <2>3. Live' = Live
    BY <1>1, <2>1, WaitLive DEF RelayInv
  <2>4. \A k \in Live : sessions'[k].q = sessions[k].q
    BY <1>2, <2>1 DEF session_wait, RelayInv, TypeOK, Live
  <2>5. \A m \in wire' : m \in wire \/ (m.id \in Live' /\ sessions'[m.id].q = m.q)
    BY <1>1, <1>2, <2>2, <2>3, <2>4
  <2> QED BY <2>2, <2>3, <2>4, <2>5, NothingDelivered
<1>4. CASE GiveUp(id)
  <2>1. /\ session_close(id, p.id) /\ UNCHANGED <<inbox, wire, delivered>>
        /\ \E ok \in BOOLEAN : Reply(p, ok, "timeout")
    BY <1>2, <1>4 DEF GiveUp
  <2>2. /\ \A k \in Live : \/ k \in Live' /\ sessions'[k].q = sessions[k].q
                           \/ fate'[sessions[k].q] # <<>>
        /\ \A q \in Queries : fate[q] # <<>> => fate'[q] # <<>>
    BY <1>1, <1>2, <2>1, EndKeepsSent
  <2> QED BY <2>1, <2>2, NothingDelivered
<1> QED BY <1>3, <1>4 DEF Timeout

\* However answers are delayed, duplicated and reordered and ids used again,
\* an answer whose own query is still open reaches that query's client: the
\* answers that session_get gives to a wrong one belong to queries that have
\* already ended.
THEOREM AnswersAreNotStolen == Spec => []NoAnswerIsStolen
<1>1. Init => AnswerInv
  BY DEF Init, AnswerInv, NoAnswerIsStolen
<1>2. RelayInv /\ EveryQueryAtOnePlace /\ AnswerInv /\ [Next]_vars => AnswerInv'
  <2> SUFFICES ASSUME RelayInv, EveryQueryAtOnePlace, AnswerInv, [Next]_vars
               PROVE  AnswerInv'
    OBVIOUS
  <2>1. ASSUME UNCHANGED <<sessions, wire, fate, delivered>>, inbox' \subseteq inbox
        PROVE  AnswerInv'
    <3>1. Live' = Live
      BY <2>1 DEF Live
    <3> QED BY <2>1, <3>1, NothingDelivered
  <2>2. CASE UNCHANGED vars
    BY <2>1, <2>2 DEF vars
  <2>3. CASE Environment
    BY <2>3, EnvironmentKeepsAnswers
  <2>4. CASE LoopStep \/ SelectFails
    BY <2>1, <2>4 DEF LoopStep, SelectFails, PrepareSelect, socket_sleep_on,
       RecvStops, BatchDone, PeekFreed
  <2>5. CASE \E q \in Queries : HandleQuery(q)
    BY <2>5, QueryKeepsAnswers
  <2>6. CASE \E id \in Ids, q \in Queries : HandleResponse(id, q)
    BY <2>6, ResponseKeepsAnswers
  <2>7. CASE \E id \in Ids : Timeout(id)
    BY <2>7, TimeoutKeepsAnswers
  <2> QED BY <2>2, <2>3, <2>4, <2>5, <2>6, <2>7 DEF Next
<1>3. AnswerInv => NoAnswerIsStolen
  BY DEF AnswerInv
<1> QED BY <1>1, <1>2, <1>3, InitInv, NextInv, QueriesAtOnePlace, PTL DEF Spec

-----------------------------------------------------------------------------
(* Retransmissions.                                                        *)

\* The inductive invariant: an open session has counted every transmission
\* but the first, and a query that has neither a session nor an end was not
\* sent at all.
RetryInv ==
    /\ \A id \in Live :
          /\ sessions[id].retry_times \in 0 .. max_retry_time
          /\ attempts[sessions[id].q] = sessions[id].retry_times + 1
    /\ \A q \in Queries : OpenFor(q) = {} /\ fate[q] = <<>> => attempts[q] = 0
    /\ RetriesAreCounted

\* A step that sends nothing and opens no session, and in which at most one
\* query ends, one that was sent as often as it takes when it was given up.
LEMMA NothingSent ==
  ASSUME RetryInv, attempts' = attempts, Live' \subseteq Live,
         \A id \in Live' :
            /\ sessions'[id].q = sessions[id].q
            /\ sessions'[id].retry_times = sessions[id].retry_times,
         \A p \in Queries : \/ /\ fate'[p] = fate[p]
                               /\ OpenFor(p)' = OpenFor(p)
                            \/ /\ fate'[p] # <<>>
                               /\ fate'[p] = <<"timeout">> =>
                                     attempts[p] = max_retry_time + 1
  PROVE  RetryInv'
<1>1. \A q \in Queries : OpenFor(q)' = {} /\ fate'[q] = <<>> => attempts'[q] = 0
  BY DEF RetryInv
<1>2. RetriesAreCounted'
  BY DEF RetryInv, RetriesAreCounted
<1> QED BY <1>1, <1>2 DEF RetryInv

\* A query that is read from the socket was never sent before.
LEMMA QueryKeepsCount ==
  ASSUME RelayInv, EveryQueryAtOnePlace, RetryInv, NEW q \in Queries,
         HandleQuery(q)
  PROVE  RetryInv'
<1>1. pc = "recv" /\ Query(q) \in inbox
  BY DEF HandleQuery, HandleLocal, HandleExhausted, HandleRelay, Recv
<1>2. fate[q] = <<>> /\ OpenFor(q) = {} /\ attempts[q] = 0
  BY <1>1, WaitingHasNotEnded DEF RetryInv
<1>3. fate \in [Queries -> Seq(Outcomes)] /\ attempts \in [Queries -> Nat]
  BY DEF RelayInv, TypeOK
<1>4. ASSUME NEW ok \in BOOLEAN, NEW o, o # "timeout", Reply(q, ok, o)
      PROVE  /\ \A p \in Queries : p # q => fate'[p] = fate[p]
             /\ fate'[q] # <<>> /\ fate'[q] # <<"timeout">>
  <2> DEFINE x == IF ok THEN o ELSE "dropped"
  <2>1. x # "timeout"
    BY <1>4
  <2>2. fate'[q] = <<x>> /\ \A p \in Queries : p # q => fate'[p] = fate[p]
    BY <1>2, <1>3, <1>4, ReplyEnds
  <2> HIDE DEF x
  <2>3. <<x>> # << >> /\ <<x>> # <<"timeout">>
    BY <2>1
  <2> QED BY <2>2, <2>3
<1>5. CASE HandleLocal(q) \/ HandleExhausted(q)
  <2>1. /\ UNCHANGED <<sessions, attempts>>
        /\ \E ok \in BOOLEAN, o \in {"local", "exhausted"} : Reply(q, ok, o)
    BY <1>5 DEF HandleLocal, HandleExhausted
  <2>2. /\ \A p \in Queries : p # q => fate'[p] = fate[p]
        /\ fate'[q] # <<>> /\ fate'[q] # <<"timeout">>
    BY <1>4, <2>1
  <2>3. Live' = Live /\ \A p : OpenFor(p)' = OpenFor(p)
    BY <2>1, SameOpen DEF Live
  <2> QED BY <2>1, <2>2, <2>3, NothingSent
<1>6. CASE HandleRelay(q)
  <2>1. PICK id \in Ids :
          \/ /\ id_alloc(id)
             /\ SendUpstream(id, q, TRUE)
             /\ session_open(id, q)
             /\ UNCHANGED fate
          \/ /\ SendUpstream(id, q, FALSE)
             /\ Reply(q, FALSE, "none")
             /\ UNCHANGED <<poolVars, sessionVars>>
    BY <1>6 DEF HandleRelay
  <2>2. /\ attempts'[q] = 1
        /\ \A p \in Queries : p # q => attempts'[p] = attempts[p]
    <3>1. attempts' = [attempts EXCEPT ![q] = @ + 1]
      BY <2>1 DEF SendUpstream
    <3> QED BY <1>2, <1>3, <3>1
  <2>3. \A k \in Live : sessions[k].q \in Queries /\ sessions[k].q # q
    BY <1>2, LiveType DEF OpenFor, RelayInv
  <2>4. CASE id_alloc(id) /\ session_open(id, q) /\ UNCHANGED fate
    <3>1. session_wait(id, q, 0) /\ 0 \in -(CharMax + 1) .. CharMax
      BY <2>4, RelayAssumption DEF session_open
    <3>2. id \notin Live
      BY <1>1, <2>4, HeldSteps, TablesAgree DEF RelayInv, Down
    <3>3. Live' = Live \cup {id}
      BY <3>1, WaitLive DEF RelayInv
    <3>4. \A p : OpenFor(p)' = IF p = q THEN OpenFor(p) \cup {id} ELSE OpenFor(p)
      BY <3>1, <3>2, WaitOpen DEF RelayInv
    <3>5. /\ sessions'[id].q = q /\ sessions'[id].retry_times = 0
          /\ \A k \in Live : k # id => sessions'[k] = sessions[k]
      BY <3>1 DEF session_wait, RelayInv, TypeOK, Live
    <3>6. ASSUME NEW k \in Live'
          PROVE  /\ sessions'[k].retry_times \in 0 .. max_retry_time
                 /\ attempts'[sessions'[k].q] = sessions'[k].retry_times + 1
      <4>1. CASE k = id
        BY <2>2, <3>5, <4>1, RelayAssumption
      <4>2. CASE k # id
        BY <2>2, <2>3, <3>2, <3>3, <3>5, <4>2 DEF RetryInv
      <4> QED BY <4>1, <4>2
    <3>7. \A p \in Queries : OpenFor(p)' = {} /\ fate'[p] = <<>> => attempts'[p] = 0
      BY <2>2, <2>4, <3>4 DEF RetryInv
    <3>8. RetriesAreCounted'
      <4>1. <<"timeout">> # << >>
        OBVIOUS
      <4> QED BY <1>2, <2>2, <2>4, <4>1, RelayAssumption DEF RetryInv, RetriesAreCounted
    <3> QED BY <3>6, <3>7, <3>8 DEF RetryInv
  <2>5. CASE Reply(q, FALSE, "none") /\ UNCHANGED sessionVars
    <3>1. Live' = Live /\ \A p : OpenFor(p)' = OpenFor(p)
      BY <2>5, SameOpen DEF Live
    <3>2. /\ \A p \in Queries : p # q => fate'[p] = fate[p]
          /\ fate'[q] # <<>> /\ fate'[q] # <<"timeout">>
      BY <1>4, <2>5
    <3>3. \A k \in Live' :
            /\ sessions'[k].retry_times \in 0 .. max_retry_time
            /\ attempts'[sessions'[k].q] = sessions'[k].retry_times + 1
      BY <2>2, <2>3, <2>5, <3>1 DEF RetryInv
    <3>4. \A p \in Queries : OpenFor(p)' = {} /\ fate'[p] = <<>> => attempts'[p] = 0
      BY <2>2, <3>1, <3>2 DEF RetryInv
    <3>5. RetriesAreCounted'
      BY <2>2, <3>2, RelayAssumption DEF RetryInv, RetriesAreCounted
    <3> QED BY <3>3, <3>4, <3>5 DEF RetryInv
  <2> QED BY <2>1, <2>4, <2>5
<1> QED BY <1>5, <1>6 DEF HandleQuery

\* An answer ends a query of a session.
LEMMA ResponseKeepsCount ==
  ASSUME RelayInv, EveryQueryAtOnePlace, RetryInv, NEW id \in Ids,
         NEW q \in Queries, HandleResponse(id, q)
  PROVE  RetryInv'
<1>1. CASE HandleUnmatched(id, q)
  <2>1. UNCHANGED <<sessions, attempts, fate>>
    BY <1>1 DEF HandleUnmatched
  <2>2. Live' = Live /\ \A p : OpenFor(p)' = OpenFor(p)
    BY <2>1, SameOpen DEF Live
  <2> QED BY <2>1, <2>2, NothingSent
<1>2. CASE HandleAnswer(id, q)
  <2>1. id \in Live /\ sessions[id].q \in Queries
    BY <1>2, ResponseFindsSession
  <2>2. PICK p \in Queries : p = sessions[id].q
    BY <2>1
  <2>3. session_close(id, id) /\ UNCHANGED attempts
    BY <1>2 DEF HandleAnswer
  <2>4. PICK ok \in BOOLEAN : Reply(p, ok, "answer")
    BY <1>2, <2>2 DEF HandleAnswer
  <2>5. fate[p] = <<>> /\ fate \in [Queries -> Seq(Outcomes)]
    BY <2>1, <2>2, OpenHasNotEnded DEF RelayInv, TypeOK
  <2>6. \A r \in Queries : r # p => fate'[r] = fate[r]
    BY <2>4, <2>5, ReplyEnds
  <2>7. fate'[p] # <<>> /\ fate'[p] # <<"timeout">>
    <3> DEFINE x == IF ok THEN "answer" ELSE "dropped"
    <3>1. fate'[p] = <<x>> /\ x # "timeout"
      BY <2>4, <2>5, ReplyEnds
    <3> HIDE DEF x
    <3>2. <<x>> # << >> /\ <<x>> # <<"timeout">>
      BY <3>1
    <3> QED BY <3>1, <3>2
  <2>8. Live' = Live \ {id}
    BY <2>3, CloseLive DEF RelayInv
  <2>9. \A k \in Live' : sessions'[k] = sessions[k]
    BY <2>3, <2>8 DEF session_close, RelayInv, TypeOK, Live
  <2>10. \A r \in Queries : r # p => OpenFor(r)' = OpenFor(r)
    BY <2>1, <2>2, <2>3, CloseOpen DEF RelayInv
  <2> QED BY <2>3, <2>6, <2>7, <2>8, <2>9, <2>10, NothingSent
<1> QED BY <1>1, <1>2 DEF HandleResponse

\* A timeout counts a retransmission, or ends a query that was sent as often
\* as it takes.
LEMMA TimeoutKeepsCount ==
  ASSUME max_retry_time <= CharMax,
         RelayInv, EveryQueryAtOnePlace, RetryInv, NEW id \in Ids, Timeout(id)
  PROVE  RetryInv'
<1>1. /\ id \in Live /\ sessions[id].q \in Queries
      /\ IncChar(sessions[id].retry_times) \in -(CharMax + 1) .. CharMax
  BY TimeoutFindsSession
<1>2. PICK p \in Queries : p = sessions[id].q
  BY <1>1
<1>3. /\ fate[p] = <<>> /\ OpenFor(p) = {id}
      /\ fate \in [Queries -> Seq(Outcomes)] /\ attempts \in [Queries -> Nat]
  BY <1>1, <1>2, OpenHasNotEnded DEF RelayInv, TypeOK
<1>4. /\ sessions[id].retry_times \in 0 .. max_retry_time
      /\ attempts[p] = sessions[id].retry_times + 1
  BY <1>1, <1>2 DEF RetryInv
<1>5. CASE Resend(id)
  <2>1. PICK r \in -(CharMax + 1) .. CharMax : r = IncChar(sessions[id].retry_times)
    BY <1>1
  <2>2. sessions[id].retry_times < max_retry_time
    BY <1>5 DEF Resend
  <2>3. r = sessions[id].retry_times + 1 /\ r \in 0 .. max_retry_time
    BY <1>4, <2>1, <2>2, RelayAssumption DEF IncChar
  <2>4. session_wait(id, p, r) /\ UNCHANGED fate
    BY <1>2, <1>5, <2>1 DEF Resend
  <2>5. /\ attempts'[p] = r + 1
        /\ \A q \in Queries : q # p => attempts'[q] = attempts[q]
    BY <1>2, <1>3, <1>4, <1>5, <2>3 DEF Resend, SendUpstream
  <2>6. Live' = Live
    BY <1>1, <2>4, WaitLive DEF RelayInv
  <2>7. \A q : OpenFor(q)' = OpenFor(q)
    BY <1>2, <1>3, <2>4, WaitOpen DEF RelayInv
  <2>8. /\ sessions'[id].q = p /\ sessions'[id].retry_times = r
        /\ \A k \in Live : k # id => sessions'[k] = sessions[k]
    BY <2>4 DEF session_wait, RelayInv, TypeOK, Live
  <2>9. ASSUME NEW k \in Live'
        PROVE  /\ sessions'[k].retry_times \in 0 .. max_retry_time
               /\ attempts'[sessions'[k].q] = sessions'[k].retry_times + 1
    <3>1. CASE k = id
      BY <2>3, <2>5, <2>8, <3>1
    <3>2. CASE k # id
      <4>1. sessions[k].q \in Queries /\ sessions[k].q # p
        BY <1>3, <2>6, <3>2, LiveType DEF OpenFor, RelayInv
      <4> QED BY <2>5, <2>6, <2>8, <3>2, <4>1 DEF RetryInv
    <3> QED BY <3>1, <3>2
  <2>10. \A q \in Queries : OpenFor(q)' = {} /\ fate'[q] = <<>> => attempts'[q] = 0
    BY <1>3, <2>4, <2>5, <2>7 DEF RetryInv
  <2>11. RetriesAreCounted'
    <3>1. <<"timeout">> # << >>
      OBVIOUS
    <3>2. fate'[p] # <<"timeout">>
      BY <1>3, <2>4, <3>1
    <3>3. attempts'[p] <= max_retry_time + 1
      BY <2>3, <2>5, RelayAssumption
    <3>4. \A q \in Queries : q # p => attempts'[q] = attempts[q] /\ fate'[q] = fate[q]
      BY <2>4, <2>5
    <3> QED BY <3>2, <3>3, <3>4 DEF RetryInv, RetriesAreCounted
  <2> QED BY <2>9, <2>10, <2>11 DEF RetryInv
<1>6. CASE GiveUp(id)
  <2>1. /\ session_close(id, p.id) /\ UNCHANGED attempts
        /\ \E ok \in BOOLEAN : Reply(p, ok, "timeout")
    BY <1>2, <1>6 DEF GiveUp
  <2>2. attempts[p] = max_retry_time + 1
    BY <1>4, <1>6, RelayAssumption DEF GiveUp
  <2>3. fate'[p] # <<>> /\ \A q \in Queries : q # p => fate'[q] = fate[q]
    <3>1. PICK ok \in BOOLEAN : Reply(p, ok, "timeout")
      BY <2>1
    <3>2. Len(fate'[p]) = 1 /\ \A q \in Queries : q # p => fate'[q] = fate[q]
      BY <1>3, <3>1, ReplyEnds
    <3>3. Len(<< >>) = 0
      OBVIOUS
    <3> QED BY <3>2, <3>3
  <2>4. Live' = Live \ {id}
    BY <2>1, CloseLive DEF RelayInv
  <2>5. \A k \in Live' : sessions'[k] = sessions[k]
    BY <2>1, <2>4 DEF session_close, RelayInv, TypeOK, Live
  <2>6. \A q \in Queries : q # p => OpenFor(q)' = OpenFor(q)
    BY <1>1, <1>2, <2>1, CloseOpen DEF RelayInv
  <2> QED BY <2>1, <2>2, <2>3, <2>4, <2>5, <2>6, NothingSent
<1> QED BY <1>5, <1>6 DEF Timeout

\* When max_retry_time fits the char that counts them, a query goes out at
\* most 1 + max_retry_time times and is given up only after that many.  (With
\* a larger max_retry_time the char wraps and the query is never given up.)
THEOREM RetriesAreBounded ==
  ASSUME max_retry_time <= CharMax
  PROVE  Spec => []RetriesAreCounted
<1>1. Init => RetryInv
  <2>1. <<"timeout">> # << >>
    OBVIOUS
  <2> QED BY <2>1, RelayAssumption DEF Init, RetryInv, RetriesAreCounted, Live
<1>2. RelayInv /\ EveryQueryAtOnePlace /\ RetryInv /\ [Next]_vars => RetryInv'
  <2> SUFFICES ASSUME RelayInv, EveryQueryAtOnePlace, RetryInv, [Next]_vars
               PROVE  RetryInv'
    OBVIOUS
  <2>1. ASSUME UNCHANGED <<sessions, attempts, fate>>
        PROVE  RetryInv'
    <3>1. Live' = Live /\ \A p : OpenFor(p)' = OpenFor(p)
      BY <2>1, SameOpen DEF Live
    <3> QED BY <2>1, <3>1, NothingSent
  <2>2. CASE UNCHANGED vars
    BY <2>1, <2>2 DEF vars
  <2>3. CASE Tick
    <3>1. UNCHANGED <<attempts, fate>>
      BY <2>3 DEF Tick
    <3>2. Live' = Live
      BY <2>3, TickKeepsSessions
    <3>3. \A p : OpenFor(p)' = OpenFor(p)
      BY <2>3, TickKeepsSessions DEF OpenFor
    <3> QED BY <2>3, <3>1, <3>2, <3>3, TickKeepsSessions, NothingSent
  <2>4. CASE Environment /\ ~Tick
    BY <2>1, <2>4 DEF Environment, NoiseArrives, ClientSends, UpstreamAnswers, Arrive
  <2>5. CASE LoopStep \/ SelectFails
    BY <2>1, <2>5 DEF LoopStep, SelectFails, PrepareSelect, socket_sleep_on,
       RecvStops, BatchDone, PeekFreed
  <2>6. CASE \E q \in Queries : HandleQuery(q)
    BY <2>6, QueryKeepsCount
  <2>7. CASE \E id \in Ids, q \in Queries : HandleResponse(id, q)
    BY <2>7, ResponseKeepsCount
  <2>8. CASE \E id \in Ids : Timeout(id)
    BY <2>8, TimeoutKeepsCount
  <2> QED BY <2>2, <2>3, <2>4, <2>5, <2>6, <2>7, <2>8 DEF Next
<1>3. RetryInv => RetriesAreCounted
  BY DEF RetryInv
<1> QED BY <1>1, <1>2, <1>3, InitInv, NextInv, QueriesAtOnePlace, PTL DEF Spec
============================================================================
