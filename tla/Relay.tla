------------------------------- MODULE Relay -------------------------------
(***************************************************************************)
(* The relay server: the event loop of src/src/server/server.c, the        *)
(* session table of src/src/server/session_factory.c and the id pool, with *)
(* a UDP network that loses, duplicates, delays and reorders.              *)
(*                                                                         *)
(* The server is one thread.  A handler (one datagram, or one expired      *)
(* session) is one action; the clock and the network take steps between    *)
(* any two of them.  What pack_try_response_local decides (answer here or  *)
(* relay) is a free choice in this module.                                 *)
(***************************************************************************)
EXTENDS IdPool, Sequences

CONSTANTS
    Queries,            \* client queries: records with fields client (the
                        \* client's NetEnd), id (the client's transaction
                        \* id), name (what is asked) and n, which tells apart
                        \* two sendings of the same datagram
    Upstreams,          \* how many upstream servers are configured
    request_timeout,    \* milliseconds before a relayed query has timed out
    max_retry_time,     \* retransmissions before the server gives up
    CharMax,            \* largest char, the type of retry_times: 127
    NoSession           \* the null session pointer

ASSUME RelayAssumption ==
    /\ \A q \in Queries : q.id \in Ids
    /\ Upstreams \in Nat \ {0}
    /\ request_timeout \in Nat
    /\ max_retry_time \in Nat
    /\ CharMax \in Nat

\* Time since the last transmission is counted up to one millisecond past
\* the timeout: the code only looks at the sign of what remains.
ElapseCap == request_timeout + 1

Session == [q : Queries, retry_times : -(CharMax + 1) .. CharMax,
            elapse : 0 .. ElapseCap]

ASSUME NoSessionAssumption == NoSession \notin Session

VARIABLES
    sessions,           \* sessions[id]: the Session opened under relay id
                        \* id, NoSession before malloc and after free
    agent_id_sessions,  \* keys of the hash map relay id -> Session*
    sessions_queue,     \* keys of the timeout queue not marked deleted
    next_upstream,      \* round-robin cursor, 0 for NULL
    pc,                 \* where the server thread is
    next_timeout,       \* what is left of the timeout given to select()
    inbox,              \* datagrams in the server's socket
    wire,               \* relayed queries that reached an upstream server
    fresh,              \* queries the clients have not sent yet
    fate,               \* history: how each query ended
    delivered,          \* history: upstream answers passed on to clients
    attempts,           \* history: transmissions to upstream, per query
    picks               \* history: how often each upstream was picked

sessionVars == <<sessions, agent_id_sessions, sessions_queue>>
loopVars    == <<pc, next_timeout>>
netVars     == <<inbox, wire, fresh>>
upVars      == <<next_upstream, picks>>
history     == <<fate, delivered, attempts>>
vars == <<poolVars, sessionVars, loopVars, netVars, upVars, history>>

Query(q)       == [type |-> "query", q |-> q]
Answer(id, q)  == [type |-> "answer", id |-> id, of |-> q]
Noise          == [type |-> "malformed"]
Datagram       == [type : {"query"}, q : Queries]
                    \cup [type : {"answer"}, id : Ids, of : Queries]
                    \cup {Noise}

\* The relay ids under which a Session object is allocated.
Live == {id \in Ids : sessions[id] # NoSession}

\* The server process is gone: select() failed, or it ran into undefined
\* behaviour (a use of a freed session; with glibc the process aborts).
Down == pc \in {"stopped", "crashed"}

\* The timeout queue holds a pointer to a freed session.
Dangling == ~(sessions_queue \subseteq Live)

-----------------------------------------------------------------------------
(* The clock, the clients, the upstream servers and the network.           *)

\* A millisecond passes, for every waiting session and for select().
Tick ==
    /\ ~Down
    /\ sessions' = [id \in Ids |->
          IF sessions[id] = NoSession \/ sessions[id].elapse = ElapseCap
          THEN sessions[id]
          ELSE [sessions[id] EXCEPT !.elapse = @ + 1]]
    /\ next_timeout' = IF pc = "select" /\ next_timeout > 0
                       THEN next_timeout - 1
                       ELSE next_timeout
    /\ UNCHANGED <<poolVars, agent_id_sessions, sessions_queue, pc, netVars,
                   upVars, history>>

Arrive(d) ==
    /\ ~Down
    /\ d \notin inbox
    /\ inbox' = inbox \cup {d}
    /\ UNCHANGED <<poolVars, sessionVars, loopVars, wire, upVars, history>>

ClientSends(q) ==
    /\ q \in fresh
    /\ fresh' = fresh \ {q}
    /\ Arrive(Query(q))

\* An upstream answers a query it was sent: never, late or several times.
UpstreamAnswers(m) ==
    /\ m \in wire
    /\ Arrive(Answer(m.id, m.q))
    /\ UNCHANGED fresh

\* Something that is no DNS packet (or an empty datagram) arrives.
NoiseArrives ==
    /\ Arrive(Noise)
    /\ UNCHANGED fresh

Environment ==
    \/ Tick
    \/ NoiseArrives
    \/ \E q \in Queries : ClientSends(q)
    \/ \E m \in wire : UpstreamAnswers(m)

-----------------------------------------------------------------------------
(* The session factory.                                                    *)

\* Milliseconds that remain before the session under id has timed out.
get_session_timeout_remain(id) == request_timeout - sessions[id].elapse

\* session_peek: the queue's entry that was sent longest ago.
session_peek(id) ==
    /\ id \in sessions_queue
    /\ \A k \in sessions_queue : sessions[k].elapse <= sessions[id].elapse

\* retry_times is a char: one past CharMax is the smallest char.
IncChar(c) == IF c = CharMax THEN -(CharMax + 1) ELSE c + 1

\* session_wait for a session with the given retries: it goes to the back
\* of the queue with a new timestamp.
session_wait(id, q, retries) ==
    /\ sessions' = [sessions EXCEPT
          ![id] = [q |-> q, retry_times |-> retries, elapse |-> 0]]
    /\ sessions_queue' = sessions_queue \cup {id}

session_open(id, q) ==
    /\ session_wait(id, q, 0)
    /\ agent_id_sessions' = agent_id_sessions \cup {id}

session_close_keepsQueue(id, key) ==
    /\ agent_id_sessions' = agent_id_sessions \ {key}
    /\ sessions' = [sessions EXCEPT ![id] = NoSession]
    /\ UNCHANGED sessions_queue

\* session_close: key is the id that the session's relay_packet carries at
\* the time of the call; map and queue entries are removed under key, the
\* object opened under id is freed.
session_close(id, key) ==
    /\ agent_id_sessions' = agent_id_sessions \ {key}
    /\ sessions_queue' = sessions_queue \ {key}
    /\ sessions' = [sessions EXCEPT ![id] = NoSession]

-----------------------------------------------------------------------------
(* Sending.                                                                *)

pick_upstream_skipsLast ==
    LET u == IF next_upstream = 0 THEN 1 ELSE next_upstream
    IN /\ next_upstream' = IF u + 1 >= Upstreams THEN 0 ELSE u + 1
       /\ picks' = [picks EXCEPT ![u] = @ + 1]

pick_upstream_noWrap ==
    LET u == IF next_upstream = 0 THEN 1 ELSE next_upstream
    IN /\ next_upstream' = u + 1
       /\ picks' = [picks EXCEPT ![u] = @ + 1]

\* The upstream to use now; the cursor moves to the next list node.
pick_upstream ==
    LET u == IF next_upstream = 0 THEN 1 ELSE next_upstream
    IN /\ next_upstream' = IF u = Upstreams THEN 0 ELSE u + 1
       /\ picks' = [picks EXCEPT ![u] = @ + 1]

\* The client's side of packet_send: it got the reply, or nothing (ok is
\* false when serialisation or sendto fails).
Reply(q, ok, outcome) ==
    fate' = [fate EXCEPT ![q] = Append(@, IF ok THEN outcome ELSE "dropped")]

\* The upstream side of packet_send.
SendUpstream(id, q, ok) ==
    /\ pick_upstream
    /\ attempts' = [attempts EXCEPT ![q] = @ + 1]
    /\ wire' = IF ok THEN wire \cup {[id |-> id, q |-> q]} ELSE wire

-----------------------------------------------------------------------------
(* server_loop: select(), then drain the socket, then the timeouts.        *)

\* Top of the loop: the timeout for select() is what remains of the oldest
\* session, -1 when there is none.  A negative timeout means forever.
PrepareSelect ==
    /\ pc = "loop"
    /\ pc' = "select"
    /\ \/ /\ sessions_queue = {}
          /\ next_timeout' = -1
       \/ \E id \in sessions_queue :
            /\ session_peek(id)
            /\ next_timeout' = get_session_timeout_remain(id)
    /\ UNCHANGED <<poolVars, sessionVars, netVars, upVars, history>>

socket_sleep_on ==
    /\ pc = "select"
    /\ inbox # {} \/ next_timeout = 0
    /\ pc' = "recv"
    /\ UNCHANGED <<poolVars, sessionVars, next_timeout, netVars, upVars,
                   history>>

\* select() fails: server_loop breaks and the program ends.
SelectFails ==
    /\ pc = "select"
    /\ pc' = "stopped"
    /\ UNCHANGED <<poolVars, sessionVars, next_timeout, netVars, upVars,
                   history>>

\* pack_recv finds no data, or a datagram that pack_deserialize refuses:
\* either way the receive loop ends and the timeouts are looked at.
RecvStops ==
    /\ pc = "recv"
    /\ \/ inbox = {} /\ UNCHANGED inbox
       \/ Noise \in inbox /\ inbox' = inbox \ {Noise}
    /\ pc' = "batch"
    /\ UNCHANGED <<poolVars, sessionVars, next_timeout, wire, fresh, upVars,
                   history>>

\* handle_dns_packet is about to handle d.
Recv(d) ==
    /\ pc = "recv"
    /\ d \in inbox
    /\ inbox' = inbox \ {d}
    /\ UNCHANGED <<loopVars, fresh>>

\* A query that pack_try_response_local answers.
HandleLocal(q) ==
    /\ Recv(Query(q))
    /\ \E ok \in BOOLEAN : Reply(q, ok, "local")
    /\ UNCHANGED <<poolVars, sessionVars, wire, upVars, delivered, attempts>>

\* A query to relay when all relay ids are in use.
HandleExhausted(q) ==
    /\ Recv(Query(q))
    /\ id_alloc_fails
    /\ \E ok \in BOOLEAN : Reply(q, ok, "exhausted")
    /\ UNCHANGED <<sessionVars, wire, upVars, delivered, attempts>>

HandleRelay_failLeaksId(q) ==
    /\ Recv(Query(q))
    /\ \E id \in Ids, ok \in BOOLEAN :
         /\ id_alloc(id)
         /\ SendUpstream(id, q, ok)
         /\ IF ok THEN session_open(id, q) /\ UNCHANGED fate
                  ELSE Reply(q, FALSE, "none") /\ UNCHANGED sessionVars
    /\ UNCHANGED delivered

\* A query to relay: take an id, send, open a session; when the send fails
\* the id goes straight back on top of the stack.
HandleRelay(q) ==
    /\ Recv(Query(q))
    /\ \E id \in Ids :
         \/ /\ id_alloc(id)
            /\ SendUpstream(id, q, TRUE)
            /\ session_open(id, q)
            /\ UNCHANGED fate
         \/ /\ top >= 0 /\ id = ids[top]
            /\ SendUpstream(id, q, FALSE)
            /\ Reply(q, FALSE, "none")
            /\ UNCHANGED <<poolVars, sessionVars>>
    /\ UNCHANGED delivered

HandleAnswer_anySession(id, q) ==
    /\ Recv(Answer(id, q))
    /\ \E k \in agent_id_sessions :
         \E ok \in BOOLEAN :
           /\ Reply(sessions[k].q, ok, "answer")
           /\ delivered' = IF ok
                THEN delivered \cup {[to |-> sessions[k].q, id |-> id, of |-> q]}
                ELSE delivered
           /\ session_close(k, k)
           /\ id_free(k)
    /\ UNCHANGED <<wire, upVars, attempts>>

HandleAnswer_keepsSession(id, q) ==
    /\ Recv(Answer(id, q))
    /\ id \in agent_id_sessions
    /\ \E ok \in BOOLEAN :
         /\ Reply(sessions[id].q, ok, "answer")
         /\ delivered' = IF ok
              THEN delivered \cup {[to |-> sessions[id].q, id |-> id, of |-> q]}
              ELSE delivered
    /\ UNCHANGED <<poolVars, sessionVars, wire, upVars, attempts>>

\* A response whose id session_get finds: pass it on, close, free the id.
HandleAnswer(id, q) ==
    /\ Recv(Answer(id, q))
    /\ id \in agent_id_sessions
    /\ \E ok \in BOOLEAN :
         /\ Reply(sessions[id].q, ok, "answer")
         /\ delivered' = IF ok
              THEN delivered \cup {[to |-> sessions[id].q, id |-> id, of |-> q]}
              ELSE delivered
    /\ session_close(id, id)
    /\ id_free(id)
    /\ UNCHANGED <<wire, upVars, attempts>>

\* A response that matches no session is dropped.
HandleUnmatched(id, q) ==
    /\ Recv(Answer(id, q))
    /\ id \notin agent_id_sessions
    /\ UNCHANGED <<poolVars, sessionVars, wire, upVars, history>>

-----------------------------------------------------------------------------
(* batch_timeout and do_handle_timeout.                                    *)

\* The head of the queue, whose time is up.
Expired(id) ==
    /\ pc = "batch"
    /\ ~Dangling
    /\ session_peek(id)
    /\ get_session_timeout_remain(id) <= 0

Resend_beforeSend(id) ==
    /\ Expired(id)
    /\ sessions[id].retry_times <= max_retry_time
    /\ \E ok \in BOOLEAN : SendUpstream(id, sessions[id].q, ok)
    /\ session_wait(id, sessions[id].q, IncChar(sessions[id].retry_times))
    /\ UNCHANGED <<poolVars, agent_id_sessions, loopVars, inbox, fresh,
                   fate, delivered>>

\* Send again; whether that worked is not looked at (packet_send returns 0
\* or 1, the code compares with -1).
Resend(id) ==
    /\ Expired(id)
    /\ sessions[id].retry_times < max_retry_time
    /\ \E ok \in BOOLEAN : SendUpstream(id, sessions[id].q, ok)
    /\ session_wait(id, sessions[id].q, IncChar(sessions[id].retry_times))
    /\ UNCHANGED <<poolVars, agent_id_sessions, loopVars, inbox, fresh,
                   fate, delivered>>

\* No retries left: SERVFAIL to the client and the session is closed.  The
\* failure packet is made from the session's own relay_packet, after the
\* client's id was written into it: that id is the key session_close uses.
GiveUp(id) ==
    /\ Expired(id)
    /\ sessions[id].retry_times >= max_retry_time
    /\ \E ok \in BOOLEAN : Reply(sessions[id].q, ok, "timeout")
    /\ session_close(id, sessions[id].q.id)
    /\ id_free(id)
    /\ UNCHANGED <<loopVars, netVars, upVars, delivered, attempts>>

\* session_peek returns a freed session (it was the head before it was
\* freed and still is), and batch_timeout dereferences it.
PeekFreed ==
    /\ pc = "batch"
    /\ Dangling
    /\ pc' = "crashed"
    /\ UNCHANGED <<poolVars, sessionVars, next_timeout, netVars, upVars,
                   history>>

BatchDone_early ==
    /\ pc = "batch"
    /\ ~Dangling
    /\ pc' = "loop"
    /\ UNCHANGED <<poolVars, sessionVars, next_timeout, netVars, upVars,
                   history>>

\* Nothing (more) has timed out.
BatchDone ==
    /\ pc = "batch"
    /\ ~Dangling
    /\ \/ sessions_queue = {}
       \/ \E id \in sessions_queue :
            session_peek(id) /\ get_session_timeout_remain(id) > 0
    /\ pc' = "loop"
    /\ UNCHANGED <<poolVars, sessionVars, next_timeout, netVars, upVars,
                   history>>

-----------------------------------------------------------------------------
Init ==
    /\ id_pool_init
    /\ sessions = [id \in Ids |-> NoSession]
    /\ agent_id_sessions = {}
    /\ sessions_queue = {}
    /\ next_upstream = 0
    /\ pc = "loop"
    /\ next_timeout = -1
    /\ inbox = {} /\ wire = {} /\ fresh = Queries
    /\ fate = [q \in Queries |-> <<>>]
    /\ delivered = {}
    /\ attempts = [q \in Queries |-> 0]
    /\ picks = [u \in 1 .. Upstreams |-> 0]

HandleQuery(q) == HandleLocal(q) \/ HandleExhausted(q) \/ HandleRelay(q)

HandleResponse(id, q) == HandleAnswer(id, q) \/ HandleUnmatched(id, q)

\* The steps of the loop itself.
LoopStep == PrepareSelect \/ socket_sleep_on \/ RecvStops \/ BatchDone
                \/ PeekFreed

Timeout(id) == Resend(id) \/ GiveUp(id)

Next ==
    \/ Environment
    \/ LoopStep
    \/ SelectFails
    \/ \E q \in Queries : HandleQuery(q)
    \/ \E id \in Ids, q \in Queries : HandleResponse(id, q)
    \/ \E id \in Ids : Timeout(id)

Spec == Init /\ [][Next]_vars

\* Any step of the server thread but the failure of select().
ServerStep ==
    \/ LoopStep
    \/ \E q \in Queries : HandleQuery(q)
    \/ \E id \in Ids, q \in Queries : HandleResponse(id, q)
    \/ \E id \in Ids : Timeout(id)

\* The server thread runs, time passes, and a query in the socket is read in
\* the end (the socket is a FIFO).  Nothing is assumed of clients, upstream
\* servers and network: datagrams may stop arriving, or never stop.
Fairness ==
    /\ WF_vars(ServerStep)
    /\ WF_vars(Tick)
    /\ \A q \in Queries : SF_vars(HandleQuery(q))

FairSpec == Spec /\ Fairness
=============================================================================
