----------------------------- MODULE RelayProps -----------------------------
(***************************************************************************)
(* What the relay server is to do, stated over the state of module Relay.  *)
(***************************************************************************)
EXTENDS Relay

Outcomes == {"local", "exhausted", "answer", "timeout", "dropped"}

\* Type invariant of the server, the sessions, the network and the history.
TypeOK ==
    /\ PoolTypeOK
    /\ sessions \in [Ids -> Session \cup {NoSession}]
    /\ agent_id_sessions \in SUBSET Ids
    /\ sessions_queue \in SUBSET Ids
    /\ next_upstream \in 0 .. Upstreams
    /\ pc \in {"loop", "select", "recv", "batch", "stopped", "crashed"}
    /\ next_timeout \in -1 .. request_timeout
    /\ inbox \in SUBSET Datagram
    /\ wire \in SUBSET [id : Ids, q : Queries]
    /\ fresh \in SUBSET Queries
    /\ fate \in [Queries -> Seq(Outcomes)]
    /\ delivered \in SUBSET [to : Queries, id : Ids, of : Queries]
    /\ attempts \in [Queries -> Nat]
    /\ picks \in [1 .. Upstreams -> Nat]

-----------------------------------------------------------------------------
(* Sessions, map, queue and ids (hazards: id leak, stale table entries).   *)

\* Between two handlers a relay id is taken from the pool exactly when a
\* session is open under it, and then the session is found both by id
\* (agent_id_sessions) and by deadline (sessions_queue); the only exception
\* is the freed session that do_handle_timeout leaves in both tables when
\* it gives up (server.c:126-135), with which the server comes to its end.
IdsMatchSessions ==
    \/ pc = "crashed"
    \/ pc = "batch" /\ Dangling
    \/ /\ Held = Live
       /\ agent_id_sessions = Live
       /\ sessions_queue = Live

\* "Relay id exhausted" (server.c:184) is only ever said when every id
\* belongs to an open session: no path loses an id.
NoSpuriousExhaustion ==
    [][\A q \in Queries :
          fate[q] = <<>> /\ fate'[q] = <<"exhausted">> => Live = Ids]_vars

-----------------------------------------------------------------------------
(* Replies (hazards: answer racing the timeout, duplicated answers).       *)

OpenFor(q) == {id \in Live : sessions[id].q = q}

\* A query is at one place at a time: with its client, in the socket, in
\* one session, or ended.  So no client gets two replies to a query (say
\* the SERVFAIL of the timeout and then the late answer), and no query is
\* forgotten while the server runs.
OnePlace(q) ==
    \/ q \in fresh /\ Query(q) \notin inbox /\ OpenFor(q) = {} /\ fate[q] = <<>>
    \/ q \notin fresh /\ Query(q) \in inbox /\ OpenFor(q) = {} /\ fate[q] = <<>>
    \/ /\ q \notin fresh /\ Query(q) \notin inbox /\ fate[q] = <<>>
       /\ \E id \in Live : OpenFor(q) = {id}
    \/ /\ q \notin fresh /\ Query(q) \notin inbox /\ OpenFor(q) = {}
       /\ Len(fate[q]) = 1

\* Every client query gets exactly one of: a reply, a failed send, a place
\* in the socket or a session.
EveryQueryAtOnePlace == \A q \in Queries : OnePlace(q)

\* No query loses its answer to another: whatever answer a client gets, the
\* query it belongs to is its own or has already ended.  So an answer goes
\* astray only when it is late or a duplicate (see AnswersAreOwn).
NoAnswerIsStolen ==
    \A d \in delivered : d.of = d.to \/ fate[d.of] # <<>>

-----------------------------------------------------------------------------
(* Retransmission.                                                         *)

\* A query goes out at most 1 + max_retry_time times, and the server gives
\* up on it only after it went out that often (server.c:120).
RetriesAreCounted ==
    \A q \in Queries :
        /\ attempts[q] <= max_retry_time + 1
        /\ fate[q] = <<"timeout">> => attempts[q] = max_retry_time + 1

\* Round robin (server.c:89-97): relayed queries and retransmissions taken
\* together, no upstream is picked twice more often than another was picked.
EvenLoad ==
    \A u, v \in 1 .. Upstreams : picks[u] - picks[v] \in -1 .. 1

\* select() sleeps, without a timeout and with nothing to read.
SleepsWithoutTimeout == pc = "select" /\ next_timeout < 0 /\ inbox = {}

\* Every query that reached the socket ends (it is answered here or by an
\* upstream, or fails, or the server is down) but for two cases, which the
\* code does not exclude: from some time on the server sleeps without a
\* timeout and no datagram comes (server.c:235), or datagrams keep coming
\* and the receive loop never ends (server.c:244).
EveryQueryEnds ==
    \A q \in Queries :
        (Query(q) \in inbox \/ OpenFor(q) # {})
            ~> \/ fate[q] # <<>> \/ Down
               \/ []SleepsWithoutTimeout
               \/ [](pc = "recv")

-----------------------------------------------------------------------------
(* What the documentation says and the code does not do.                   *)

\* 实验报告.md:1163: the server times out, retries and ends sessions
\* correctly.
GivesUpCleanly == pc # "crashed"

\* architect.md:571: a late answer finds no session and is dropped.  Then the
\* answers clients get are answers to their questions.
AnswersAreOwn == \A d \in delivered : d.of.name = d.to.name

\* 实验报告.md:645: with sessions waiting, select() blocks at most until the
\* nearest of their deadlines.
SleepsUntilDeadline ==
    pc = "select" =>
        \A id \in sessions_queue :
            \/ next_timeout = 0
            \/ next_timeout > 0 /\ next_timeout <= get_session_timeout_remain(id)
=============================================================================
