------------------------------ MODULE Resolver ------------------------------
(***************************************************************************)
(* What the server answers: pack_try_response_local and                    *)
(* pack_make_response_relay of src/src/dns/dns_resolver.c, over a cache    *)
(* that behaves as module LruCache says.                                   *)
(*                                                                         *)
(* One query takes several lookups (the name and its parents for the block *)
(* list, then the name for the answer), each under its own lock: time and  *)
(* the pruning daemon come between them.  Between two datagrams of the     *)
(* main thread pc is "idle".  Session and retransmission are module        *)
(* Relay's.  The class, the third part of a key of the cache, is IN        *)
(* throughout, and a response carries one question.                        *)
(***************************************************************************)
EXTENDS Integers, Sequences, FiniteSets

CONSTANTS
    Names,          \* domain names: sequences of labels, with their parents
    Types,          \* query types, QTYPE_A and QTYPE_AAAA among them
    Queries,        \* the query packets clients send
    IpTable,        \* the ip table: question -> body, every ttl Forever
    UpstreamReplies,\* what upstream servers answer: records [rcode, body]
    Forever,        \* UINT32_MAX
    MaxTtl,         \* bound: the largest ttl but Forever
    Capacity,       \* entries the cache holds
    RelayIds,       \* ids for relayed queries (module Relay)
    None

Labels   == UNION {{n[i] : i \in DOMAIN n} : n \in Names}
Question == [name : Names, type : Types]
UpstreamBodies == {u.body : u \in UpstreamReplies}
Body     == UpstreamBodies \cup {IpTable[k] : k \in DOMAIN IpTable}
Empty    == [answers |-> {}, others |-> {}]
Records(b) == b.answers \cup b.others

\* What matters of a query packet: the opcode in its flags, qcount, RD and
\* the question.
Query == [opcode : 0 .. 15, qcount : 0 .. 2, rd : BOOLEAN, question : Question]

\* OPCODE_GET takes the bits from 12 upwards where the opcode begins with
\* bit 11: the lowest bit is lost (the QR bit above it is 0 in a query).
OPCODE_GET(q) ==
    CASE q.opcode \div 2 = 0 -> "QUERY"
      [] q.opcode \div 2 = 1 -> "IQUERY"
      [] q.opcode \div 2 = 2 -> "STATUS"
      [] OTHER               -> "other"

ASSUME ResolverAssumption ==
    /\ Queries \subseteq Query
    /\ DOMAIN IpTable \subseteq Question
    /\ Cardinality(DOMAIN IpTable) <= Capacity
    /\ \A k \in DOMAIN IpTable : \A rr \in Records(IpTable[k]) :
          rr.ttl = Forever /\ rr.type \in {"A", "AAAA"}
    /\ \A b \in UpstreamBodies : \A rr \in Records(b) : rr.ttl \in 0 .. MaxTtl
    /\ Forever \notin 0 .. MaxTtl
    /\ \A b \in Body : \A rr \in Records(b) : rr.rdata \in Seq(0 .. 255)
    /\ \A n \in Names : n \in Seq(Labels) /\ (Len(n) > 1 => Tail(n) \in Names)
    /\ None \notin Question \cup Names \cup Body \cup UpstreamReplies

VARIABLES
    order, value, age, result,  \* the cache (module LruCache)
    use_cache,      \* are upstream answers cached
    pc,             \* "idle", "pre" (query_pre_validate) or "lookup"
    query,          \* the query being answered
    at,             \* the name query_pre_validate is looking at
    pending,        \* the question relayed under each id, or None
    reply,          \* the last reply, until the next query is looked at
    said            \* history: the last upstream response that carried each
                    \* question

cacheVars == <<order, value, age, result>>
vars == <<cacheVars, use_cache, pc, query, at, pending, reply, said>>

is_entry_expired(b, a) == \E rr \in Records(b) : rr.ttl # Forever /\ a >= rr.ttl

Cache == INSTANCE LruCache WITH
            Keys <- Question, Values <- Body, MaxAge <- MaxTtl,
            Expired <- is_entry_expired, NoValue <- None, Miss <- None

-----------------------------------------------------------------------------
\* memallz: len counts down to the last byte that is not zero, or to 0.
memallz(m) ==
    LET nonzero == {i \in 1 .. Len(m) : m[i] # 0}
        len == IF nonzero = {} THEN 0
               ELSE (CHOOSE i \in nonzero : \A j \in nonzero : j <= i) - 1
    IN len = 0

BlockedAddress(rr) == rr.type \in {"A", "AAAA"} /\ memallz(rr.rdata)

\* query_pre_validate looks at every record of an entry, query_post_validate
\* at those of the answer section.
FailsPreCheck(b)  == \E rr \in Records(b) : BlockedAddress(rr)
FailsPostCheck(b) == \E rr \in b.answers : BlockedAddress(rr)

\* get_parent_qname: the name without its first label; None at the top.
get_parent_qname(n) == IF Len(n) > 1 THEN Tail(n) ELSE None

\* The name itself and the names above it.
Ancestors(n) == {n} \cup {SubSeq(n, i, Len(n)) : i \in 1 .. Len(n)}

-----------------------------------------------------------------------------
\* The reply that ends the handling of a query.
Answer(q, from, rcode, body) ==
    /\ reply' = [question |-> q.question, from |-> from, rcode |-> rcode,
                 body |-> body]
    /\ pc' = "idle" /\ query' = None /\ at' = None
    /\ UNCHANGED <<pending, said, use_cache>>

\* pack_try_response_local, the queries that are refused or answered with
\* nothing as soon as they are looked at.
RefuseQuery(q) ==
    /\ pc = "idle"
    /\ \/ /\ \/ OPCODE_GET(q) \in {"IQUERY", "STATUS"}
             \/ OPCODE_GET(q) = "QUERY" /\ q.qcount > 1
          /\ Answer(q, "refused", "NOTIMP", Empty)
       \/ /\ OPCODE_GET(q) = "other" \/ (OPCODE_GET(q) = "QUERY" /\ q.qcount = 0)
          /\ Answer(q, "refused", "NOERROR", Empty)
    /\ UNCHANGED cacheVars

AcceptQuery_skipsName(q) ==
    /\ pc = "idle"
    /\ OPCODE_GET(q) = "QUERY" /\ q.qcount = 1
    /\ at' = get_parent_qname(q.question.name)
    /\ pc' = IF at' = None THEN "lookup" ELSE "pre"
    /\ query' = q /\ reply' = None
    /\ UNCHANGED <<cacheVars, use_cache, pending, said>>

\* A question to answer: query_pre_validate begins with the name itself.
AcceptQuery(q) ==
    /\ pc = "idle"
    /\ OPCODE_GET(q) = "QUERY" /\ q.qcount = 1
    /\ pc' = "pre" /\ query' = q /\ at' = q.question.name /\ reply' = None
    /\ UNCHANGED <<cacheVars, use_cache, pending, said>>

AtQuestion == [name |-> at, type |-> query.question.type]

\* A lookup of query_pre_validate that finds a blocked address.
PreBlocks ==
    /\ pc = "pre"
    /\ Cache!Hit(AtQuestion)
    /\ FailsPreCheck(value[AtQuestion])
    /\ Answer(query, "blocked", "NXDOMAIN", Empty)

PrePasses_firstOnly ==
    /\ pc = "pre"
    /\ \/ Cache!LookupFails(AtQuestion)
       \/ Cache!Hit(AtQuestion) /\ ~FailsPreCheck(value[AtQuestion])
    /\ at' = None /\ pc' = "lookup"
    /\ UNCHANGED <<query, use_cache, pending, reply, said>>

\* One that finds none: on to the parent, or to the answer.
PrePasses ==
    /\ pc = "pre"
    /\ \/ Cache!LookupFails(AtQuestion)
       \/ Cache!Hit(AtQuestion) /\ ~FailsPreCheck(value[AtQuestion])
    /\ at' = get_parent_qname(at)
    /\ pc' = IF at' = None THEN "lookup" ELSE "pre"
    /\ UNCHANGED <<query, use_cache, pending, reply, said>>

\* The query's header and question with the records of the cache.
pack_make_std_response_local(body) == Answer(query, "cache", "NOERROR", body)

\* The answer is in the cache: query_post_validate looks at its answer
\* section before the packet goes out.
AnswerFromCache ==
    /\ pc = "lookup"
    /\ Cache!Hit(query.question)
    /\ LET body == value[query.question]
       IN IF FailsPostCheck(body)
          THEN Answer(query, "post", "NXDOMAIN", Empty)
          ELSE pack_make_std_response_local(body)

\* The answer is not here, and the client wants no recursion.
AnswerNothing ==
    /\ pc = "lookup"
    /\ Cache!LookupFails(query.question)
    /\ ~query.rd
    /\ Answer(query, "nothing", "NOERROR", Empty)

\* The answer is not here: UPSTREAM, the query is relayed.
RelayQuery ==
    /\ pc = "lookup"
    /\ Cache!LookupFails(query.question)
    /\ query.rd
    /\ \E id \in RelayIds :
          /\ pending[id] = None
          /\ pending' = [pending EXCEPT ![id] = query.question]
    /\ pc' = "idle" /\ query' = None
    /\ UNCHANGED <<at, reply, said, use_cache>>

\* The same with no relay id left.
RelayExhausted ==
    /\ pc = "lookup"
    /\ Cache!LookupFails(query.question)
    /\ query.rd
    /\ \A id \in RelayIds : pending[id] # None
    /\ Answer(query, "failed", "SERVFAIL", Empty)

RelayAnswer_cachesOnce(id, k, u) ==
    /\ pc = "idle" /\ pending[id] # None
    /\ pending' = [pending EXCEPT ![id] = None]
    /\ reply' = [question |-> k, from |-> "upstream", rcode |-> u.rcode,
                 body |-> u.body]
    /\ said' = [said EXCEPT ![k] = u]
    /\ IF use_cache /\ value[k] = None THEN Cache!Store(k, u.body)
       ELSE UNCHANGED cacheVars
    /\ UNCHANGED <<use_cache, pc, query, at>>

RelayAnswer_cachesAlways(id, k, u) ==
    /\ pc = "idle" /\ pending[id] # None
    /\ pending' = [pending EXCEPT ![id] = None]
    /\ reply' = [question |-> k, from |-> "upstream", rcode |-> u.rcode,
                 body |-> u.body]
    /\ said' = [said EXCEPT ![k] = u]
    /\ Cache!Store(k, u.body)
    /\ UNCHANGED <<use_cache, pc, query, at>>

\* pack_make_response_relay: the upstream's packet goes to the client as it
\* is; its records, without the rcode, go into the cache under its own
\* question k, which nobody compares with the one that was relayed.
RelayAnswer(id, k, u) ==
    /\ pc = "idle" /\ pending[id] # None
    /\ pending' = [pending EXCEPT ![id] = None]
    /\ reply' = [question |-> k, from |-> "upstream", rcode |-> u.rcode,
                 body |-> u.body]
    /\ said' = [said EXCEPT ![k] = u]
    /\ IF use_cache THEN Cache!Store(k, u.body) ELSE UNCHANGED cacheVars
    /\ UNCHANGED <<use_cache, pc, query, at>>

\* The upstream never answers (module Relay gives up on the query).
RelayFails(id) ==
    /\ pc = "idle" /\ pending[id] # None
    /\ pending' = [pending EXCEPT ![id] = None]
    /\ reply' = [question |-> pending[id], from |-> "failed", rcode |-> "SERVFAIL",
                 body |-> Empty]
    /\ UNCHANGED <<cacheVars, use_cache, pc, query, at, said>>

-----------------------------------------------------------------------------
\* Time passes.
Tick == Cache!Tick /\ UNCHANGED <<use_cache, pc, query, at, pending, reply, said>>

\* The daemon prunes; it is started only when the cache is used.
Prune(k) ==
    /\ use_cache
    /\ Cache!Expire(k)
    /\ UNCHANGED <<use_cache, pc, query, at, pending, reply, said>>

-----------------------------------------------------------------------------
\* The ip table is in the cache.  Whether upstream answers are cached is
\* open: dns_resolver_config_parser leaves its result unset for the key
\* usecache (its strcasecmp is inverted), so use_cache is what was there.
Init ==
    /\ order \in {s \in [1 .. Cardinality(DOMAIN IpTable) -> DOMAIN IpTable] :
                     \A i, j \in DOMAIN s : s[i] = s[j] => i = j}
    /\ value = [k \in Question |-> IF k \in DOMAIN IpTable THEN IpTable[k]
                                   ELSE None]
    /\ age = [k \in Question |-> 0]
    /\ result = None
    /\ use_cache \in BOOLEAN
    /\ pc = "idle" /\ query = None /\ at = None
    /\ pending = [id \in RelayIds |-> None]
    /\ reply = None
    /\ said = [k \in Question |-> None]

Next ==
    \/ \E q \in Queries : RefuseQuery(q) \/ AcceptQuery(q)
    \/ PreBlocks \/ PrePasses
    \/ AnswerFromCache \/ AnswerNothing \/ RelayQuery \/ RelayExhausted
    \/ \E id \in RelayIds, k \in Question, u \in UpstreamReplies : RelayAnswer(id, k, u)
    \/ \E id \in RelayIds : RelayFails(id)
    \/ \E k \in Question : Prune(k)
    \/ Tick

Spec == Init /\ [][Next]_vars

-----------------------------------------------------------------------------
Relayed == {pending[id] : id \in RelayIds} \ {None}
AllZero(m) == \A i \in 1 .. Len(m) : m[i] = 0
HoldsBlock(k) == k \in DOMAIN IpTable /\ value[k] = IpTable[k]
                    /\ \E rr \in IpTable[k].answers : AllZero(rr.rdata)

\* While the ip table blocks a name, no question of that type for the name
\* or for a name under it leaves the server (query_pre_validate walks up to
\* the last label, and nothing between its lookups and the decision to
\* relay can put a table entry back).
BlockedIsNotRelayed ==
    \A k \in Relayed, a \in Names :
        a \in Ancestors(k.name) => ~HoldsBlock([name |-> a, type |-> k.type])

\* query_pre_validate has already refused whatever query_post_validate would
\* refuse: pruning and expiry between the two lookups can take the entry
\* away but put no other in its place.
PreCheckSuffices == reply # None => reply.from # "post"

\* The records the cache answers with are the ip table's, or those of the
\* last upstream response that carried this very question; never an older
\* one's, and never an empty stand-in for an entry that expired on the way.
\* (The rcode of the response is not among what is stored.)
CacheAnswersAsStored ==
    reply # None /\ reply.from = "cache" =>
        \/ reply.question \in DOMAIN IpTable
              /\ reply.body = IpTable[reply.question]
        \/ \E s \in {said[reply.question]} : s # None /\ s.body = reply.body

\* Without upstream answers in the cache nothing pushes the ip table out:
\* every question in it is answered from it for as long as the server runs.
TableStaysUnlessCaching ==
    ~use_cache => \A k \in DOMAIN IpTable : value[k] = IpTable[k]

-----------------------------------------------------------------------------
(* What the documentation says and the code does not do.                   *)

\* dns_resolver.c:771 and :837, architect.md:342: a query is refused for an
\* address whose bytes are all zero.  Behind every NXDOMAIN of the block list
\* should be such a record, of the ip table or of the last upstream response,
\* for the name or a name above it and of the type asked for.
BlocksOnlyAllZero ==
    reply # None /\ reply.from = "blocked" =>
        \E a \in Ancestors(reply.question.name) :
            LET k == [name |-> a, type |-> reply.question.type]
                cause == (IF k \in DOMAIN IpTable THEN Records(IpTable[k]) ELSE {})
                           \cup (IF said[k] # None THEN Records(said[k].body) ELSE {})
            IN \E rr \in cause : AllZero(rr.rdata)
=============================================================================
