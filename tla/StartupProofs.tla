---------------------------- MODULE StartupProofs ----------------------------
(***************************************************************************)
(* For every configuration file, command line and ip table: the server     *)
(* does not start with itself or with no address as an upstream, its error *)
(* reports name their cause, its messages stay inside their buffer, and it *)
(* works with the settings it was given.                                   *)
(***************************************************************************)
EXTENDS Startup, NumberLemmas, SequenceTheorems, FiniteSetTheorems, TLAPS

(* The two loops that are folds, by their rounds.                          *)

Rounds(s, a, n, f) ==
    f = [i \in 0 .. n |-> IF i = 0 THEN [store |-> s, skip |-> FALSE, ips |-> <<>>]
                          ELSE TakeArg(f[i - 1], a[i])]
Throws(c, w, n, f) == f = [i \in 0 .. n |-> IF i = 0 THEN c ELSE Throw(f[i - 1], w[i])]

\* The loop over the words has as many rounds as there are words.
LEMMA RoundsExist ==
  ASSUME NEW s, NEW a, NEW n \in Nat
  PROVE  \E f : Rounds(s, a, n, f)
<1> DEFINE P == {m \in Nat : \E f : Rounds(s, a, m, f)}
           r == [store |-> s, skip |-> FALSE, ips |-> <<>>]
<1>1. 0 \in P
  <2> DEFINE f == [i \in 0 .. 0 |-> r]
  <2>1. Rounds(s, a, 0, f)
    BY DEF Rounds
  <2> QED BY <2>1
<1>2. ASSUME NEW m \in 0 .. n - 1, m \in P PROVE m + 1 \in P
  <2>1. PICK f : Rounds(s, a, m, f)
    BY <1>2
  <2> DEFINE g == [i \in 0 .. m + 1 |-> IF i <= m THEN f[i] ELSE TakeArg(f[m], a[m + 1])]
             h == [i \in 0 .. m + 1 |-> IF i = 0 THEN r ELSE TakeArg(g[i - 1], a[i])]
  <2>2. ASSUME NEW i \in 0 .. m + 1 PROVE g[i] = h[i]
    <3>1. CASE i = 0
      BY <2>1, <3>1 DEF Rounds
    <3>2. CASE i \in 1 .. m
      <4>1. f[i] = TakeArg(f[i - 1], a[i])
        <5>1. i \in 0 .. m /\ i # 0
          BY <3>2
        <5>2. \A j \in 0 .. m : f[j] = IF j = 0 THEN r ELSE TakeArg(f[j - 1], a[j])
          BY <2>1 DEF Rounds
        <5> HIDE DEF r
        <5> QED BY <5>1, <5>2
      <4>2. g[i] = f[i] /\ g[i - 1] = f[i - 1] /\ h[i] = TakeArg(g[i - 1], a[i])
        BY <3>2
      <4> QED BY <4>1, <4>2
    <3>3. CASE i = m + 1
      BY <3>3
    <3> QED BY <3>1, <3>2, <3>3
  <2>3. g = h
    BY <2>2
  <2>4. Rounds(s, a, m + 1, g)
    <3> HIDE DEF g
    <3> QED BY <2>3 DEF Rounds
  <2> QED BY <2>4
<1>3. 0 .. n \subseteq P
  <2> HIDE DEF P
  <2> QED BY <1>1, <1>2, UpTo
<1> QED BY <1>3

\* So it is for the messages of a failure.
LEMMA ThrowsExist ==
  ASSUME NEW c, NEW w, NEW n \in Nat
  PROVE  \E f : Throws(c, w, n, f)
<1> DEFINE P == {m \in Nat : \E f : Throws(c, w, m, f)}
<1>1. 0 \in P
  <2> DEFINE f == [i \in 0 .. 0 |-> c]
  <2>1. Throws(c, w, 0, f)
    BY DEF Throws
  <2> QED BY <2>1
<1>2. ASSUME NEW m \in 0 .. n - 1, m \in P PROVE m + 1 \in P
  <2>1. PICK f : Throws(c, w, m, f)
    BY <1>2
  <2> DEFINE g == [i \in 0 .. m + 1 |-> IF i <= m THEN f[i] ELSE Throw(f[m], w[m + 1])]
             h == [i \in 0 .. m + 1 |-> IF i = 0 THEN c ELSE Throw(g[i - 1], w[i])]
  <2>2. ASSUME NEW i \in 0 .. m + 1 PROVE g[i] = h[i]
    <3>1. CASE i = 0
      BY <2>1, <3>1 DEF Throws
    <3>2. CASE i \in 1 .. m
      <4>1. f[i] = Throw(f[i - 1], w[i])
        BY <2>1, <3>2 DEF Throws
      <4>2. g[i] = f[i] /\ g[i - 1] = f[i - 1] /\ h[i] = Throw(g[i - 1], w[i])
        BY <3>2
      <4> QED BY <4>1, <4>2
    <3>3. CASE i = m + 1
      BY <3>3
    <3> QED BY <3>1, <3>2, <3>3
  <2>3. g = h
    BY <2>2
  <2>4. Throws(c, w, m + 1, g)
    <3> HIDE DEF g
    <3> QED BY <2>3 DEF Throws
  <2> QED BY <2>4
<1>3. 0 .. n \subseteq P
  <2> HIDE DEF P
  <2> QED BY <1>1, <1>2, UpTo
<1> QED BY <1>3

\* The result of a loop is that of its last round.
LEMMA LastRound ==
  ASSUME NEW s, NEW a, Len(a) \in Nat
  PROVE  \E f : Rounds(s, a, Len(a), f) /\ TakeAll(s, a) = f[Len(a)]
<1> DEFINE t == CHOOSE f : Rounds(s, a, Len(a), f)
<1>1. Rounds(s, a, Len(a), t)
  BY RoundsExist
<1>2. TakeAll(s, a) = t[Len(a)]
  BY DEF TakeAll, Rounds
<1> QED BY <1>1, <1>2

\* And of the last message.
LEMMA LastThrow ==
  ASSUME NEW c, NEW w, Len(w) \in Nat
  PROVE  \E f : Throws(c, w, Len(w), f) /\ ThrowAll(c, w) = f[Len(w)]
<1> DEFINE t == CHOOSE f : Throws(c, w, Len(w), f)
<1>1. Throws(c, w, Len(w), t)
  BY ThrowsExist
<1>2. ThrowAll(c, w) = t[Len(w)]
  BY DEF ThrowAll, Throws
<1> QED BY <1>1, <1>2

-----------------------------------------------------------------------------
(* What is stored and what is read.                                        *)

Refused == {"localhost", "invalid", "="}
Sections == {"log", "dnsresolver", "server"}

\* A list of upstreams the server may work with.
Fine(v) == v # <<>> /\ Range(v) \cap Refused = {}

\* What holds of a stored value, beyond its type: a list of upstreams is not
\* empty, and a parsed one fine; a parsed level is a level.
GoodFor(k, v) ==
    /\ v \in [is_cook : BOOLEAN, value : Seq(Tokens)]
    /\ k = Upstreams => v.value # <<>> /\ (v.is_cook => Fine(v.value))
    /\ k = LogLevel => (v.is_cook => v.value[1] \in Range(Levels))

StoreOK(s) == \A k \in DOMAIN s : GoodFor(k, s[k])

\* What holds of a setting that a component has read.
ReadOK(k, g) ==
    /\ g \in [from : {"default", "raw", "parsed"}, value : Seq(Tokens)]
    /\ k = Upstreams => (g.from = "parsed" => Fine(g.value))
    /\ k = LogLevel => (g.from = "parsed" => g.value[1] \in Range(Levels))

\* hash_map_put of a good value.
LEMMA PutKeepsStore ==
  ASSUME NEW s, StoreOK(s), NEW k, NEW v, GoodFor(k, v)
  PROVE  StoreOK(Put(s, k, v))
<1>1. /\ DOMAIN Put(s, k, v) = {k} \cup DOMAIN s
      /\ \A x \in DOMAIN s \cup {k} : Put(s, k, v)[x] = IF x = k THEN v ELSE s[x]
  BY DEF Put
<1> QED BY <1>1 DEF StoreOK

\* The settings have different keys.
LEMMA KeysDiffer ==
  /\ Upstreams # LogLevel /\ Upstreams \in Keys /\ LogLevel \in Keys
  /\ \A k \in Keys : k[1] \in Sections \cup {"dns"}
  /\ Upstreams[1] = "server" /\ LogLevel[1] = "log"
  /\ UseCache \in Keys /\ Timeout \in Keys /\ Retries \in Keys /\ IpTablePath \in Keys
  /\ \A i \in 1 .. 5 : Channel(i) \in Keys /\ Channel(i) # Upstreams
  /\ Upstreams \notin {UseCache, Timeout, Retries, IpTablePath}
  /\ DOMAIN Levels = 1 .. 5 /\ Len(Levels) = 5
<1>1. DOMAIN Levels = 1 .. 5 /\ Len(Levels) = 5
  BY DEF Levels
<1>2. \A i \in 1 .. 5 : Channel(i)[1] = "log" /\ Channel(i) # Upstreams
  BY DEF Channel, Upstreams
<1> QED BY <1>1, <1>2 DEF Keys, Sections, LogLevel, IpTablePath, UseCache, Timeout,
                          Retries, Upstreams

\* What a parser may return for a good string.
ParseOK(k, p) ==
    /\ p.ret \in {"ok", "failed", "undefined"} /\ p.throws \in Seq(Messages)
    /\ p.ret = "ok" => GoodFor(k, ConfigValue(TRUE, p.value))
    /\ p.ret = "failed" => k = Upstreams

\* Upstreams that are refused wherever they stand are not in what is left.
LEMMA UpstreamsParsed ==
  ASSUME NEW v \in Seq(Tokens), v # <<>>, NEW p \in ParseUpstreams(v)
  PROVE  ParseOK(Upstreams, p)
<1>1. <<"localhost", "upstream failed">> \in Seq(Messages)
      /\ <<"ipstr2binary", "upstream failed">> \in Seq(Messages) /\ <<>> \in Seq(Messages)
  BY DEF Messages
<1> DEFINE bad == {i \in 1 .. Len(v) : v[i] \in Refused}
<1>2. CASE bad = {} /\ p = Success(Reverse(v))
  <2>1. /\ Len(v) \in Nat \ {0} /\ Reverse(v) = [i \in 1 .. Len(v) |-> v[Len(v) - i + 1]]
        /\ \A i \in 1 .. Len(v) : v[i] \in Tokens
    BY LenProperties, EmptySeq, ElementOfSeq DEF Reverse
  <2>2. \A i \in 1 .. Len(v) : Len(v) - i + 1 \in 1 .. Len(v)
    BY <2>1
  <2>3. /\ Reverse(v) \in [1 .. Len(v) -> Tokens] /\ DOMAIN Reverse(v) = 1 .. Len(v)
        /\ \A i \in 1 .. Len(v) : Reverse(v)[i] \notin Refused
    BY <1>2, <2>1, <2>2
  <2>4. Reverse(v) \in Seq(Tokens)
    BY <2>1, <2>3, SeqDef
  <2>5. Reverse(v) # <<>>
    <3>1. 1 \in DOMAIN Reverse(v)
      BY <2>1, <2>3
    <3> HIDE <2>1
    <3> QED BY <3>1
  <2>6. Range(Reverse(v)) \cap Refused = {}
    BY <2>3 DEF Range
  <2> DEFINE w == Reverse(v)
  <2>7. ConfigValue(TRUE, w) \in [is_cook : BOOLEAN, value : Seq(Tokens)]
        /\ ConfigValue(TRUE, w).value = w
    BY <2>4 DEF ConfigValue
  <2>8. p.ret = "ok" /\ p.throws = <<>> /\ p.value = w
    BY <1>2 DEF Success
  <2> HIDE DEF w
  <2>9. GoodFor(Upstreams, ConfigValue(TRUE, w))
    BY <2>5, <2>6, <2>7, KeysDiffer DEF GoodFor, Fine, w
  <2> QED BY <1>1, <2>8, <2>9 DEF ParseOK
<1>3. CASE \E t \in {<<"localhost", "upstream failed">>, <<"ipstr2binary", "upstream failed">>} :
              p = Failure(t)
  <2>1. PICK t \in {<<"localhost", "upstream failed">>, <<"ipstr2binary", "upstream failed">>} :
              p = Failure(t)
    BY <1>3
  <2>2. t \in Seq(Messages)
    BY <1>1
  <2>3. p.ret = "failed" /\ p.throws = t
    BY <2>1 DEF Failure
  <2> QED BY <2>2, <2>3 DEF ParseOK
<1>4. CASE p = Undefined
  BY <1>1, <1>4 DEF ParseOK, Undefined
<1> QED BY <1>2, <1>3, <1>4 DEF ParseUpstreams, Refused

\* Every parser gives good values for good strings; only the list of
\* upstreams can be refused.
LEMMA ParserOK ==
  ASSUME NEW k \in Keys, k[1] \in Sections, NEW v \in Seq(Tokens),
         k = Upstreams => v # <<>>, NEW p \in Parser(k, v)
  PROVE  ParseOK(k, p)
<1>1. <<>> \in Seq(Messages) /\ <<"INFO">> \in Seq(Tokens) /\ <<"unset">> \in Seq(Tokens)
      /\ <<"0">> \in Seq(Tokens)
  BY StartupAssumption
<1>2. ASSUME NEW w \in Seq(Tokens), p = Success(w), k # Upstreams,
             k = LogLevel => w[1] \in Range(Levels)
      PROVE  ParseOK(k, p)
  <2>1. /\ p.ret = "ok" /\ p.throws = <<>> /\ p.value = w
    BY <1>2 DEF Success
  <2>2. ConfigValue(TRUE, w) \in [is_cook : BOOLEAN, value : Seq(Tokens)]
        /\ ConfigValue(TRUE, w).value = w
    BY DEF ConfigValue
  <2> QED BY <1>1, <1>2, <2>1, <2>2 DEF ParseOK, GoodFor
<1>3. CASE k[1] = "log"
  <2>1. k # Upstreams
    BY <1>3, KeysDiffer
  <2>2. p \in log_config_parser(k, v)
    BY <1>3 DEF Parser
  <2>3. CASE p = Undefined
    BY <1>1, <2>3 DEF ParseOK, Undefined
  <2>4. CASE k = LogLevel
    <3>1. <<"INFO">>[1] \in Range(Levels)
      <4>1. 3 \in DOMAIN Levels /\ Levels[3] = "INFO"
        BY DEF Levels
      <4>2. "INFO" \in Range(Levels)
        BY <4>1 DEF Range
      <4> QED BY <4>2
    <3>2. \E w \in {v, <<"INFO">>} : p = Success(w) /\ w[1] \in Range(Levels)
      BY <2>2, <2>4, <3>1 DEF log_config_parser
    <3> QED BY <1>1, <1>2, <2>1, <3>2
  <2>5. CASE k # LogLevel /\ p = Success(v)
    BY <1>2, <2>1, <2>5
  <2> QED BY <2>2, <2>3, <2>4, <2>5 DEF log_config_parser
<1>4. CASE k[1] = "dnsresolver"
  <2>1. k # Upstreams /\ k # LogLevel
    BY <1>4, KeysDiffer
  <2>2. p = Success(<<"unset">>)
    BY <1>4 DEF Parser, dns_resolver_config_parser
  <2> QED BY <1>1, <1>2, <2>1, <2>2
<1>5. CASE k[1] = "server"
  <2>1. k # LogLevel /\ p \in server_config_parser(k, v)
    BY <1>5, KeysDiffer DEF Parser
  <2>2. CASE k = Upstreams
    BY <2>1, <2>2, UpstreamsParsed DEF server_config_parser
  <2>3. CASE k # Upstreams
    <3>1. \E w \in {v, <<"0">>} : p = Success(w)
      BY <2>1, <2>3 DEF server_config_parser
    <3> QED BY <1>1, <1>2, <2>1, <2>3, <3>1
  <2> QED BY <2>2, <2>3
<1> QED BY <1>3, <1>4, <1>5 DEF Sections

\* config_get keeps the store good, gives good settings, and fails for the
\* list of upstreams only; when it does not fail it leaves no message.
LEMMA GetOK ==
  ASSUME StoreOK(store), parsers \subseteq Sections, NEW k \in Keys,
         NEW cur, ReadOK(k, cur), NEW o \in config_get(k, cur, Parses(k))
  PROVE  /\ StoreOK(o.store) /\ ReadOK(k, o.got) /\ o.throws \in Seq(Messages)
         /\ o.ret \in {"missing", "ok", "failed", "undefined"}
         /\ o.ret \in {"missing", "ok"} => o.throws = <<>>
         /\ o.ret = "failed" => k = Upstreams /\ o.throws # <<>>
<1>0. <<>> \in Seq(Messages) /\ "when config_get" \in Messages
  BY DEF Messages
<1> DEFINE Found(v) == [from |-> IF v.is_cook THEN "parsed" ELSE "raw", value |-> v.value]
           Same(ret, throws) == [ret |-> ret, store |-> store, throws |-> throws, got |-> cur]
           Cooked(p) == ConfigValue(TRUE, p.value)
<1>1. ASSUME NEW v, GoodFor(k, v) PROVE ReadOK(k, Found(v))
  <2>1. v.is_cook \in BOOLEAN /\ v.value \in Seq(Tokens)
    BY <1>1 DEF GoodFor
  <2>2. /\ Found(v).from \in {"raw", "parsed"} /\ Found(v).value = v.value
        /\ Found(v).from = "parsed" => v.is_cook
        /\ Found(v) \in [from : {"default", "raw", "parsed"}, value : Seq(Tokens)]
    BY <2>1
  <2> HIDE DEF Found
  <2> QED BY <1>1, <2>2 DEF GoodFor, ReadOK
<1>2. CASE o = Same("missing", <<>>)
  BY <1>0, <1>2
<1>3. CASE k \in DOMAIN store /\ o = [Same("ok", <<>>) EXCEPT !.got = Found(store[k])]
  <2>1. o.ret = "ok" /\ o.throws = <<>> /\ o.store = store /\ o.got = Found(store[k])
    BY <1>3
  <2>2. GoodFor(k, store[k])
    BY <1>3 DEF StoreOK
  <2> HIDE DEF Found
  <2> QED BY <1>0, <1>1, <2>1, <2>2
<1>4. CASE k \in DOMAIN store /\ k[1] \in parsers /\
           \E p \in Parses(k) :
              o = IF p.ret = "ok"
                  THEN [Same("ok", <<>>) EXCEPT !.store = Put(store, k, Cooked(p)),
                                                !.got = Found(Cooked(p))]
                  ELSE Same(p.ret, Append(p.throws, "when config_get"))
  <2>1. PICK p \in Parses(k) :
              o = IF p.ret = "ok"
                  THEN [Same("ok", <<>>) EXCEPT !.store = Put(store, k, Cooked(p)),
                                                !.got = Found(Cooked(p))]
                  ELSE Same(p.ret, Append(p.throws, "when config_get"))
    BY <1>4
  <2>2. p \in Parser(k, store[k].value)
    BY <1>4, <2>1 DEF Parses
  <2>3. GoodFor(k, store[k])
    BY <1>4 DEF StoreOK
  <2>4. store[k].value \in Seq(Tokens) /\ (k = Upstreams => store[k].value # <<>>)
    BY <2>3 DEF GoodFor
  <2>5. k[1] \in Sections
    BY <1>4
  <2>6. ParseOK(k, p)
    BY <2>2, <2>4, <2>5, ParserOK
  <2>7. CASE p.ret = "ok"
    <3>1. o.ret = "ok" /\ o.throws = <<>> /\ o.store = Put(store, k, Cooked(p))
          /\ o.got = Found(Cooked(p))
      BY <2>1, <2>7
    <3>2. GoodFor(k, Cooked(p))
      BY <2>6, <2>7 DEF ParseOK
    <3> HIDE DEF Found, Cooked
    <3>3. StoreOK(o.store)
      BY <3>1, <3>2, PutKeepsStore
    <3> QED BY <1>0, <1>1, <3>1, <3>2, <3>3
  <2>8. CASE p.ret # "ok"
    <3>1. o.ret = p.ret /\ o.store = store /\ o.got = cur
          /\ o.throws = Append(p.throws, "when config_get")
      BY <2>1, <2>8
    <3>2. p.throws \in Seq(Messages)
      BY <2>6 DEF ParseOK
    <3>3. o.throws \in Seq(Messages) /\ o.throws # <<>>
      <4> DEFINE q == Append(p.throws, "when config_get")
      <4>1. q \in Seq(Messages) /\ Len(q) = Len(p.throws) + 1 /\ Len(p.throws) \in Nat
        <5>1. \A m \in Messages : \A s \in Seq(Messages) :
                 Append(s, m) \in Seq(Messages) /\ Len(Append(s, m)) = Len(s) + 1
          BY AppendProperties
        <5>2. Len(p.throws) \in Nat
          BY <3>2, LenProperties
        <5> QED BY <1>0, <3>2, <5>1, <5>2, Zenon
      <4>2. o.throws = q
        BY <3>1
      <4> HIDE DEF q
      <4>3. Len(q) # 0
        BY <4>1
      <4> QED BY <4>1, <4>2, <4>3, EmptySeq
    <3> QED BY <2>6, <2>8, <3>1, <3>3 DEF ParseOK
  <2> QED BY <2>7, <2>8
<1> QED
  <2>1. CASE k \notin DOMAIN store
    BY <1>2, <2>1 DEF config_get
  <2>2. CASE k \in DOMAIN store
    <3>1. PICK found \in MayFind(k[1]) :
             o \in IF found /\ ~store[k].is_cook
                   THEN {IF p.ret = "ok"
                         THEN [Same("ok", <<>>) EXCEPT !.store = Put(store, k, Cooked(p)),
                                                       !.got = Found(Cooked(p))]
                         ELSE Same(p.ret, Append(p.throws, "when config_get")) :
                            p \in Parses(k)}
                   ELSE {[Same("ok", <<>>) EXCEPT !.got = Found(store[k])]}
      BY <2>2 DEF config_get
    <3>2. found => k[1] \in parsers
      BY <3>1 DEF MayFind
    <3> HIDE DEF Found, Same, Cooked
    <3> QED BY <1>3, <1>4, <2>2, <3>1, <3>2
  <2> QED BY <2>1, <2>2

-----------------------------------------------------------------------------
(* The steps that write the store.                                         *)

\* A string of the file or the command line is a good value for every key.
LEMMA RawIsGood ==
  ASSUME NEW k, NEW v \in Seq(Tokens), v # <<>>
  PROVE  GoodFor(k, ConfigValue(FALSE, v))
<1>1. ConfigValue(FALSE, v) \in [is_cook : BOOLEAN, value : Seq(Tokens)]
      /\ ConfigValue(FALSE, v).value = v /\ ConfigValue(FALSE, v).is_cook = FALSE
  BY DEF ConfigValue
<1> QED BY <1>1 DEF GoodFor

\* The levels of -d and -dd are levels.
LEMMA LevelIsGood ==
  ASSUME NEW x \in {"DEBUG", "TRACE"}
  PROVE  GoodFor(<<"log", "log_level">>, ConfigValue(TRUE, <<x>>))
<1>1. <<x>> \in Seq(Tokens) /\ <<x>>[1] = x
  BY StartupAssumption
<1>2. x \in Range(Levels)
  <2>1. 1 \in DOMAIN Levels /\ 2 \in DOMAIN Levels /\ Levels[1] = "TRACE" /\ Levels[2] = "DEBUG"
    BY DEF Levels
  <2> QED BY <2>1 DEF Range
<1> DEFINE w == <<x>>
<1> HIDE DEF w
<1>3. ConfigValue(TRUE, w) \in [is_cook : BOOLEAN, value : Seq(Tokens)]
      /\ ConfigValue(TRUE, w).value = w
  BY <1>1 DEF ConfigValue, w
<1>4. <<"log", "log_level">> = LogLevel
  BY DEF LogLevel
<1> QED BY <1>1, <1>2, <1>3, <1>4, KeysDiffer DEF GoodFor, w

\* A line of the file keeps the store good.
LEMMA LoadLineOK ==
  ASSUME StoreOK(store), lines \in Seq(Line), LoadLine
  PROVE  StoreOK(store') /\ lines' \in Seq(Line) /\ parsers' = parsers
<1> DEFINE l == Head(lines)
<1>1. lines # <<>> /\ l \in Line /\ Tail(lines) \in Seq(Line) /\ <<>> \in Seq(Line)
  BY HeadTailProperties DEF LoadLine
<1>2. lines' \in Seq(Line) /\ parsers' = parsers
  BY <1>1 DEF LoadLine, BlankLine
<1> SUFFICES ASSUME store' # store PROVE StoreOK(store')
  BY <1>2
<1>3. \E k : \E v \in Seq(Tokens) : v # <<>> /\ store' = Put(store, k, ConfigValue(FALSE, v))
  <2>1. <<"=">> \in Seq(Tokens) /\ <<"leftover">> \in Seq(Tokens)
        /\ <<"=">> # <<>> /\ <<"leftover">> # <<>>
    BY StartupAssumption
  <2>2. CASE l.kind \in {"pair", "spaced"} /\ InjectLine(l)
    <3> DEFINE v == IF l.kind = "spaced" THEN <<"=">> ELSE l.value
    <3>1. l.value \in Seq(Tokens) /\ (l.kind = "pair" => l.value # <<>>)
      BY <1>1 DEF Line
    <3>2. v \in Seq(Tokens) /\ v # <<>>
      BY <2>1, <2>2, <3>1
    <3>3. store' = Put(store, <<section, l.key>>, ConfigValue(FALSE, v))
      BY <2>2 DEF InjectLine, config_inject
    <3> HIDE DEF v
    <3> QED BY <3>2, <3>3
  <2>3. CASE BlankLine
    <3>1. store' = Put(store, <<section, "">>, ConfigValue(FALSE, <<"leftover">>))
      BY <2>3 DEF BlankLine, config_inject
    <3> QED BY <2>1, <3>1
  <2> QED BY <2>2, <2>3 DEF LoadLine
<1> QED BY <1>3, RawIsGood, PutKeepsStore

\* The store and the addresses after some words of the command line.
Taken(x) == \E s : \E b \in BOOLEAN : \E i \in Seq(Tokens) :
               StoreOK(s) /\ x = [store |-> s, skip |-> b, ips |-> i]

\* A word of the command line keeps the store good.
LEMMA TakeArgOK ==
  ASSUME NEW x, Taken(x), NEW a \in Tokens
  PROVE  Taken(TakeArg(x, a))
<1>0. PICK s : \E b \in BOOLEAN, i \in Seq(Tokens) :
           StoreOK(s) /\ x = [store |-> s, skip |-> b, ips |-> i]
  BY DEF Taken
<1>1. PICK b \in BOOLEAN, i \in Seq(Tokens) :
           StoreOK(s) /\ x = [store |-> s, skip |-> b, ips |-> i]
  BY <1>0
<1>2. ASSUME NEW y \in {"DEBUG", "TRACE"} PROVE StoreOK(config_set(s, "log", "log_level", <<y>>))
  BY <1>1, LevelIsGood, PutKeepsStore DEF config_set
<1>3. CASE b
  <2>1. TakeArg(x, a) = [store |-> s, skip |-> FALSE, ips |-> i]
    BY <1>1, <1>3 DEF TakeArg
  <2> QED BY <1>1, <2>1 DEF Taken
<1>4. CASE ~b /\ a = "-d"
  <2>1. TakeArg(x, a) = [store |-> config_set(s, "log", "log_level", <<"DEBUG">>),
                         skip |-> FALSE, ips |-> i]
    BY <1>1, <1>4 DEF TakeArg
  <2> QED BY <1>2, <2>1 DEF Taken
<1>5. CASE ~b /\ a = "-dd"
  <2>1. TakeArg(x, a) = [store |-> config_set(s, "log", "log_level", <<"TRACE">>),
                         skip |-> FALSE, ips |-> i]
    BY <1>1, <1>5 DEF TakeArg
  <2> QED BY <1>2, <2>1 DEF Taken
<1>6. CASE ~b /\ a = "-c"
  <2>1. TakeArg(x, a) = [store |-> s, skip |-> TRUE, ips |-> i]
    BY <1>1, <1>6 DEF TakeArg
  <2> QED BY <1>1, <2>1 DEF Taken
<1>7. CASE ~b /\ a \notin {"-d", "-dd", "-c"}
  <2>1. TakeArg(x, a) = [store |-> s, skip |-> FALSE, ips |-> Append(i, a)]
    BY <1>1, <1>7 DEF TakeArg
  <2>2. Append(i, a) \in Seq(Tokens)
    BY AppendProperties
  <2> QED BY <1>1, <2>1, <2>2 DEF Taken
<1> QED BY <1>3, <1>4, <1>5, <1>6, <1>7

\* The command line keeps the store good.
LEMMA TakeArgsOK ==
  ASSUME NEW s, StoreOK(s), NEW a \in Seq(Tokens)
  PROVE  StoreOK(param_inject_config(s, a))
<1>0. Len(a) \in Nat /\ \A i \in 1 .. Len(a) : a[i] \in Tokens
  BY LenProperties, ElementOfSeq
<1>1. PICK f : Rounds(s, a, Len(a), f) /\ TakeAll(s, a) = f[Len(a)]
  BY <1>0, LastRound
<1> DEFINE P == {n \in Nat : Taken(f[n])}
<1>2. 0 \in P
  <2>1. f[0] = [store |-> s, skip |-> FALSE, ips |-> <<>>]
    BY <1>0, <1>1 DEF Rounds
  <2>2. <<>> \in Seq(Tokens)
    OBVIOUS
  <2> QED BY <2>1, <2>2 DEF Taken
<1>3. ASSUME NEW m \in 0 .. Len(a) - 1, m \in P PROVE m + 1 \in P
  <2>1. m + 1 \in 1 .. Len(a) /\ m + 1 - 1 = m /\ m + 1 \in Nat /\ m + 1 # 0
    BY <1>0
  <2>2. f[m + 1] = TakeArg(f[m + 1 - 1], a[m + 1])
    <3>1. \A i \in 1 .. Len(a) : f[i] = TakeArg(f[i - 1], a[i])
      <4> SUFFICES ASSUME NEW i \in 1 .. Len(a) PROVE f[i] = TakeArg(f[i - 1], a[i])
        OBVIOUS
      <4> DEFINE r == [store |-> s, skip |-> FALSE, ips |-> <<>>]
      <4>1. \A j \in 0 .. Len(a) : f[j] = IF j = 0 THEN r ELSE TakeArg(f[j - 1], a[j])
        BY <1>1 DEF Rounds
      <4>2. i \in 0 .. Len(a) /\ i # 0
        BY <1>0
      <4> HIDE DEF r
      <4> QED BY <4>1, <4>2
    <3> QED BY <2>1, <3>1
  <2>3. Taken(TakeArg(f[m], a[m + 1]))
    BY <1>0, <1>3, <2>1, TakeArgOK
  <2> QED BY <2>1, <2>2, <2>3
<1>4. Taken(TakeAll(s, a))
  <2>1. 0 .. Len(a) \subseteq P
    <3> HIDE DEF P
    <3> QED BY <1>0, <1>2, <1>3, UpTo
  <2>2. Len(a) \in 0 .. Len(a)
    BY <1>0
  <2> QED BY <1>1, <2>1, <2>2
<1>9. PICK t : \E b \in BOOLEAN, i \in Seq(Tokens) :
           StoreOK(t) /\ TakeAll(s, a) = [store |-> t, skip |-> b, ips |-> i]
  BY <1>4 DEF Taken
<1>5. PICK b \in BOOLEAN, i \in Seq(Tokens) :
           StoreOK(t) /\ TakeAll(s, a) = [store |-> t, skip |-> b, ips |-> i]
  BY <1>9
<1>6. TakeAll(s, a).ips = i /\ TakeAll(s, a).store = t
  BY <1>5
<1>7. CASE i = <<>>
  BY <1>5, <1>6, <1>7 DEF param_inject_config
<1>8. CASE i # <<>>
  <2>1. param_inject_config(s, a) = Put(t, <<"server", "server_upstream">>, ConfigValue(FALSE, i))
    BY <1>6, <1>8 DEF param_inject_config, config_inject
  <2> QED BY <1>5, <1>8, <2>1, RawIsGood, PutKeepsStore
<1> QED BY <1>7, <1>8

-----------------------------------------------------------------------------
(* The error context.                                                      *)

Open == ex_try(Closed)

\* A context that holds messages of the step s only, and one at least if n.
Holds(c, s, n) ==
    /\ c \in [err_flag : {TRUE}, stack_top : Int, msg : Seq([what : Messages, step : {s}])]
    /\ n => c.msg # <<>>

\* One more message: it is kept when it is the first.
LEMMA ThrowOK ==
  ASSUME NEW c, NEW w \in Messages, c = Open \/ Holds(c, pc, TRUE)
  PROVE  Holds(Throw(c, w), pc, TRUE)
<1> DEFINE m == [what |-> w, step |-> pc]
           M == [what : Messages, step : {pc}]
           n == c.stack_top - Length[w]
<1>0. w \in DOMAIN Length /\ Length[w] > 0
  BY StartupAssumption
<1>1. m \in M /\ m.what = w /\ Length[w] \in 1 .. 511 /\ MSG_SIZE \in Nat /\ MSG_SIZE > 512
  <2>1. Length[w] \in 0 .. 511 /\ MSG_SIZE \in Nat /\ MSG_SIZE > 512
    BY <1>0, ErrorContextAssumption
  <2> QED BY <1>0, <2>1
<1>2. c \in [err_flag : {TRUE}, stack_top : Int, msg : Seq(M)]
  <2>1. <<>> \in Seq(M)
    OBVIOUS
  <2>2. CASE c = Open
    <3>1. MSG_SIZE - 1 \in Int
      BY <1>1
    <3> QED BY <2>1, <2>2, <3>1 DEF Open, ex_try
  <2>3. CASE Holds(c, pc, TRUE)
    BY <2>3 DEF Holds
  <2> QED BY <2>2, <2>3
<1>8. c.err_flag = TRUE /\ c.stack_top \in Int /\ c.msg \in Seq(M)
  <2> HIDE DEF M
  <2> QED BY <1>2
<1>9. Length[w] \in Int /\ Length[w] # 0
  BY <1>1
<1>3. Throw(c, w) = IF n < 0 THEN c ELSE [c EXCEPT !.stack_top = n - 1, !.msg = <<m>> \o @]
  <2>1. c.err_flag /\ Length[w] # 0
    BY <1>8, <1>9
  <2>2. Throw(c, w) = ex_throw(c, m)
    BY DEF Throw
  <2> HIDE DEF m
  <2>3. ex_throw(c, m) = IF Length[m.what] = 0 \/ c.stack_top - Length[m.what] < 0 THEN c
                         ELSE [c EXCEPT !.stack_top = c.stack_top - Length[m.what] - 1,
                                        !.msg = <<m>> \o @]
    <3> DEFINE open == IF c.err_flag THEN c ELSE ex_try(c)
    <3>1. ex_throw(c, m) = IF Length[m.what] = 0 \/ open.stack_top - Length[m.what] < 0 THEN open
                           ELSE [open EXCEPT !.stack_top = open.stack_top - Length[m.what] - 1,
                                             !.msg = <<m>> \o @]
      BY Zenon DEF ex_throw
    <3>2. open = c
      BY <2>1
    <3> HIDE DEF open
    <3> QED BY <3>1, <3>2, Zenon
  <2>4. m.what = w
    BY <1>1
  <2> QED BY <2>1, <2>2, <2>3, <2>4, Zenon
<1>4. c = Open => n >= 0
  <2>1. c = Open => c.stack_top = MSG_SIZE - 1
    BY DEF Open, ex_try
  <2> QED BY <1>1, <2>1
<1>7. n \in Int
  BY <1>8, <1>9
<1> HIDE DEF n
<1>5. CASE n < 0
  <2>1. c # Open
    BY <1>4, <1>5, <1>7
  <2>2. Throw(c, w) = c
    BY <1>3, <1>5
  <2>3. Holds(c, pc, TRUE)
    BY <2>1
  <2> QED BY <2>2, <2>3, Zenon
<1>6. CASE ~(n < 0)
  <2>1. <<m>> \in Seq(M) /\ Len(<<m>>) = 1
    BY <1>1
  <2>2. <<m>> \o c.msg \in Seq(M) /\ Len(<<m>> \o c.msg) = 1 + Len(c.msg) /\ Len(c.msg) \in Nat
    <3>1. c.msg \in Seq(M)
      BY <1>2
    <3> HIDE DEF M, m
    <3> QED BY <2>1, <3>1, ConcatProperties, LenProperties
  <2>3. <<m>> \o c.msg # <<>>
    <3> HIDE DEF m, M
    <3> QED BY <2>2, EmptySeq
  <2>4. Throw(c, w) = [err_flag |-> TRUE, stack_top |-> n - 1, msg |-> <<m>> \o c.msg]
    BY <1>2, <1>3, <1>6
  <2>5. n - 1 \in Int
    BY <1>7
  <2> DEFINE q == <<m>> \o c.msg
  <2> HIDE DEF q, n, m
  <2> QED BY <2>2, <2>3, <2>4, <2>5 DEF Holds, q
<1> QED BY <1>5, <1>6

\* The messages of a failure are those of its step, and one is there.
LEMMA ThrowAllOK ==
  ASSUME err = Open, NEW w \in Seq(Messages)
  PROVE  /\ w = <<>> => ThrowAll(err, w) = Open
         /\ w # <<>> => Holds(ThrowAll(err, w), pc, TRUE)
<1>0. Len(w) \in Nat /\ (w = <<>> <=> Len(w) = 0) /\ \A i \in 1 .. Len(w) : w[i] \in Messages
  BY LenProperties, ElementOfSeq, EmptySeq
<1>1. PICK f : Throws(err, w, Len(w), f) /\ ThrowAll(err, w) = f[Len(w)]
  BY <1>0, LastThrow
<1>2. f[0] = Open /\ \A i \in 1 .. Len(w) : f[i] = Throw(f[i - 1], w[i])
  BY <1>0, <1>1 DEF Throws
<1> DEFINE P == {n \in Nat : IF n = 0 THEN f[n] = Open ELSE Holds(f[n], pc, TRUE)}
<1>3. 0 \in P
  BY <1>2
<1>4. ASSUME NEW m \in 0 .. Len(w) - 1, m \in P PROVE m + 1 \in P
  <2>1. m + 1 \in 1 .. Len(w) /\ m + 1 - 1 = m /\ m + 1 \in Nat /\ m + 1 # 0
    BY <1>0
  <2>2. f[m + 1] = Throw(f[m + 1 - 1], w[m + 1])
    BY <1>2, <2>1
  <2>3. f[m + 1] = Throw(f[m], w[m + 1])
    BY <2>1, <2>2
  <2>4. f[m] = Open \/ Holds(f[m], pc, TRUE)
    BY <1>4
  <2>5. w[m + 1] \in Messages
    BY <1>0, <2>1
  <2>6. Holds(f[m + 1], pc, TRUE)
    BY <2>3, <2>4, <2>5, ThrowOK
  <2> QED BY <2>1, <2>6
<1>5. Len(w) \in P
  <2>1. 0 .. Len(w) \subseteq P
    <3> HIDE DEF P
    <3> QED BY <1>0, <1>3, <1>4, UpTo
  <2>2. Len(w) \in 0 .. Len(w)
    BY <1>0
  <2> QED BY <2>1, <2>2
<1> QED BY <1>0, <1>1, <1>5

-----------------------------------------------------------------------------
(* The inductive invariant.  What is stored and read is good; the steps    *)
(* that may report an error start with an empty context, which they open   *)
(* themselves, so that a report finds the messages of its own step; and    *)
(* the upstreams have been read when a socket is tried.                    *)

DataInv ==
    /\ StoreOK(store)
    /\ lines \in Seq(Line) /\ args \in Seq(Tokens)
    /\ parsers \subseteq Sections
    /\ DOMAIN settings = Keys /\ \A k \in Keys : ReadOK(k, settings[k])
    /\ ReportsNameTheirCause

Clean == {"cache", "resolver", "use_cache", "session", "server", "timeout", "retries",
          "check", "upstreams", "socket"}
Sockets == {"try_socket", "socket", "serving"}

StepInv ==
    /\ pc \in Clean => err = Open
    /\ pc \in DOMAIN Reports => /\ pc # "report_resolver"
                                /\ Holds(err, Reports[pc], pc # "report_upstreams")
    /\ pc \in Sockets => settings[Upstreams].from # "default"

StartInv == DataInv /\ StepInv

Plain(p) == p \notin Clean \cup DOMAIN Reports \cup Sockets

\* The steps that report.
LEMMA ReportSteps ==
  /\ DOMAIN Reports = {"report_cache", "report_resolver", "report_session",
                       "report_upstreams", "report_socket"}
  /\ Reports["report_cache"] = "cache" /\ Reports["report_session"] = "session"
  /\ Reports["report_upstreams"] = "upstreams" /\ Reports["report_socket"] = "socket"
BY DEF Reports

\* The steps of which the invariant says nothing.
LEMMA PlainSteps ==
  /\ \A p \in {"load", "args", "log", "log_level", "id_pool", "try_cache", "ip_table",
               "load_table", "try_resolver", "try_session", "try_server", "exit",
               "undefined"} : Plain(p)
  /\ \A p \in Range(Levels) : Plain(p)
<1>1. Range(Levels) = {"TRACE", "DEBUG", "INFO", "WARN", "ERROR"}
  <2>1. /\ DOMAIN Levels = 1 .. 5 /\ Levels[1] = "TRACE" /\ Levels[2] = "DEBUG"
        /\ Levels[3] = "INFO" /\ Levels[4] = "WARN" /\ Levels[5] = "ERROR"
    BY DEF Levels
  <2> QED BY <2>1 DEF Range
<1> QED BY <1>1, ReportSteps DEF Plain, Clean, Sockets

\* They keep it.
LEMMA PlainKeeps ==
  ASSUME Plain(pc')
  PROVE  StepInv'
BY DEF Plain, StepInv

\* ex_try empties the context, whatever it holds.
LEMMA TryOpens ==
  \A c : ex_try(c) = Open
BY DEF Open, ex_try

\* An open context, before anything went wrong.
LEMMA OpenHolds ==
  \A s : Holds(Open, s, FALSE)
<1> SUFFICES ASSUME NEW s PROVE Holds(Open, s, FALSE)
  OBVIOUS
<1>1. <<>> \in Seq([what : Messages, step : {s}])
  OBVIOUS
<1>2. MSG_SIZE - 1 \in Int
  BY ErrorContextAssumption
<1> QED BY <1>1, <1>2 DEF Holds, Open, ex_try

\* What a step that reads a setting does to the data.
LEMMA GetKeeps ==
  ASSUME DataInv, NEW k \in Keys, NEW o \in config_get(k, settings[k], Parses(k)),
         store' = o.store, settings' = [settings EXCEPT ![k] = o.got],
         UNCHANGED <<parsers, lines, section, last, inputs, report>>
  PROVE  /\ DataInv' /\ settings'[k] = o.got /\ o.throws \in Seq(Messages)
         /\ ReadOK(k, o.got)
         /\ o.ret \in {"missing", "ok", "failed", "undefined"}
         /\ o.ret \in {"missing", "ok"} => o.throws = <<>>
         /\ o.ret = "failed" => k = Upstreams /\ o.throws # <<>>
<1>1. ReadOK(k, settings[k]) /\ StoreOK(store) /\ parsers \subseteq Sections
      /\ DOMAIN settings = Keys
  BY DEF DataInv
<1>2. /\ StoreOK(o.store) /\ ReadOK(k, o.got) /\ o.throws \in Seq(Messages)
      /\ o.ret \in {"missing", "ok", "failed", "undefined"}
      /\ o.ret \in {"missing", "ok"} => o.throws = <<>>
      /\ o.ret = "failed" => k = Upstreams /\ o.throws # <<>>
  BY <1>1, GetOK
<1>3. /\ DOMAIN settings' = Keys /\ settings'[k] = o.got
      /\ \A x \in Keys : settings'[x] = IF x = k THEN o.got ELSE settings[x]
  BY <1>1
<1>4. \A x \in Keys : ReadOK(x, settings'[x])
  BY <1>2, <1>3 DEF DataInv
<1>5. StoreOK(store')
  BY <1>2
<1>6. ReportsNameTheirCause'
  BY DEF DataInv, ReportsNameTheirCause
<1>7. lines' \in Seq(Line) /\ args' \in Seq(Tokens) /\ parsers' \subseteq Sections
  BY DEF DataInv, inputs
<1> QED BY <1>2, <1>3, <1>4, <1>5, <1>6, <1>7 DEF DataInv

\* Steps that leave the data alone.
LEMMA DataStays ==
  ASSUME DataInv, UNCHANGED <<store, lines, args, settings, report>>,
         parsers' \subseteq Sections
  PROVE  DataInv'
BY DEF DataInv, ReportsNameTheirCause

\* A step that opens the context.
LEMMA TryKeeps ==
  ASSUME DataInv, NEW next \in Clean, Try(next),
         next \in Sockets => settings[Upstreams].from # "default"
  PROVE  StartInv'
<1>1. DataInv'
  BY DataStays DEF Try, configVars, inputs, DataInv
<1>2. pc' = next /\ err' = Open /\ settings' = settings
  BY TryOpens DEF Try
<1>3. next \notin DOMAIN Reports
  BY ReportSteps DEF Clean
<1> QED BY <1>1, <1>2, <1>3 DEF StartInv, StepInv

\* A step that may fail with messages.
LEMMA AttemptKeeps ==
  ASSUME DataInv, err = Open, NEW next, NEW w \in Seq(Messages), w # <<>>, NEW failed,
         failed \in DOMAIN Reports, failed # "report_resolver", Reports[failed] = pc,
         Attempt(next, w, failed),
         Plain(next) \/ (next = "serving" /\ settings[Upstreams].from # "default")
  PROVE  StartInv'
<1>1. DataInv' /\ settings' = settings
  BY DataStays DEF Attempt, configVars, inputs, DataInv
<1>2. CASE pc' = next
  <2>1. CASE Plain(next)
    BY <1>1, <1>2, <2>1, PlainKeeps DEF StartInv
  <2>2. CASE next = "serving" /\ settings[Upstreams].from # "default"
    BY <1>1, <1>2, <2>2, ReportSteps DEF StartInv, StepInv, Clean
  <2> QED BY <2>1, <2>2
<1>3. CASE pc' = failed /\ err' = ThrowAll(err, w)
  <2>1. Holds(err', Reports[failed], TRUE)
    BY <1>3, ThrowAllOK
  <2>2. failed \notin Clean /\ failed \notin Sockets
    BY ReportSteps DEF Clean, Sockets
  <2>3. Holds(err', Reports[failed], failed # "report_upstreams")
    BY <2>1 DEF Holds
  <2> QED BY <1>1, <1>3, <2>2, <2>3 DEF StartInv, StepInv
<1> QED BY <1>2, <1>3 DEF Attempt

\* A step that registers a parser, and leads to a step that may report or
\* to one that may not.
LEMMA RegisterKeeps ==
  ASSUME DataInv, NEW sec \in Sections, NEW next, Register(sec, next),
         Plain(next) \/ (next \in Clean \ Sockets /\ err = Open)
  PROVE  StartInv'
<1>1. DataInv'
  BY DataStays DEF Register, inputs, config_register_parser, DataInv
<1>2. pc' = next /\ err' = err
  BY DEF Register
<1>3. CASE Plain(next)
  BY <1>1, <1>2, <1>3, PlainKeeps DEF StartInv
<1>4. CASE next \in Clean \ Sockets /\ err = Open
  BY <1>1, <1>2, <1>4, ReportSteps DEF StartInv, StepInv, Clean
<1> QED BY <1>3, <1>4

\* LoadFile and TakeArgs.
LEMMA LoadKeeps ==
  ASSUME StartInv, LoadFile \/ TakeArgs
  PROVE  StartInv'
<1>1. CASE LoadFile
  <2>1. StoreOK(store') /\ lines' \in Seq(Line) /\ parsers' \subseteq Sections
    BY <1>1, LoadLineOK DEF LoadFile, StartInv, DataInv, configVars
  <2>2. UNCHANGED <<args, settings, report>> /\ pc' \in {"load", "args", "undefined"}
    BY <1>1 DEF LoadFile, inputs
  <2>3. DataInv'
    BY <2>1, <2>2 DEF StartInv, DataInv, ReportsNameTheirCause
  <2> QED BY <2>2, <2>3, PlainSteps, PlainKeeps DEF StartInv
<1>2. CASE TakeArgs
  <2>1. StoreOK(store')
    BY <1>2, TakeArgsOK DEF TakeArgs, StartInv, DataInv
  <2>2. UNCHANGED <<parsers, lines, args, settings, report>> /\ pc' = "log"
    BY <1>2 DEF TakeArgs, inputs
  <2>3. DataInv'
    BY <2>1, <2>2 DEF StartInv, DataInv, ReportsNameTheirCause
  <2> QED BY <2>2, <2>3, PlainSteps, PlainKeeps DEF StartInv
<1> QED BY <1>1, <1>2

\* logger_init: the level that is read is one of the levels, and so is the
\* step that comes next.
LEMMA LoggerKeeps ==
  ASSUME StartInv, logger_init
  PROVE  StartInv'
<1>1. CASE pc = "log" /\ Register("log", "log_level")
  BY <1>1, PlainSteps, RegisterKeeps DEF StartInv, Sections
<1>2. CASE pc = "log_level" /\
           Get(LogLevel,
               LAMBDA got : CASE got.from = "parsed"  -> {got.value[1]}
                              [] got.from = "raw"     -> {"id_pool", "undefined"}
                              [] got.from = "default" -> {"INFO"}, "exit")
  <2>1. PICK o \in config_get(LogLevel, settings[LogLevel], Parses(LogLevel)) :
          /\ store' = o.store
          /\ settings' = [settings EXCEPT ![LogLevel] = o.got]
          /\ pc' \in CASE o.ret = "undefined" -> {"undefined"}
                       [] o.ret = "failed"    -> {"exit"}
                       [] OTHER -> CASE o.got.from = "parsed"  -> {o.got.value[1]}
                                     [] o.got.from = "raw"     -> {"id_pool", "undefined"}
                                     [] o.got.from = "default" -> {"INFO"}
    BY <1>2 DEF Get
  <2>2. UNCHANGED <<parsers, lines, section, last, inputs, report>>
    BY <1>2 DEF Get
  <2>3. DataInv' /\ ReadOK(LogLevel, o.got)
    BY <2>1, <2>2, KeysDiffer, GetKeeps DEF StartInv
  <2>4. /\ o.got.from \in {"default", "raw", "parsed"}
        /\ o.got.from = "parsed" => o.got.value[1] \in Range(Levels)
    BY <2>3 DEF ReadOK
  <2>5. "INFO" \in Range(Levels)
    <3>1. 3 \in DOMAIN Levels /\ Levels[3] = "INFO"
      BY DEF Levels
    <3> QED BY <3>1 DEF Range
  <2>6. pc' \in {"undefined", "exit", "id_pool"} \cup Range(Levels)
    BY <2>1, <2>4, <2>5
  <2> QED BY <2>3, <2>6, PlainSteps, PlainKeeps DEF StartInv
<1>3. ASSUME NEW i \in DOMAIN Levels, pc = Levels[i],
             Get(Channel(i),
                 LAMBDA got : IF got.from = "raw" THEN {"undefined"}
                              ELSE IF i = Len(Levels) THEN {"id_pool"}
                              ELSE {Levels[i + 1]}, "exit")
      PROVE  StartInv'
  <2>1. PICK o \in config_get(Channel(i), settings[Channel(i)], Parses(Channel(i))) :
          /\ store' = o.store
          /\ settings' = [settings EXCEPT ![Channel(i)] = o.got]
          /\ pc' \in CASE o.ret = "undefined" -> {"undefined"}
                       [] o.ret = "failed"    -> {"exit"}
                       [] OTHER -> IF o.got.from = "raw" THEN {"undefined"}
                                   ELSE IF i = Len(Levels) THEN {"id_pool"}
                                   ELSE {Levels[i + 1]}
    BY <1>3 DEF Get
  <2>2. UNCHANGED <<parsers, lines, section, last, inputs, report>>
    BY <1>3 DEF Get
  <2>3. DataInv'
    BY <2>1, <2>2, KeysDiffer, GetKeeps DEF StartInv
  <2>4. i # Len(Levels) => i + 1 \in DOMAIN Levels
    BY KeysDiffer
  <2>5. i # Len(Levels) => Levels[i + 1] \in Range(Levels)
    BY <2>4 DEF Range
  <2>6. pc' \in {"undefined", "exit", "id_pool"} \cup Range(Levels)
    BY <2>1, <2>5
  <2> QED BY <2>3, <2>6, PlainSteps, PlainKeeps DEF StartInv
<1> QED BY <1>1, <1>2, <1>3 DEF logger_init

\* id_pool_init and dns_cache_init.
LEMMA CacheKeeps ==
  ASSUME StartInv, id_pool_init \/ dns_cache_init
  PROVE  StartInv'
<1>1. CASE id_pool_init
  <2>1. pc' \in {"try_cache", "exit"} /\ DataInv'
    BY <1>1, DataStays DEF id_pool_init, configVars, inputs, StartInv, DataInv
  <2> QED BY <2>1, PlainSteps, PlainKeeps DEF StartInv
<1>2. CASE pc = "try_cache" /\ Try("cache")
  BY <1>2, TryKeeps DEF StartInv, Clean, Sockets
<1>3. CASE pc = "cache" /\ Attempt("ip_table", <<"cache alloc failed">>, "report_cache")
  <2>1. <<"cache alloc failed">> \in Seq(Messages) /\ <<"cache alloc failed">> # <<>>
    BY DEF Messages
  <2>2. err = Open
    BY <1>3 DEF StartInv, StepInv, Clean
  <2> QED BY <1>3, <2>1, <2>2, AttemptKeeps, PlainSteps, ReportSteps DEF StartInv
<1>4. CASE pc = "ip_table" /\ Get(IpTablePath, LAMBDA got : {"load_table"}, "exit")
  <2>1. PICK o \in config_get(IpTablePath, settings[IpTablePath], Parses(IpTablePath)) :
          /\ store' = o.store
          /\ settings' = [settings EXCEPT ![IpTablePath] = o.got]
          /\ pc' \in CASE o.ret = "undefined" -> {"undefined"}
                       [] o.ret = "failed"    -> {"exit"}
                       [] OTHER -> {"load_table"}
    BY <1>4 DEF Get
  <2>2. UNCHANGED <<parsers, lines, section, last, inputs, report>>
    BY <1>4 DEF Get
  <2>3. DataInv'
    BY <2>1, <2>2, KeysDiffer, GetKeeps DEF StartInv
  <2>4. pc' \in {"undefined", "exit", "load_table"}
    BY <2>1
  <2> QED BY <2>3, <2>4, PlainSteps, PlainKeeps DEF StartInv
<1>5. CASE pc = "load_table" /\ load_ip_table
  <2>1. pc' \in {"load_table", "try_resolver"}
    BY <1>5 DEF load_ip_table
  <2>2. DataInv'
    BY <1>5, DataStays DEF load_ip_table, configVars, StartInv, DataInv
  <2> QED BY <2>1, <2>2, PlainSteps, PlainKeeps DEF StartInv
<1> QED BY <1>1, <1>2, <1>3, <1>4, <1>5 DEF dns_cache_init

\* dns_resolver_init and session_factory_init: usecache cannot be refused.
LEMMA ResolverKeeps ==
  ASSUME StartInv, dns_resolver_init \/ session_factory_init
  PROVE  StartInv'
<1>1. CASE pc = "try_resolver" /\ Try("resolver")
  BY <1>1, TryKeeps DEF StartInv, Clean, Sockets
<1>2. CASE pc = "resolver" /\ Register("dnsresolver", "use_cache")
  <2>1. err = Open
    BY <1>2 DEF StartInv, StepInv, Clean
  <2>2. "use_cache" \in Clean \ Sockets /\ "dnsresolver" \in Sections
    BY DEF Clean, Sockets, Sections
  <2> QED BY <1>2, <2>1, <2>2, RegisterKeeps DEF StartInv
<1>3. CASE pc = "use_cache" /\ Get(UseCache, LAMBDA got : {"try_session"}, "report_resolver")
  <2>1. PICK o \in config_get(UseCache, settings[UseCache], Parses(UseCache)) :
          /\ store' = o.store
          /\ settings' = [settings EXCEPT ![UseCache] = o.got]
          /\ pc' \in CASE o.ret = "undefined" -> {"undefined"}
                       [] o.ret = "failed"    -> {"report_resolver"}
                       [] OTHER -> {"try_session"}
    BY <1>3 DEF Get
  <2>2. UNCHANGED <<parsers, lines, section, last, inputs, report>>
    BY <1>3 DEF Get
  <2>3. DataInv' /\ o.ret # "failed"
    BY <2>1, <2>2, KeysDiffer, GetKeeps DEF StartInv
  <2>4. pc' \in {"undefined", "try_session"}
    BY <2>1, <2>3
  <2> QED BY <2>3, <2>4, PlainSteps, PlainKeeps DEF StartInv
<1>4. CASE pc = "try_session" /\ Try("session")
  BY <1>4, TryKeeps DEF StartInv, Clean, Sockets
<1>5. CASE pc = "session" /\
           Attempt("try_server", <<"session_queue alloc failed">>, "report_session")
  <2>1. <<"session_queue alloc failed">> \in Seq(Messages)
        /\ <<"session_queue alloc failed">> # <<>>
    BY DEF Messages
  <2>2. err = Open
    BY <1>5 DEF StartInv, StepInv, Clean
  <2> QED BY <1>5, <2>1, <2>2, AttemptKeeps, PlainSteps, ReportSteps DEF StartInv
<1> QED BY <1>1, <1>2, <1>3, <1>4, <1>5 DEF dns_resolver_init, session_factory_init

\* The settings of server_start that are numbers: reading them leaves no
\* message, and the context as it is.
LEMMA NumberKeeps ==
  ASSUME DataInv, err = Open, NEW k \in {Timeout, Retries}, NEW next \in Clean \ Sockets,
         NEW o \in config_get(k, settings[k], Parses(k)),
         store' = o.store, settings' = [settings EXCEPT ![k] = o.got],
         err' = ThrowAll(err, o.throws),
         pc' \in CASE o.ret = "undefined" -> {"undefined"} [] OTHER -> {next},
         UNCHANGED <<parsers, lines, section, last, inputs, report>>
  PROVE  StartInv'
<1>1. k \in Keys /\ k # Upstreams
  BY KeysDiffer
<1>2. /\ DataInv' /\ o.throws \in Seq(Messages)
      /\ o.ret \in {"missing", "ok", "undefined"}
      /\ o.ret \in {"missing", "ok"} => o.throws = <<>>
  BY <1>1, GetKeeps
<1>3. CASE pc' = "undefined"
  BY <1>2, <1>3, PlainSteps, PlainKeeps DEF StartInv
<1>4. CASE pc' = next /\ o.ret # "undefined"
  <2>1. err' = Open
    BY <1>2, <1>4, ThrowAllOK
  <2> QED BY <1>2, <1>4, <2>1, ReportSteps DEF StartInv, StepInv, Clean
<1> QED BY <1>3, <1>4

\* server_start: no socket without upstreams, and a list that is refused
\* leaves the messages of this step.
LEMMA ServerKeeps ==
  ASSUME StartInv, server_start
  PROVE  StartInv'
<1>0. DataInv /\ (pc \in Clean => err = Open)
  BY DEF StartInv, StepInv
<1>1. CASE pc = "try_server" /\ Try("server")
  BY <1>0, <1>1, TryKeeps DEF Clean, Sockets
<1>2. CASE pc = "server" /\ Register("server", "timeout")
  <2>1. err = Open
    BY <1>0, <1>2 DEF Clean
  <2>2. "timeout" \in Clean \ Sockets /\ "server" \in Sections
    BY DEF Clean, Sockets, Sections
  <2> QED BY <1>0, <1>2, <2>1, <2>2, RegisterKeeps
<1>3. CASE pc = "timeout" /\ Get(Timeout, LAMBDA got : {"retries"}, "retries")
  <2>1. PICK o \in config_get(Timeout, settings[Timeout], Parses(Timeout)) :
          /\ store' = o.store
          /\ settings' = [settings EXCEPT ![Timeout] = o.got]
          /\ err' = ThrowAll(err, o.throws)
          /\ pc' \in CASE o.ret = "undefined" -> {"undefined"} [] OTHER -> {"retries"}
    BY <1>3 DEF Get
  <2>2. UNCHANGED <<parsers, lines, section, last, inputs, report>>
    BY <1>3 DEF Get
  <2>3. err = Open /\ "retries" \in Clean \ Sockets
    BY <1>0, <1>3 DEF Clean, Sockets
  <2> QED BY <1>0, <2>1, <2>2, <2>3, NumberKeeps
<1>4. CASE pc = "retries" /\ Get(Retries, LAMBDA got : {"check"}, "check")
  <2>1. PICK o \in config_get(Retries, settings[Retries], Parses(Retries)) :
          /\ store' = o.store
          /\ settings' = [settings EXCEPT ![Retries] = o.got]
          /\ err' = ThrowAll(err, o.throws)
          /\ pc' \in CASE o.ret = "undefined" -> {"undefined"} [] OTHER -> {"check"}
    BY <1>4 DEF Get
  <2>2. UNCHANGED <<parsers, lines, section, last, inputs, report>>
    BY <1>4 DEF Get
  <2>3. err = Open /\ "check" \in Clean \ Sockets
    BY <1>0, <1>4 DEF Clean, Sockets
  <2> QED BY <1>0, <2>1, <2>2, <2>3, NumberKeeps
<1>5. CASE /\ pc = "check"
           /\ IF ex_catch(err) THEN Report("server", "upstreams")
              ELSE pc' = "upstreams" /\ UNCHANGED <<configVars, inputs, settings, err, report>>
  <2>1. err = Open
    BY <1>0, <1>5 DEF Clean
  <2>2. ~ex_catch(err)
    BY <2>1, ErrorContextAssumption DEF ex_catch, Open, ex_try
  <2>3. pc' = "upstreams" /\ UNCHANGED <<configVars, inputs, settings, err, report>>
    BY <1>5, <2>2
  <2>4. DataInv'
    BY <1>0, <2>3, DataStays DEF configVars, inputs, DataInv
  <2> QED BY <2>1, <2>3, <2>4, ReportSteps DEF StartInv, StepInv, Clean, Sockets
<1>6. CASE /\ pc = "upstreams"
           /\ Get(Upstreams,
                  LAMBDA got : CASE got.from = "parsed"  -> {"try_socket"}
                                 [] got.from = "default" -> {"report_upstreams"}
                                 [] got.from = "raw"     -> {"try_socket", "report_upstreams",
                                                             "undefined"},
                  "report_upstreams")
  <2>1. PICK o \in config_get(Upstreams, settings[Upstreams], Parses(Upstreams)) :
          /\ store' = o.store
          /\ settings' = [settings EXCEPT ![Upstreams] = o.got]
          /\ err' = ThrowAll(err, o.throws)
          /\ pc' \in CASE o.ret = "undefined" -> {"undefined"}
                       [] o.ret = "failed"    -> {"report_upstreams"}
                       [] OTHER -> CASE o.got.from = "parsed"  -> {"try_socket"}
                                     [] o.got.from = "default" -> {"report_upstreams"}
                                     [] o.got.from = "raw"     ->
                                           {"try_socket", "report_upstreams", "undefined"}
    BY <1>6 DEF Get
  <2>2. UNCHANGED <<parsers, lines, section, last, inputs, report>>
    BY <1>6 DEF Get
  <2>3. err = Open
    BY <1>0, <1>6 DEF Clean
  <2>4. /\ DataInv' /\ settings'[Upstreams] = o.got /\ o.throws \in Seq(Messages)
        /\ ReadOK(Upstreams, o.got)
        /\ o.ret \in {"missing", "ok", "failed", "undefined"}
        /\ o.ret \in {"missing", "ok"} => o.throws = <<>>
    BY <1>0, <2>1, <2>2, KeysDiffer, GetKeeps
  <2>5. o.got.from \in {"default", "raw", "parsed"}
    BY <2>4 DEF ReadOK
  <2>6. /\ pc' \in {"undefined", "report_upstreams", "try_socket"}
        /\ pc' = "try_socket" => o.got.from # "default"
    BY <2>1, <2>4, <2>5
  <2>7. CASE pc' = "undefined"
    BY <2>4, <2>7, PlainSteps, PlainKeeps DEF StartInv
  <2>8. CASE pc' = "try_socket"
    BY <2>4, <2>6, <2>8, ReportSteps DEF StartInv, StepInv, Clean
  <2>9. CASE pc' = "report_upstreams"
    <3>1. Holds(err', "upstreams", FALSE)
      <4>1. CASE o.throws = <<>>
        BY <2>1, <2>3, <2>4, <4>1, ThrowAllOK, OpenHolds
      <4>2. CASE o.throws # <<>>
        <5>1. Holds(err', "upstreams", TRUE)
          BY <1>6, <2>1, <2>3, <2>4, <4>2, ThrowAllOK
        <5> QED BY <5>1 DEF Holds
      <4> QED BY <4>1, <4>2
    <3> QED BY <2>4, <2>9, <3>1, ReportSteps DEF StartInv, StepInv, Clean, Sockets, Holds
  <2> QED BY <2>6, <2>7, <2>8, <2>9
<1>7. CASE pc = "try_socket" /\ Try("socket")
  <2>1. settings[Upstreams].from # "default"
    BY <1>7 DEF StartInv, StepInv, Sockets
  <2> QED BY <1>0, <1>7, <2>1, TryKeeps DEF Clean
<1>8. CASE pc = "socket" /\
           Attempt("serving", <<"syscall bind", "init_socket">>, "report_socket")
  <2>1. <<"syscall bind", "init_socket">> \in Seq(Messages)
        /\ <<"syscall bind", "init_socket">> # <<>>
    BY DEF Messages
  <2>2. err = Open /\ settings[Upstreams].from # "default"
    BY <1>0, <1>8 DEF StartInv, StepInv, Clean, Sockets
  <2> QED BY <1>0, <1>8, <2>1, <2>2, AttemptKeeps, ReportSteps
<1> QED BY <1>1, <1>2, <1>3, <1>4, <1>5, <1>6, <1>7, <1>8 DEF server_start

\* The reports of main and server_start.
LEMMA ReportKeeps ==
  ASSUME StartInv, ReportFailure
  PROVE  StartInv'
<1> DEFINE s == Reports[pc]
           M == [what : Messages, step : {s}]
<1>1. /\ pc \in DOMAIN Reports /\ pc # "report_resolver"
      /\ Holds(err, s, pc # "report_upstreams")
  BY DEF ReportFailure, StartInv, StepInv
<1>2. /\ report' = [step |-> s, msg |-> EndText(err)] /\ pc' = "exit"
      /\ UNCHANGED <<configVars, inputs, settings>>
  BY <1>1 DEF ReportFailure, Report
<1>3. err.err_flag = TRUE /\ err.msg \in Seq(M) /\ (pc # "report_upstreams" => err.msg # <<>>)
  BY <1>1 DEF Holds
<1>4. report'.msg = err.msg /\ report'.step = s
  BY <1>2, <1>3 DEF EndText
<1>5. \A i \in DOMAIN err.msg : err.msg[i].step = s
  <2>1. \A i \in DOMAIN err.msg : err.msg[i] \in M
    <3> HIDE DEF M
    <3> QED BY <1>3
  <2> QED BY <2>1
<1>6. s \in {"cache", "session", "socket"} => pc # "report_upstreams"
  BY ReportSteps
<1>7. ReportsNameTheirCause'
  BY <1>3, <1>4, <1>5, <1>6 DEF ReportsNameTheirCause
<1>8. DataInv'
  BY <1>2, <1>7 DEF StartInv, DataInv, configVars, inputs
<1> QED BY <1>2, <1>8, PlainSteps, PlainKeeps DEF StartInv

\* Every step keeps the invariant.
LEMMA StartInductive ==
  ASSUME StartInv, [Next]_vars
  PROVE  StartInv'
<1>1. CASE Next
  BY <1>1, LoadKeeps, LoggerKeeps, CacheKeeps, ResolverKeeps, ServerKeeps, ReportKeeps DEF Next
<1>2. CASE UNCHANGED vars
  BY <1>2 DEF vars, configVars, inputs, StartInv, DataInv, StepInv, ReportsNameTheirCause
<1> QED BY <1>1, <1>2

\* And it holds at the start.
LEMMA StartInitially ==
  ASSUME Init
  PROVE  StartInv
<1>1. PICK i \in Inputs : file = i.file /\ args = i.args
  BY DEF Init
<1>2. i \in [file : Seq(Line), args : Seq(Tokens), table : Nat]
  BY StartupAssumption
<1>3. lines \in Seq(Line) /\ args \in Seq(Tokens)
  BY <1>1, <1>2 DEF Init, ConfigInit
<1>4. StoreOK(store) /\ parsers \subseteq Sections
  <2>1. store = <<>> /\ parsers = {}
    BY DEF Init, ConfigInit
  <2> QED BY <2>1 DEF StoreOK
<1>5. DOMAIN settings = Keys /\ \A k \in Keys : ReadOK(k, settings[k])
  <2>1. \A k \in Keys : settings[k] = Default
    BY DEF Init
  <2>2. Default \in [from : {"default", "raw", "parsed"}, value : Seq(Tokens)]
        /\ Default.from = "default"
    BY DEF Default
  <2>3. DOMAIN settings = Keys
    BY DEF Init
  <2> QED BY <2>1, <2>2, <2>3 DEF ReadOK
<1>6. ReportsNameTheirCause
  <2>1. report.step = "none" /\ report.msg = <<>>
    BY DEF Init
  <2> QED BY <2>1 DEF ReportsNameTheirCause
<1>7. pc = "load"
  BY DEF Init
<1>8. StepInv
  BY <1>7, PlainSteps DEF Plain, StepInv
<1> QED BY <1>3, <1>4, <1>5, <1>6, <1>8 DEF StartInv, DataInv

-----------------------------------------------------------------------------
(* The theorems.                                                           *)

\* The inductive invariant holds throughout start-up.
THEOREM StartInvariant == Spec => []StartInv
BY StartInitially, StartInductive, PTL DEF Spec

\* server_config_parser and server_start: for every configuration file and
\* every command line, no socket is opened without upstreams that were
\* accepted one by one (or whose string was taken for a list unparsed).
THEOREM NoSelfUpstream == Spec => []NeverServesItself
<1>1. ASSUME StartInv PROVE NeverServesItself
  <2> SUFFICES ASSUME pc \in {"socket", "serving"}, settings[Upstreams].from # "raw"
               PROVE  Fine(settings[Upstreams].value)
    BY DEF NeverServesItself, Fine, Refused
  <2>1. settings[Upstreams].from # "default"
    BY <1>1 DEF StartInv, StepInv, Sockets
  <2>2. ReadOK(Upstreams, settings[Upstreams])
    BY <1>1, KeysDiffer DEF StartInv, DataInv
  <2> QED BY <2>1, <2>2 DEF ReadOK
<1> QED BY <1>1, StartInvariant, PTL

\* ex_try, ex_throw and ex_end as start-up uses them: whatever earlier steps
\* left in the error context, however many lines of the ip table were
\* refused, a report has the messages of the step it reports and no others.
THEOREM ReportsAreTrue == Spec => []ReportsNameTheirCause
<1>1. StartInv => ReportsNameTheirCause
  BY DEF StartInv, DataInv
<1> QED BY <1>1, StartInvariant, PTL

-----------------------------------------------------------------------------
(* The error stack.  A step of start-up throws three messages at most into *)
(* a context that was empty; only the ip table throws as many as it has    *)
(* refused lines, all of the same length.                                  *)

\* A context whose first byte in use is s; a closed one is empty.
Deep(c, s) == \E b \in BOOLEAN : \E m :
    c = [err_flag |-> b, stack_top |-> s, msg |-> m] /\ (b \/ s = MSG_SIZE - 1)

\* The buffer of ex_throw bounds a message.
LEMMA MessageLength ==
  ASSUME NEW w \in Messages
  PROVE  Length[w] \in 1 .. 511
<1>1. w \in DOMAIN Length /\ Length[w] > 0
  BY StartupAssumption
<1>2. Length[w] \in 0 .. 511
  BY <1>1, ErrorContextAssumption
<1> QED BY <1>1, <1>2

\* ex_throw: a message and its line feed, if the message fits.
LEMMA ThrowDepth ==
  ASSUME NEW s \in Int, NEW c, Deep(c, s), NEW w \in Messages
  PROVE  /\ Length[w] \in 1 .. 511
         /\ Deep(Throw(c, w), IF s < Length[w] THEN s ELSE s - Length[w] - 1)
<1>1. Length[w] \in 1 .. 511
  BY MessageLength
<1>2. PICK b \in BOOLEAN : \E m :
        c = [err_flag |-> b, stack_top |-> s, msg |-> m] /\ (b \/ s = MSG_SIZE - 1)
  BY DEF Deep
<1>3. PICK m : c = [err_flag |-> b, stack_top |-> s, msg |-> m] /\ (b \/ s = MSG_SIZE - 1)
  BY <1>2
<1> DEFINE open == IF c.err_flag THEN c ELSE ex_try(c)
           t == [what |-> w, step |-> pc]
<1>4. \E q : open = [err_flag |-> TRUE, stack_top |-> s, msg |-> q]
  BY <1>3 DEF ex_try
<1>5. PICK q : open = [err_flag |-> TRUE, stack_top |-> s, msg |-> q]
  BY <1>4
<1>6. t.what = w
  OBVIOUS
<1>7. Throw(c, w) = ex_throw(c, t)
  BY DEF Throw
<1> HIDE DEF t
<1>8. ex_throw(c, t) = IF Length[w] = 0 \/ open.stack_top - Length[w] < 0 THEN open
                       ELSE [open EXCEPT !.stack_top = open.stack_top - Length[w] - 1,
                                         !.msg = <<t>> \o @]
  BY <1>6, Zenon DEF ex_throw
<1> HIDE DEF open
<1>9. open.stack_top = s
  BY <1>5
<1>10. CASE s < Length[w]
  <2>1. s - Length[w] < 0
    BY <1>1, <1>10
  <2>2. ex_throw(c, t) = open
    BY <1>8, <1>9, <2>1
  <2> QED BY <1>1, <1>5, <1>7, <1>10, <2>2 DEF Deep
<1>11. CASE ~(s < Length[w])
  <2>1. ~(s - Length[w] < 0) /\ Length[w] # 0
    BY <1>1, <1>11
  <2>2. ex_throw(c, t) = [open EXCEPT !.stack_top = s - Length[w] - 1, !.msg = <<t>> \o @]
    BY <1>8, <1>9, <2>1
  <2>3. ex_throw(c, t) = [err_flag |-> TRUE, stack_top |-> s - Length[w] - 1,
                          msg |-> <<t>> \o q]
    BY <1>5, <2>2
  <2> QED BY <1>1, <1>7, <1>11, <2>3 DEF Deep
<1> QED BY <1>10, <1>11

\* No message leaves the context as it is; three fit into an empty one.
LEMMA ThrowAllDepth ==
  ASSUME NEW c, NEW w \in Seq(Messages)
  PROVE  /\ w = <<>> => ThrowAll(c, w) = c
         /\ Deep(c, MSG_SIZE - 1) /\ Len(w) \in 0 .. 3 => \E s \in Nat : Deep(ThrowAll(c, w), s)
<1>0. Len(w) \in Nat /\ (w = <<>> <=> Len(w) = 0) /\ \A i \in 1 .. Len(w) : w[i] \in Messages
  BY LenProperties, ElementOfSeq, EmptySeq
<1>1. PICK f : Throws(c, w, Len(w), f) /\ ThrowAll(c, w) = f[Len(w)]
  BY <1>0, LastThrow
<1>2. f[0] = c /\ \A i \in 1 .. Len(w) : f[i] = Throw(f[i - 1], w[i])
  BY <1>0, <1>1 DEF Throws
<1>3. MSG_SIZE \in Nat /\ MSG_SIZE > 3 * 512
  BY ErrorContextAssumption, RoomAssumption
<1>4. ASSUME Deep(c, MSG_SIZE - 1), Len(w) \in 0 .. 3 PROVE \E s \in Nat : Deep(ThrowAll(c, w), s)
  <2> DEFINE P == {n \in Nat : \E s \in Int : s >= MSG_SIZE - 1 - 512 * n /\ Deep(f[n], s)}
  <2>1. 0 \in P
    BY <1>2, <1>3, <1>4
  <2>2. ASSUME NEW m \in 0 .. Len(w) - 1, m \in P PROVE m + 1 \in P
    <3>1. PICK s \in Int : s >= MSG_SIZE - 1 - 512 * m /\ Deep(f[m], s)
      BY <2>2
    <3>2. m + 1 \in 1 .. Len(w) /\ m + 1 - 1 = m /\ m + 1 \in Nat
      BY <1>0
    <3>3. f[m + 1] = Throw(f[m], w[m + 1]) /\ w[m + 1] \in Messages
      BY <1>0, <1>2, <3>2
    <3> DEFINE l == Length[w[m + 1]]
               r == IF s < l THEN s ELSE s - l - 1
    <3>4. l \in 1 .. 511 /\ Deep(f[m + 1], r)
      <4>1. l \in 1 .. 511
        BY <3>3, MessageLength
      <4>2. Deep(Throw(f[m], w[m + 1]), r)
        BY <3>1, <3>3, ThrowDepth
      <4> QED BY <3>3, <4>1, <4>2, Zenon
    <3> HIDE DEF l
    <3>5. r \in Int /\ r >= MSG_SIZE - 1 - 512 * (m + 1)
      BY <1>3, <3>1, <3>4
    <3> HIDE DEF r
    <3> QED BY <3>2, <3>4, <3>5
  <2>3. 0 .. Len(w) \subseteq P
    <3> HIDE DEF P
    <3> QED BY <1>0, <2>1, <2>2, UpTo
  <2>4. Len(w) \in P
    BY <1>0, <2>3
  <2>5. PICK s \in Int : s >= MSG_SIZE - 1 - 512 * Len(w) /\ Deep(f[Len(w)], s)
    BY <2>4
  <2>6. s \in Nat
    BY <1>0, <1>3, <1>4, <2>5
  <2> QED BY <1>1, <2>5, <2>6
<1> QED BY <1>0, <1>1, <1>2, <1>4

\* A parser fails with two messages.
LEMMA ParserThrows ==
  ASSUME NEW k, k[1] \in Sections, NEW v, NEW p \in Parser(k, v)
  PROVE  Len(p.throws) \in 0 .. 2
<1> DEFINE f == Failure(<<"localhost", "upstream failed">>)
           g == Failure(<<"ipstr2binary", "upstream failed">>)
<1>1. ASSUME NEW x PROVE Len(Success(x).throws) = 0
  BY DEF Success
<1>2. Len(Undefined.throws) = 0
  BY DEF Undefined
<1>3. Len(f.throws) = 2 /\ Len(g.throws) = 2
  BY DEF Failure
<1>4. CASE k[1] = "log"
  <2>1. p = Undefined \/ \E x : p = Success(x)
    BY <1>4 DEF Parser, log_config_parser
  <2> QED BY <1>1, <1>2, <2>1
<1>5. CASE k[1] = "dnsresolver"
  <2>1. \E x : p = Success(x)
    BY <1>5 DEF Parser, dns_resolver_config_parser
  <2> QED BY <1>1, <2>1
<1>6. CASE k[1] = "server"
  <2>1. p = Undefined \/ (\E x : p = Success(x)) \/ p = f \/ p = g
    BY <1>6 DEF Parser, server_config_parser, ParseUpstreams
  <2> HIDE DEF f, g
  <2> QED BY <1>1, <1>2, <1>3, <2>1
<1> QED BY <1>4, <1>5, <1>6 DEF Sections

\* What is read when v is stored.
Read(v) == [from |-> IF v.is_cook THEN "parsed" ELSE "raw", value |-> v.value]

\* The outcomes of config_get one by one.
Missing(k, cur, o) == /\ k \notin DOMAIN store
                      /\ o.ret = "missing" /\ o.store = store /\ o.throws = <<>> /\ o.got = cur
Plainly(k, o) == /\ k \in DOMAIN store
                 /\ o.ret = "ok" /\ o.store = store /\ o.throws = <<>> /\ o.got = Read(store[k])
Parsed(k, o) ==
    /\ k \in DOMAIN store /\ ~store[k].is_cook /\ k[1] \in parsers
    /\ \E p \in Parses(k) :
          /\ p.ret = "ok" /\ o.ret = "ok" /\ o.throws = <<>>
          /\ o.store = Put(store, k, ConfigValue(TRUE, p.value))
          /\ o.got = Read(ConfigValue(TRUE, p.value))
Failed(k, cur, o) ==
    /\ k \in DOMAIN store /\ ~store[k].is_cook /\ k[1] \in parsers
    /\ \E p \in Parses(k) :
          /\ p.ret # "ok" /\ o.ret = p.ret /\ o.throws = Append(p.throws, "when config_get")
          /\ o.store = store /\ o.got = cur

\* There are no others.
LEMMA GetOutcomes ==
  ASSUME NEW k, NEW cur, NEW o \in config_get(k, cur, Parses(k))
  PROVE  Missing(k, cur, o) \/ Plainly(k, o) \/ Parsed(k, o) \/ Failed(k, cur, o)
<1> DEFINE Found(v) == [from |-> IF v.is_cook THEN "parsed" ELSE "raw", value |-> v.value]
           Same(ret, throws) == [ret |-> ret, store |-> store, throws |-> throws, got |-> cur]
           Cooked(p) == ConfigValue(TRUE, p.value)
<1>1. CASE k \notin DOMAIN store
  <2>1. o = Same("missing", <<>>)
    BY <1>1 DEF config_get
  <2> QED BY <1>1, <2>1 DEF Missing
<1>2. CASE k \in DOMAIN store
  <2>1. PICK found \in MayFind(k[1]) :
           o \in IF found /\ ~store[k].is_cook
                 THEN {IF p.ret = "ok"
                       THEN [Same("ok", <<>>) EXCEPT !.store = Put(store, k, Cooked(p)),
                                                     !.got = Found(Cooked(p))]
                       ELSE Same(p.ret, Append(p.throws, "when config_get")) :
                          p \in Parses(k)}
                 ELSE {[Same("ok", <<>>) EXCEPT !.got = Found(store[k])]}
    BY <1>2 DEF config_get
  <2>2. found => k[1] \in parsers
    BY <2>1 DEF MayFind
  <2>3. \A v : Found(v) = Read(v)
    BY DEF Read
  <2>4. CASE ~(found /\ ~store[k].is_cook)
    <3>1. o = [Same("ok", <<>>) EXCEPT !.got = Found(store[k])]
      <4> HIDE DEF Same, Found, Cooked
      <4> QED BY <2>1, <2>4
    <3>2. o.ret = "ok" /\ o.store = store /\ o.throws = <<>> /\ o.got = Found(store[k])
      <4> HIDE DEF Found
      <4> QED BY <3>1
    <3> HIDE DEF Found
    <3> QED BY <1>2, <2>3, <3>2 DEF Plainly
  <2>5. CASE found /\ ~store[k].is_cook
    <3>1. PICK p \in Parses(k) :
             o = IF p.ret = "ok"
                 THEN [Same("ok", <<>>) EXCEPT !.store = Put(store, k, Cooked(p)),
                                               !.got = Found(Cooked(p))]
                 ELSE Same(p.ret, Append(p.throws, "when config_get"))
      <4> HIDE DEF Same, Found, Cooked
      <4> QED BY <2>1, <2>5
    <3>2. CASE p.ret = "ok"
      <4>1. o.ret = "ok" /\ o.throws = <<>> /\ o.store = Put(store, k, Cooked(p))
            /\ o.got = Found(Cooked(p))
        <5> HIDE DEF Found, Cooked
        <5> QED BY <3>1, <3>2
      <4>2. o.got = Read(Cooked(p))
        <5> HIDE DEF Found, Cooked
        <5> QED BY <2>3, <4>1
      <4> QED BY <1>2, <2>2, <2>5, <3>2, <4>1, <4>2 DEF Parsed
    <3>3. CASE p.ret # "ok"
      <4>1. o.ret = p.ret /\ o.throws = Append(p.throws, "when config_get")
            /\ o.store = store /\ o.got = cur
        BY <3>1, <3>3
      <4> QED BY <1>2, <2>2, <2>5, <3>3, <4>1 DEF Failed
    <3> QED BY <3>2, <3>3
  <2> QED BY <2>4, <2>5
<1> QED BY <1>1, <1>2

\* config_get adds its own message to a parser's.
LEMMA GetThrows ==
  ASSUME DataInv, NEW k \in Keys, NEW cur, NEW o \in config_get(k, cur, Parses(k)),
         o.throws \in Seq(Messages)
  PROVE  Len(o.throws) \in 0 .. 3
<1>1. CASE o.throws = <<>>
  BY <1>1
<1>2. CASE Failed(k, cur, o)
  <2>1. PICK p \in Parses(k) : o.throws = Append(p.throws, "when config_get")
    BY <1>2 DEF Failed
  <2>2. k \in DOMAIN store /\ p \in Parser(k, store[k].value) /\ k[1] \in Sections
    BY <1>2, <2>1 DEF Parses, DataInv, Failed
  <2>3. Len(p.throws) \in 0 .. 2
    BY <2>2, ParserThrows
  <2>4. GoodFor(k, store[k])
    BY <2>2 DEF DataInv, StoreOK
  <2>5. store[k].value \in Seq(Tokens) /\ (k = Upstreams => store[k].value # <<>>)
    BY <2>4 DEF GoodFor
  <2>6. ParseOK(k, p)
    BY <2>2, <2>5, ParserOK
  <2>7. p.throws \in Seq(Messages) /\ "when config_get" \in Messages
    BY <2>6 DEF ParseOK, Messages
  <2>8. \A m \in Messages : \A s \in Seq(Messages) : Len(Append(s, m)) = Len(s) + 1
    BY AppendProperties
  <2>9. Len(o.throws) = Len(p.throws) + 1
    BY <2>1, <2>7, <2>8, Zenon
  <2>10. Len(o.throws) \in 0 .. 3
    <3> DEFINE y == Len(o.throws)
               x == Len(p.throws)
    <3>1. y = x + 1 /\ x \in 0 .. 2
      BY <2>3, <2>9, Zenon
    <3> HIDE DEF x, y
    <3>2. y \in 0 .. 3
      BY <3>1
    <3> QED BY <3>2 DEF y
  <2> QED BY <2>10
<1> QED BY <1>1, <1>2, GetOutcomes DEF Missing, Plainly, Parsed

\* A step that reads a setting with an empty context.
LEMMA GetDepth ==
  ASSUME DataInv, err \in {Closed, Open}, NEW k \in Keys,
         NEW o \in config_get(k, settings[k], Parses(k)), err' = ThrowAll(err, o.throws)
  PROVE  /\ \E s \in Nat : Deep(err', s)
         /\ o.ret \in {"missing", "ok"} => err' = err
         /\ o.ret \in {"missing", "ok", "failed", "undefined"}
         /\ ReadOK(k, o.got)
<1>1. /\ o.throws \in Seq(Messages)
      /\ o.ret \in {"missing", "ok", "failed", "undefined"}
      /\ o.ret \in {"missing", "ok"} => o.throws = <<>>
      /\ ReadOK(k, o.got)
  BY GetOK DEF DataInv
<1>2. Len(o.throws) \in 0 .. 3
  BY <1>1, GetThrows
<1>3. Deep(err, MSG_SIZE - 1)
  BY DEF Deep, Closed, Open, ex_try
<1> QED BY <1>1, <1>2, <1>3, ThrowAllDepth

\* The steps before anything was thrown.
Early == {"load", "args", "log", "log_level", "id_pool", "try_cache"} \cup Range(Levels)

StackInv ==
    /\ err.stack_top \in Nat
    /\ pc \in Early => err = Closed
    /\ pc = "ip_table" => err = Open
    /\ pc = "load_table" => \E n \in Nat :
          Deep(err, MSG_SIZE - 1 - n * (Length["label too long"] + 1))

\* A context has one first byte.
LEMMA DeepTop ==
  ASSUME NEW c, NEW s, Deep(c, s)
  PROVE  c.stack_top = s
BY DEF Deep

\* The names of the levels.
LEMMA LevelNames ==
  Range(Levels) = {"TRACE", "DEBUG", "INFO", "WARN", "ERROR"}
<1>1. /\ DOMAIN Levels = 1 .. 5 /\ Levels[1] = "TRACE" /\ Levels[2] = "DEBUG"
      /\ Levels[3] = "INFO" /\ Levels[4] = "WARN" /\ Levels[5] = "ERROR"
  BY DEF Levels
<1> QED BY <1>1 DEF Range

\* ex_try and ex_end.
LEMMA TryDepth ==
  /\ \E s \in Nat : Deep(Open, s)
  /\ \A c : \A s \in Nat : Deep(c, s) => ex_end(c).stack_top = s
  /\ Deep(Open, MSG_SIZE - 1)
<1>1. MSG_SIZE - 1 \in Nat
  BY ErrorContextAssumption
<1>2. Deep(Open, MSG_SIZE - 1)
  BY DEF Deep, Open, ex_try
<1>3. ASSUME NEW c, NEW s \in Nat, Deep(c, s) PROVE ex_end(c).stack_top = s
  BY <1>3 DEF Deep, ex_end
<1> QED BY <1>1, <1>2, <1>3

\* Everywhere but in the early steps and in the ip table it suffices that
\* the stack is inside.
LEMMA ElsewhereInside ==
  ASSUME err'.stack_top \in Nat, pc' \notin Early, pc' \notin {"ip_table", "load_table"}
  PROVE  StackInv'
BY DEF StackInv

\* Up to the cache nothing is thrown, but for what ends in "undefined".
LEMMA EarlyInside ==
  ASSUME StartInv, StackInv, LoadFile \/ TakeArgs \/ logger_init \/ id_pool_init
  PROVE  StackInv'
<1>0. err.stack_top \in Nat /\ DataInv
  BY DEF StackInv, StartInv
<1>1. CASE LoadFile \/ TakeArgs \/ id_pool_init \/ (pc = "log" /\ Register("log", "log_level"))
  <2>1. pc \in Early /\ err' = err /\ pc' \in Early \cup {"exit", "undefined"}
        /\ pc' \notin {"ip_table", "load_table"}
    BY <1>1 DEF Early, LoadFile, TakeArgs, id_pool_init, Register
  <2>2. err = Closed
    BY <2>1 DEF StackInv
  <2> QED BY <1>0, <2>1, <2>2 DEF StackInv, Closed
<1>2. CASE pc = "log_level" /\
           Get(LogLevel,
               LAMBDA got : CASE got.from = "parsed"  -> {got.value[1]}
                              [] got.from = "raw"     -> {"id_pool", "undefined"}
                              [] got.from = "default" -> {"INFO"}, "exit")
  <2>1. PICK o \in config_get(LogLevel, settings[LogLevel], Parses(LogLevel)) :
          /\ err' = ThrowAll(err, o.throws)
          /\ pc' \in CASE o.ret = "undefined" -> {"undefined"}
                       [] o.ret = "failed"    -> {"exit"}
                       [] OTHER -> CASE o.got.from = "parsed"  -> {o.got.value[1]}
                                     [] o.got.from = "raw"     -> {"id_pool", "undefined"}
                                     [] o.got.from = "default" -> {"INFO"}
    BY <1>2 DEF Get
  <2>2. err = Closed
    BY <1>2 DEF StackInv, Early
  <2>3. /\ \E s \in Nat : Deep(err', s)
        /\ o.ret \in {"missing", "ok"} => err' = err
        /\ o.ret \in {"missing", "ok", "failed", "undefined"}
        /\ ReadOK(LogLevel, o.got)
    BY <1>0, <2>1, <2>2, GetDepth, KeysDiffer
  <2>4. /\ o.got.from \in {"default", "raw", "parsed"}
        /\ o.got.from = "parsed" => o.got.value[1] \in Range(Levels)
    BY <2>3 DEF ReadOK
  <2>5. pc' \in {"undefined", "exit", "id_pool"} \cup Range(Levels)
        /\ (pc' \in {"id_pool"} \cup Range(Levels) => o.ret \in {"missing", "ok"})
    BY <2>1, <2>3, <2>4, LevelNames
  <2>6. err'.stack_top \in Nat
    BY <2>3, DeepTop
  <2> QED BY <2>2, <2>3, <2>5, <2>6, LevelNames DEF StackInv, Early
<1>3. ASSUME NEW i \in DOMAIN Levels, pc = Levels[i],
             Get(Channel(i),
                 LAMBDA got : IF got.from = "raw" THEN {"undefined"}
                              ELSE IF i = Len(Levels) THEN {"id_pool"}
                              ELSE {Levels[i + 1]}, "exit")
      PROVE  StackInv'
  <2>1. PICK o \in config_get(Channel(i), settings[Channel(i)], Parses(Channel(i))) :
          /\ err' = ThrowAll(err, o.throws)
          /\ pc' \in CASE o.ret = "undefined" -> {"undefined"}
                       [] o.ret = "failed"    -> {"exit"}
                       [] OTHER -> IF o.got.from = "raw" THEN {"undefined"}
                                   ELSE IF i = Len(Levels) THEN {"id_pool"}
                                   ELSE {Levels[i + 1]}
    BY <1>3 DEF Get
  <2>2. pc \in Range(Levels)
    BY <1>3 DEF Range
  <2>3. err = Closed
    BY <2>2 DEF StackInv, Early
  <2>4. /\ \E s \in Nat : Deep(err', s)
        /\ o.ret \in {"missing", "ok"} => err' = err
        /\ o.ret \in {"missing", "ok", "failed", "undefined"}
    BY <1>0, <2>1, <2>3, GetDepth, KeysDiffer
  <2>5. i # Len(Levels) => i + 1 \in DOMAIN Levels
    BY KeysDiffer
  <2>6. i # Len(Levels) => Levels[i + 1] \in Range(Levels)
    BY <2>5 DEF Range
  <2>7. pc' \in {"undefined", "exit", "id_pool"} \cup Range(Levels)
        /\ (pc' \in {"id_pool"} \cup Range(Levels) => o.ret \in {"missing", "ok"})
    BY <2>1, <2>4, <2>6, LevelNames
  <2>8. err'.stack_top \in Nat
    BY <2>4, DeepTop
  <2> QED BY <2>3, <2>4, <2>7, <2>8, LevelNames DEF StackInv, Early
<1> QED BY <1>1, <1>2, <1>3 DEF logger_init

\* dns_cache_init: the refused lines of the ip table.
LEMMA TableInside ==
  ASSUME StartInv, StackInv, dns_cache_init
  PROVE  StackInv'
<1> DEFINE l == Length["label too long"]
<1>0. /\ err.stack_top \in Nat /\ DataInv
      /\ Range(Levels) = {"TRACE", "DEBUG", "INFO", "WARN", "ERROR"}
  BY LevelNames DEF StackInv, StartInv
<1>a. "label too long" \in Messages
  BY DEF Messages
<1>1. l \in 1 .. 511 /\ MSG_SIZE \in Nat /\ MSG_SIZE > 3 * 512
  <2>1. l \in 1 .. 511
    BY <1>a, MessageLength
  <2>2. MSG_SIZE \in Nat /\ MSG_SIZE > 3 * 512
    BY ErrorContextAssumption, RoomAssumption
  <2> HIDE DEF l
  <2> QED BY <2>1, <2>2
<1>15. \A n \in 1 .. MSG_SIZE : n * (l + 1) # MSG_SIZE
  BY RoomAssumption
<1>16. pc = "load_table" => \E n \in Nat : Deep(err, MSG_SIZE - 1 - n * (l + 1))
  BY DEF StackInv
<1>17. ASSUME pc' = "load_table", err'.stack_top \in Nat,
             \E n \in Nat : Deep(err', MSG_SIZE - 1 - n * (l + 1))
      PROVE  StackInv'
  BY <1>0, <1>17 DEF StackInv, Early
<1>18. ASSUME NEW c, NEW s \in Int, Deep(c, s)
      PROVE  Deep(Throw(c, "label too long"), IF s < l THEN s ELSE s - l - 1)
  BY <1>a, <1>18, ThrowDepth
<1> HIDE DEF l
<1>2. CASE pc = "try_cache" /\ Try("cache")
  <2>1. pc' = "cache" /\ err' = Open
    BY <1>2, TryOpens DEF Try
  <2> QED BY <1>0, <2>1, TryDepth, DeepTop, ElsewhereInside DEF Early
<1>3. CASE pc = "cache" /\ Attempt("ip_table", <<"cache alloc failed">>, "report_cache")
  <2>1. err = Open
    BY <1>3 DEF StartInv, StepInv, Clean
  <2>2. CASE pc' = "ip_table" /\ UNCHANGED err
    BY <1>0, <2>1, <2>2 DEF StackInv, Early
  <2>3. CASE pc' = "report_cache" /\ err' = ThrowAll(err, <<"cache alloc failed">>)
    <3> DEFINE w == <<"cache alloc failed">>
    <3>1. w \in Seq(Messages) /\ Len(w) \in 0 .. 3
      BY DEF Messages
    <3> HIDE DEF w
    <3>2. \E s \in Nat : Deep(ThrowAll(err, w), s)
      BY <2>1, <3>1, ThrowAllDepth, TryDepth
    <3>3. err'.stack_top \in Nat
      BY <2>3, <3>2, DeepTop DEF w
    <3> QED BY <1>0, <2>3, <3>3, ElsewhereInside DEF Early
  <2> QED BY <1>3, <2>2, <2>3 DEF Attempt
<1>4. CASE pc = "ip_table" /\ Get(IpTablePath, LAMBDA got : {"load_table"}, "exit")
  <2>1. PICK o \in config_get(IpTablePath, settings[IpTablePath], Parses(IpTablePath)) :
          /\ err' = ThrowAll(err, o.throws)
          /\ pc' \in CASE o.ret = "undefined" -> {"undefined"}
                       [] o.ret = "failed"    -> {"exit"}
                       [] OTHER -> {"load_table"}
    BY <1>4 DEF Get
  <2>2. err = Open
    BY <1>4 DEF StackInv
  <2>3. /\ \E s \in Nat : Deep(err', s)
        /\ o.ret \in {"missing", "ok"} => err' = err
        /\ o.ret \in {"missing", "ok", "failed", "undefined"}
    BY <1>0, <2>1, <2>2, GetDepth, KeysDiffer
  <2>4. err'.stack_top \in Nat
    BY <2>3, DeepTop
  <2>5. CASE o.ret \notin {"missing", "ok"}
    <3>1. pc' \in {"undefined", "exit"}
      BY <2>1, <2>3, <2>5
    <3> QED BY <1>0, <2>4, <3>1, ElsewhereInside DEF Early
  <2>6. CASE o.ret \in {"missing", "ok"}
    <3>1. pc' = "load_table" /\ err' = Open
      BY <2>1, <2>2, <2>3, <2>6
    <3>2. MSG_SIZE - 1 = MSG_SIZE - 1 - 0 * (l + 1)
      BY <1>1
    <3>3. \E n \in Nat : Deep(err', MSG_SIZE - 1 - n * (l + 1))
      BY <3>1, <3>2, TryDepth
    <3> QED BY <1>17, <2>4, <3>1, <3>3
  <2> QED BY <2>5, <2>6
<1>5. CASE pc = "load_table" /\ load_ip_table
  <2>1. CASE pc' = "try_resolver" /\ UNCHANGED err
    BY <1>0, <2>1, ElsewhereInside DEF Early
  <2>2. CASE UNCHANGED pc /\ err' = Throw(err, "label too long")
    <3>1. PICK n \in Nat : Deep(err, MSG_SIZE - 1 - n * (l + 1))
      BY <1>5, <1>16
    <3> DEFINE s == err.stack_top
               r == IF s < l THEN s ELSE s - l - 1
    <3>2. s = MSG_SIZE - 1 - n * (l + 1) /\ s \in Nat /\ Deep(err, s)
      BY <1>0, <3>1, DeepTop
    <3>3. Deep(err', r)
      <4>1. Deep(Throw(err, "label too long"), r)
        <5>1. s \in Int /\ Deep(err, s)
          BY <3>2
        <5> HIDE DEF s
        <5> QED BY <1>18, <5>1, Zenon
      <4> QED BY <2>2, <4>1
    <3>4. err'.stack_top = r
      BY <3>3, DeepTop
    <3> HIDE DEF s
    <3>5. CASE s < l
      <4>1. r = s
        BY <3>5
      <4> QED BY <1>5, <1>17, <2>2, <3>2, <3>3, <3>4, <4>1
    <3>6. CASE ~(s < l)
      <4>1. r = s - l - 1 /\ n + 1 \in Nat
        BY <3>6
      <4>2. (n + 1) * (l + 1) = n * (l + 1) + (l + 1) /\ n * (l + 1) \in Int
        BY <1>1
      <4>3. r = MSG_SIZE - 1 - (n + 1) * (l + 1)
        BY <1>1, <3>2, <4>1, <4>2
      <4>4. r # -1
        <5> SUFFICES ASSUME r = -1 PROVE FALSE
          OBVIOUS
        <5>1. (n + 1) * (l + 1) = MSG_SIZE
          BY <1>1, <3>2, <4>1, <4>2
        <5>2. n + 1 \in 1 .. MSG_SIZE
          <6>1. (n + 1) * (l + 1) >= n + 1
            BY <1>1
          <6> QED BY <1>1, <5>1, <6>1
        <5> QED BY <1>15, <5>1, <5>2
      <4>5. r \in Nat
        BY <1>1, <3>2, <3>6, <4>1, <4>4
      <4> HIDE DEF r
      <4>6. err'.stack_top \in Nat /\ Deep(err', MSG_SIZE - 1 - (n + 1) * (l + 1))
        BY <3>3, <3>4, <4>3, <4>5
      <4> QED BY <1>5, <1>17, <2>2, <4>1, <4>6
    <3> QED BY <3>5, <3>6
  <2> QED BY <1>5, <2>1, <2>2 DEF load_ip_table
<1> QED BY <1>2, <1>3, <1>4, <1>5 DEF dns_cache_init

\* The steps after it start with an empty context.
LEMMA LateInside ==
  ASSUME StartInv, StackInv,
         dns_resolver_init \/ session_factory_init \/ server_start \/ ReportFailure
  PROVE  StackInv'
<1> DEFINE Late == {"resolver", "use_cache", "try_session", "session", "try_server", "server",
                    "timeout", "retries", "check", "upstreams", "try_socket", "socket",
                    "serving", "exit", "undefined", "report_resolver", "report_session",
                    "report_upstreams", "report_socket"}
<1>0. err.stack_top \in Nat /\ DataInv /\ (pc \in Clean => err = Open)
  BY DEF StackInv, StartInv, StepInv
<1>1. \A p \in Late : p \notin Early /\ p \notin {"ip_table", "load_table"}
  BY LevelNames DEF Early
<1> SUFFICES pc' \in Late /\ err'.stack_top \in Nat
  BY <1>1, ElsewhereInside
<1>2. ASSUME NEW next, Try(next) PROVE pc' = next /\ err'.stack_top \in Nat
  <2>1. pc' = next /\ err' = Open
    BY <1>2, TryOpens DEF Try
  <2> QED BY <2>1, TryDepth, DeepTop
<1>3. ASSUME NEW sec, NEW next, Register(sec, next) PROVE pc' = next /\ err'.stack_top \in Nat
  BY <1>0, <1>3 DEF Register
<1>4. ASSUME NEW k \in Keys, pc \in Clean,
             NEW o \in config_get(k, settings[k], Parses(k)), err' = ThrowAll(err, o.throws)
      PROVE  err'.stack_top \in Nat
  BY <1>0, <1>4, GetDepth, DeepTop
<1>5. ASSUME pc \in Clean, NEW w \in Seq(Messages), Len(w) \in 0 .. 3,
             err' = err \/ err' = ThrowAll(err, w)
      PROVE  err'.stack_top \in Nat
  BY <1>0, <1>5, ThrowAllDepth, TryDepth, DeepTop
<1>6. CASE pc = "use_cache" /\ Get(UseCache, LAMBDA got : {"try_session"}, "report_resolver")
  <2>1. /\ pc' \in {"undefined", "report_resolver", "try_session"}
        /\ \E o \in config_get(UseCache, settings[UseCache], Parses(UseCache)) :
              err' = ThrowAll(err, o.throws)
    BY <1>6 DEF Get
  <2> QED BY <1>4, <1>6, <2>1, KeysDiffer DEF Clean
<1>7. CASE pc = "timeout" /\ Get(Timeout, LAMBDA got : {"retries"}, "retries")
  <2>1. /\ pc' \in {"undefined", "retries"}
        /\ \E o \in config_get(Timeout, settings[Timeout], Parses(Timeout)) :
              err' = ThrowAll(err, o.throws)
    BY <1>7 DEF Get
  <2> QED BY <1>4, <1>7, <2>1, KeysDiffer DEF Clean
<1>8. CASE pc = "retries" /\ Get(Retries, LAMBDA got : {"check"}, "check")
  <2>1. /\ pc' \in {"undefined", "check"}
        /\ \E o \in config_get(Retries, settings[Retries], Parses(Retries)) :
              err' = ThrowAll(err, o.throws)
    BY <1>8 DEF Get
  <2> QED BY <1>4, <1>8, <2>1, KeysDiffer DEF Clean
<1>9. CASE /\ pc = "upstreams"
           /\ Get(Upstreams,
                  LAMBDA got : CASE got.from = "parsed"  -> {"try_socket"}
                                 [] got.from = "default" -> {"report_upstreams"}
                                 [] got.from = "raw"     -> {"try_socket", "report_upstreams",
                                                             "undefined"},
                  "report_upstreams")
  <2>1. PICK o \in config_get(Upstreams, settings[Upstreams], Parses(Upstreams)) :
          /\ err' = ThrowAll(err, o.throws)
          /\ pc' \in CASE o.ret = "undefined" -> {"undefined"}
                       [] o.ret = "failed"    -> {"report_upstreams"}
                       [] OTHER -> CASE o.got.from = "parsed"  -> {"try_socket"}
                                     [] o.got.from = "default" -> {"report_upstreams"}
                                     [] o.got.from = "raw"     ->
                                           {"try_socket", "report_upstreams", "undefined"}
    BY <1>9 DEF Get
  <2>2. err = Open
    BY <1>0, <1>9 DEF Clean
  <2>3. o.got.from \in {"default", "raw", "parsed"}
    BY <1>0, <2>1, <2>2, GetDepth, KeysDiffer DEF ReadOK
  <2>4. pc' \in {"undefined", "report_upstreams", "try_socket"}
    BY <2>1, <2>3
  <2> QED BY <1>4, <1>9, <2>1, <2>4, KeysDiffer DEF Clean
<1>10. CASE pc = "session" /\
            Attempt("try_server", <<"session_queue alloc failed">>, "report_session")
  <2> DEFINE w == <<"session_queue alloc failed">>
  <2>1. w \in Seq(Messages) /\ Len(w) \in 0 .. 3
    BY DEF Messages
  <2> HIDE DEF w
  <2>2. pc' \in {"try_server", "report_session"} /\ (err' = err \/ err' = ThrowAll(err, w))
    BY <1>10 DEF Attempt, w
  <2> QED BY <1>5, <1>10, <2>1, <2>2 DEF Clean
<1>11. CASE pc = "socket" /\
            Attempt("serving", <<"syscall bind", "init_socket">>, "report_socket")
  <2> DEFINE w == <<"syscall bind", "init_socket">>
  <2>1. w \in Seq(Messages) /\ Len(w) \in 0 .. 3
    BY DEF Messages
  <2> HIDE DEF w
  <2>2. pc' \in {"serving", "report_socket"} /\ (err' = err \/ err' = ThrowAll(err, w))
    BY <1>11 DEF Attempt, w
  <2> QED BY <1>5, <1>11, <2>1, <2>2 DEF Clean
<1>12. ASSUME NEW step, NEW next, Report(step, next)
       PROVE  pc' = next /\ err'.stack_top = err.stack_top
  BY <1>12 DEF Report, ex_end
<1>13. CASE /\ pc = "check"
            /\ IF ex_catch(err) THEN Report("server", "upstreams")
               ELSE pc' = "upstreams" /\ UNCHANGED <<configVars, inputs, settings, err, report>>
  BY <1>0, <1>12, <1>13
<1>14. CASE ReportFailure
  <2>1. Report(Reports[pc], IF pc = "report_resolver" THEN "try_session" ELSE "exit")
    BY <1>14 DEF ReportFailure
  <2>2. pc' \in {"try_session", "exit"} /\ err'.stack_top = err.stack_top
    BY <1>12, <2>1
  <2> QED BY <1>0, <2>2
<1>15. CASE dns_resolver_init
  <2>1. CASE pc = "try_resolver" /\ Try("resolver")
    BY <1>2, <2>1
  <2>2. CASE pc = "resolver" /\ Register("dnsresolver", "use_cache")
    BY <1>3, <2>2
  <2> HIDE DEF Late
  <2> QED BY <1>6, <1>15, <2>1, <2>2 DEF dns_resolver_init
<1>16. CASE session_factory_init
  <2>1. CASE pc = "try_session" /\ Try("session")
    BY <1>2, <2>1
  <2> HIDE DEF Late
  <2> QED BY <1>10, <1>16, <2>1 DEF session_factory_init
<1>17. CASE server_start
  <2>1. CASE pc = "try_server" /\ Try("server")
    BY <1>2, <2>1
  <2>2. CASE pc = "server" /\ Register("server", "timeout")
    BY <1>3, <2>2
  <2>3. CASE pc = "try_socket" /\ Try("socket")
    BY <1>2, <2>3
  <2> HIDE DEF Late
  <2> QED BY <1>7, <1>8, <1>9, <1>11, <1>13, <1>17, <2>1, <2>2, <2>3 DEF server_start
<1> QED BY <1>14, <1>15, <1>16, <1>17

\* ex_throw and load_ip_table: however many lines of the ip table are
\* refused, and whatever fails afterwards, no message is written before the
\* buffer.  The messages of the ip table are what needs RoomAssumption: one
\* that filled the buffer exactly would put its line feed outside.
THEOREM StackStaysInside == Spec => []ErrorStackInside
<1>1. Init => StackInv
  <2>1. "load" \in Early /\ MSG_SIZE - 1 \in Nat
    BY ErrorContextAssumption DEF Early
  <2> QED BY <2>1 DEF Init, StackInv, Closed
<1>2. StartInv /\ StackInv /\ [Next]_vars => StackInv'
  <2> SUFFICES ASSUME StartInv, StackInv, [Next]_vars PROVE StackInv'
    OBVIOUS
  <2>1. CASE Next
    BY <2>1, EarlyInside, TableInside, LateInside DEF Next
  <2>2. CASE UNCHANGED vars
    BY <2>2 DEF vars, StackInv
  <2> QED BY <2>1, <2>2
<1>3. StackInv => ErrorStackInside
  <2> SUFFICES ASSUME StackInv PROVE ErrorStackInside
    OBVIOUS
  <2>1. err.stack_top \in Nat
    BY DEF StackInv
  <2> QED BY <2>1 DEF ErrorStackInside
<1> QED BY <1>1, <1>2, <1>3, StartInvariant, PTL DEF Spec

-----------------------------------------------------------------------------
(* The configuration file.  After n lines the store holds, for every       *)
(* setting, what the last line for it among them says.                     *)

\* The largest element of a set that has one.
LEMMA MaxIs ==
  ASSUME NEW S \in SUBSET Int, NEW x \in S, \A y \in S : y <= x
  PROVE  Max(S) = x
<1>1. \A y \in S : x >= y
  OBVIOUS
<1>2. Max(S) \in S /\ \A y \in S : Max(S) >= y
  BY <1>1 DEF Max
<1>3. Max(S) >= x /\ x >= Max(S) /\ x \in Int /\ Max(S) \in Int
  BY <1>1, <1>2
<1> HIDE DEF Max
<1> QED BY <1>3

\* The title a line stands under.
LEMMA NextTitle ==
  ASSUME NEW f, NEW n \in Nat
  PROVE  TitleOf(f, n + 1) = IF f[n + 1].kind = "section" THEN f[n + 1].key ELSE TitleOf(f, n)
<1> DEFINE T(i) == {j \in 1 .. i : f[j].kind = "section"}
<1>1. /\ TitleOf(f, n) = IF T(n) = {} THEN "" ELSE f[Max(T(n))].key
      /\ TitleOf(f, n + 1) = IF T(n + 1) = {} THEN "" ELSE f[Max(T(n + 1))].key
  BY DEF TitleOf
<1>2. CASE f[n + 1].kind = "section"
  <2>1. T(n + 1) \in SUBSET Int /\ n + 1 \in T(n + 1) /\ \A y \in T(n + 1) : y <= n + 1
    BY <1>2
  <2> HIDE DEF T
  <2>2. Max(T(n + 1)) = n + 1
    BY <2>1, MaxIs
  <2> QED BY <1>1, <1>2, <2>1, <2>2
<1>3. CASE f[n + 1].kind # "section"
  <2>1. T(n + 1) = T(n)
    BY <1>3
  <2> HIDE DEF T
  <2> QED BY <1>1, <1>3, <2>1
<1> QED BY <1>2, <1>3

\* Line n is for k.
IsFor(f, n, k) == f[n].kind \in {"pair", "spaced"} /\ <<TitleOf(f, n), f[n].key>> = k

\* The lines for a setting, and its value, after one more line.
LEMMA NextLine ==
  ASSUME NEW f, NEW n \in Nat, NEW k
  PROVE  /\ IsFor(f, n + 1, k) =>
               /\ LinesFor(f, n + 1, k) # {}
               /\ FileValue(f, n + 1, k) = IF f[n + 1].kind = "spaced" THEN <<"=">>
                                           ELSE f[n + 1].value
         /\ ~IsFor(f, n + 1, k) =>
               /\ LinesFor(f, n + 1, k) = LinesFor(f, n, k)
               /\ FileValue(f, n + 1, k) = FileValue(f, n, k)
<1> DEFINE L(i) == {j \in 1 .. i : IsFor(f, j, k)}
<1>1. \A i \in Nat : LinesFor(f, i, k) = L(i)
  BY DEF LinesFor, IsFor
<1>2. CASE IsFor(f, n + 1, k)
  <2>1. L(n + 1) \in SUBSET Int /\ n + 1 \in L(n + 1) /\ \A y \in L(n + 1) : y <= n + 1
    BY <1>2
  <2>2. LinesFor(f, n + 1, k) = L(n + 1)
    BY <1>1
  <2> HIDE DEF L
  <2>3. Max(L(n + 1)) = n + 1
    BY <2>1, MaxIs
  <2>4. f[Max(LinesFor(f, n + 1, k))] = f[n + 1]
    BY <2>2, <2>3
  <2> QED BY <1>2, <2>1, <2>2, <2>4 DEF FileValue
<1>3. CASE ~IsFor(f, n + 1, k)
  <2>1. L(n + 1) = L(n)
    BY <1>3
  <2>2. LinesFor(f, n + 1, k) = LinesFor(f, n, k)
    <3> HIDE DEF L
    <3> QED BY <1>1, <2>1
  <2> QED BY <1>3, <2>2 DEF FileValue
<1> QED BY <1>2, <1>3

\* Where the reading of the file may have ended.
Ends(f) == {n \in 0 .. Len(f) :
               /\ n < Len(f) => f[n + 1].kind \in {"novalue", "blank"}
               /\ \A i \in 1 .. n : f[i].kind # "novalue"}

\* The settings, without the channels of the logger.
Checked == Keys \ {Channel(i) : i \in 1 .. 5}

\* What the first n lines of f say of k is what s holds.
FromFile(s, f, n, k) ==
    IF LinesFor(f, n, k) = {} THEN k \notin DOMAIN s
    ELSE k \in DOMAIN s /\ s[k] = ConfigValue(FALSE, FileValue(f, n, k))

\* A line that is for no setting.
LEMMA OtherLine ==
  ASSUME NEW s, NEW f, NEW n \in Nat, NEW k, FromFile(s, f, n, k), ~IsFor(f, n + 1, k)
  PROVE  FromFile(s, f, n + 1, k)
BY NextLine DEF FromFile

\* A value is stored for another key.
LEMMA OtherKey ==
  ASSUME NEW s, NEW f, NEW n, NEW k, FromFile(s, f, n, k), NEW x, x # k, NEW v
  PROVE  FromFile(Put(s, x, v), f, n, k)
<1>1. /\ k \in DOMAIN Put(s, x, v) <=> k \in DOMAIN s
      /\ k \in DOMAIN s => Put(s, x, v)[k] = s[k]
  BY DEF Put
<1> HIDE DEF Put
<1> QED BY <1>1 DEF FromFile

\* A line key=value or key = value.
LEMMA PairLine ==
  ASSUME NEW s, NEW f, NEW n \in Nat, f[n + 1].kind \in {"pair", "spaced"},
         NEW k, FromFile(s, f, n, k)
  PROVE  FromFile(config_inject(s, TitleOf(f, n), f[n + 1].key,
                                IF f[n + 1].kind = "spaced" THEN <<"=">> ELSE f[n + 1].value),
                  f, n + 1, k)
<1> DEFINE x == <<TitleOf(f, n), f[n + 1].key>>
           v == IF f[n + 1].kind = "spaced" THEN <<"=">> ELSE f[n + 1].value
           t == Put(s, x, ConfigValue(FALSE, v))
<1>1. config_inject(s, TitleOf(f, n), f[n + 1].key, v) = t
  BY DEF config_inject
<1> SUFFICES FromFile(t, f, n + 1, k)
  BY <1>1
<1>2. TitleOf(f, n + 1) = TitleOf(f, n)
  BY NextTitle
<1>3. IsFor(f, n + 1, k) <=> x = k
  BY <1>2 DEF IsFor
<1>4. CASE x = k
  <2>1. LinesFor(f, n + 1, k) # {} /\ FileValue(f, n + 1, k) = v
    BY <1>3, <1>4, NextLine
  <2>2. k \in DOMAIN t /\ t[k] = ConfigValue(FALSE, v)
    <3> HIDE DEF x, v
    <3> QED BY <1>4 DEF Put
  <2> HIDE DEF t, v
  <2> QED BY <2>1, <2>2 DEF FromFile
<1>5. CASE x # k
  <2>1. FromFile(t, f, n, k)
    <3> HIDE DEF x, v
    <3> QED BY <1>5, OtherKey
  <2>2. ~IsFor(f, n + 1, k)
    BY <1>3, <1>5
  <2> HIDE DEF t, v
  <2> QED BY <2>1, <2>2, OtherLine
<1> QED BY <1>4, <1>5

\* The first n lines of f have been read into s, and l is left.
Loaded(s, f, n) == /\ n \in 0 .. Len(f) /\ \A i \in 1 .. n : f[i].kind # "novalue"
                   /\ \A k \in Checked : FromFile(s, f, n, k)
Left(l, f, n) == Len(l) = Len(f) - n /\ \A i \in 1 .. Len(l) : l[i] = f[n + i]

\* The reading goes on or has ended.
LoadInv ==
    /\ file \in Seq(Line) /\ lines \in Seq(Line)
    /\ \E n : /\ Loaded(store, file, n)
              /\ \/ Left(lines, file, n) /\ section = TitleOf(file, n)
                 \/ lines = <<>> /\ n \in Ends(file)

\* The keys of the settings are not empty.
LEMMA KeysHaveNames ==
  ASSUME NEW k \in Checked, NEW sec
  PROVE  k # <<sec, "">>
<1>1. k \in {LogLevel, IpTablePath, UseCache, Timeout, Retries, Upstreams}
  BY KeysDiffer DEF Checked, Keys
<1>2. <<sec, "">>[2] = ""
  OBVIOUS
<1>3. /\ LogLevel[2] = "log_level" /\ IpTablePath[2] = "iptable" /\ UseCache[2] = "usecache"
      /\ Timeout[2] = "dns_packet_timeout" /\ Retries[2] = "max_retry_time"
      /\ Upstreams[2] = "server_upstream"
  BY DEF LogLevel, IpTablePath, UseCache, Timeout, Retries, Upstreams
<1> DEFINE e == <<sec, "">>
<1> HIDE DEF e
<1>4. e[2] = ""
  BY <1>2 DEF e
<1>5. k # e
  BY <1>1, <1>3, <1>4
<1> QED BY <1>5 DEF e

\* One more line is behind.
LEMMA OneLeft ==
  ASSUME NEW f \in Seq(Line), NEW l \in Seq(Line), l # <<>>, NEW n \in 0 .. Len(f), Left(l, f, n)
  PROVE  /\ n + 1 \in 1 .. Len(f) /\ Head(l) = f[n + 1] /\ f[n + 1] \in Line
         /\ Tail(l) \in Seq(Line) /\ Left(Tail(l), f, n + 1)
<1>1. Len(l) \in Nat \ {0} /\ Len(f) \in Nat /\ Head(l) = l[1]
  BY LenProperties, EmptySeq, HeadTailProperties
<1>2. /\ Tail(l) \in Seq(Line) /\ Len(Tail(l)) = Len(l) - 1
      /\ \A i \in 1 .. Len(Tail(l)) : Tail(l)[i] = l[i + 1]
  BY HeadTailProperties
<1>3. n + 1 \in 1 .. Len(f)
  BY <1>1 DEF Left
<1>4. l[1] = f[n + 1]
  BY <1>1 DEF Left
<1>5. f[n + 1] \in Line
  BY <1>3, ElementOfSeq
<1> DEFINE t == Tail(l)
<1> HIDE DEF t
<1>6. Len(t) = Len(f) - (n + 1)
  BY <1>1, <1>2 DEF Left, t
<1>7. ASSUME NEW i \in 1 .. Len(t) PROVE t[i] = f[n + 1 + i]
  <2>1. i + 1 \in 1 .. Len(l) /\ n + (i + 1) = n + 1 + i
    BY <1>1, <1>2 DEF t
  <2>2. t[i] = l[i + 1]
    BY <1>2 DEF t
  <2>3. l[i + 1] = f[n + (i + 1)]
    BY <2>1 DEF Left
  <2> QED BY <2>1, <2>2, <2>3
<1>8. Left(t, f, n + 1)
  BY <1>6, <1>7 DEF Left
<1> QED BY <1>1, <1>2, <1>3, <1>4, <1>5, <1>8 DEF t

\* A turn of config_load_file.
LEMMA LoadLineAgrees ==
  ASSUME LoadInv, LoadLine, file' = file
  PROVE  LoadInv'
<1> DEFINE l == Head(lines)
           f == file
<1>1. lines # <<>> /\ f \in Seq(Line) /\ lines \in Seq(Line) /\ Len(f) \in Nat
  BY LenProperties DEF LoadLine, LoadInv
<1>2. PICK n : Loaded(store, f, n) /\ Left(lines, f, n) /\ section = TitleOf(f, n)
  BY <1>1 DEF LoadInv
<1>3. n \in 0 .. Len(f) /\ n \in Nat
  BY <1>1, <1>2 DEF Loaded
<1>4. /\ n + 1 \in 1 .. Len(f) /\ n + 1 \in 0 .. Len(f) /\ l = f[n + 1]
      /\ Tail(lines) \in Seq(Line) /\ Left(Tail(lines), f, n + 1)
  BY <1>1, <1>2, <1>3, OneLeft
<1>5. \A i \in 1 .. n + 1 : i \in 1 .. n \/ i = n + 1
  BY <1>3
<1>6. /\ \A i \in 1 .. n : f[i].kind # "novalue"
      /\ \A k \in Checked : FromFile(store, f, n, k)
  BY <1>2 DEF Loaded
<1>7. TitleOf(f, n + 1) = IF l.kind = "section" THEN l.key ELSE section
  BY <1>2, <1>3, <1>4, NextTitle
<1>8. ASSUME l.kind # "novalue", lines' = Tail(lines), section' = TitleOf(f, n + 1),
             \A k \in Checked : FromFile(store', f, n + 1, k)
      PROVE  LoadInv'
  <2>1. \A i \in 1 .. n + 1 : f[i].kind # "novalue"
    BY <1>4, <1>5, <1>6, <1>8
  <2>2. Loaded(store', f, n + 1)
    BY <1>4, <1>8, <2>1 DEF Loaded
  <2> QED BY <1>1, <1>4, <1>8, <2>2 DEF LoadInv
<1>9. ASSUME l.kind \in {"novalue", "blank"}, lines' = <<>>, store' = store
      PROVE  LoadInv'
  <2>1. n \in Ends(f)
    BY <1>3, <1>4, <1>6, <1>9 DEF Ends
  <2>2. <<>> \in Seq(Line)
    OBVIOUS
  <2> QED BY <1>1, <1>2, <1>9, <2>1, <2>2 DEF LoadInv
<1>10. CASE l.kind = "comment" /\ lines' = Tail(lines) /\ UNCHANGED <<store, section>>
  <2>1. \A k : ~IsFor(f, n + 1, k)
    BY <1>4, <1>10 DEF IsFor
  <2>2. \A k \in Checked : FromFile(store', f, n + 1, k)
    BY <1>3, <1>6, <1>10, <2>1, OtherLine
  <2> QED BY <1>7, <1>8, <1>10, <2>2
<1>11. CASE l.kind = "section" /\ section' = l.key /\ lines' = Tail(lines) /\ UNCHANGED store
  <2>1. \A k : ~IsFor(f, n + 1, k)
    BY <1>4, <1>11 DEF IsFor
  <2>2. \A k \in Checked : FromFile(store', f, n + 1, k)
    BY <1>3, <1>6, <1>11, <2>1, OtherLine
  <2> QED BY <1>7, <1>8, <1>11, <2>2
<1>12. CASE l.kind \in {"pair", "spaced"} /\ InjectLine(l) /\ lines' = Tail(lines)
            /\ UNCHANGED section
  <2>1. store' = config_inject(store, TitleOf(f, n), f[n + 1].key,
                               IF f[n + 1].kind = "spaced" THEN <<"=">> ELSE f[n + 1].value)
    BY <1>2, <1>4, <1>12 DEF InjectLine
  <2>2. f[n + 1].kind \in {"pair", "spaced"}
    BY <1>4, <1>12
  <2>3. \A k \in Checked : FromFile(store', f, n + 1, k)
    BY <1>3, <1>6, <2>1, <2>2, PairLine
  <2> QED BY <1>7, <1>8, <1>12, <2>3
<1>13. CASE l.kind = "novalue" /\ lines' = <<>> /\ UNCHANGED <<store, section>>
  BY <1>9, <1>13
<1>14. CASE BlankLine
  <2>1. CASE lines' = <<>> /\ UNCHANGED store
    BY <1>9, <1>14, <2>1 DEF BlankLine
  <2>2. CASE lines' = Tail(lines) /\ store' = config_inject(store, section, "", <<"leftover">>)
    <3>1. l.kind = "blank" /\ section' = section
      BY <1>14 DEF BlankLine
    <3>2. \A k : ~IsFor(f, n + 1, k)
      BY <1>4, <3>1 DEF IsFor
    <3>3. ASSUME NEW k \in Checked PROVE FromFile(store', f, n + 1, k)
      <4>1. <<section, "">> # k
        BY KeysHaveNames
      <4>2. FromFile(store, f, n, k)
        BY <1>6
      <4>3. FromFile(store', f, n, k)
        BY <2>2, <4>1, <4>2, OtherKey DEF config_inject
      <4> QED BY <1>3, <3>2, <4>3, OtherLine
    <3> QED BY <1>7, <1>8, <2>2, <3>1, <3>3
  <2> QED BY <1>14, <2>1, <2>2 DEF BlankLine
<1> QED BY <1>10, <1>11, <1>12, <1>13, <1>14 DEF LoadLine

\* The end of the file.
LEMMA LoadEnds ==
  ASSUME LoadInv, lines = <<>>
  PROVE  \E n \in Ends(file) : Loaded(store, file, n)
<1>1. PICK n : /\ Loaded(store, file, n)
               /\ Left(lines, file, n) \/ n \in Ends(file)
  BY DEF LoadInv
<1>2. CASE Left(lines, file, n)
  <2>1. Len(lines) = 0 /\ Len(file) \in Nat
    BY LenProperties DEF LoadInv
  <2>2. n = Len(file)
    BY <1>1, <1>2, <2>1 DEF Left, Loaded
  <2>3. n \in Ends(file)
    BY <1>1, <2>1, <2>2 DEF Ends, Loaded
  <2> QED BY <1>1, <2>3
<1> QED BY <1>1, <1>2

-----------------------------------------------------------------------------
(* The command line.  After n words the store, the addresses and whether   *)
(* the next word is a path are what the definitions of the property say.   *)

\* j begins the -c in a row in front of the word i, if any.
Run(a, j, i) == (\A l \in j .. i - 1 : a[l] = "-c") /\ (j > 1 => a[j - 1] # "-c")

\* It exists.
LEMMA RunExists ==
  ASSUME NEW a, NEW i \in Nat \ {0}
  PROVE  \E j \in 1 .. i : Run(a, j, i)
<1> DEFINE P == {n \in Nat : \E j \in 1 .. n + 1 : Run(a, j, n + 1)}
<1>1. 0 \in P
  <2>1. Run(a, 1, 0 + 1)
    BY DEF Run
  <2> QED BY <2>1
<1>2. ASSUME NEW n \in 0 .. (i - 1) - 1, n \in P PROVE n + 1 \in P
  <2>1. PICK j \in 1 .. n + 1 : Run(a, j, n + 1)
    BY <1>2
  <2>2. CASE a[n + 1] = "-c"
    <3>1. Run(a, j, n + 1 + 1)
      <4>1. \A l \in j .. (n + 1 + 1) - 1 : l \in j .. (n + 1) - 1 \/ l = n + 1
        BY <2>1
      <4> QED BY <2>1, <2>2, <4>1 DEF Run
    <3> QED BY <3>1
  <2>3. CASE a[n + 1] # "-c"
    <3>1. Run(a, n + 2, n + 1 + 1)
      BY <2>3 DEF Run
    <3> QED BY <3>1
  <2> QED BY <2>2, <2>3
<1>3. 0 .. i - 1 \subseteq P
  <2> HIDE DEF P
  <2> QED BY <1>1, <1>2, UpTo
<1>4. i - 1 \in P /\ (i - 1) + 1 = i
  BY <1>3
<1> QED BY <1>4

\* There is no other.
LEMMA RunUnique ==
  ASSUME NEW a, NEW i \in Nat, NEW j \in 1 .. i, Run(a, j, i), NEW m \in 1 .. i, Run(a, m, i)
  PROVE  j = m
<1>1. ASSUME NEW x \in 1 .. i, NEW y \in 1 .. i, x < y, Run(a, x, i), Run(a, y, i) PROVE FALSE
  <2>1. y - 1 \in x .. i - 1 /\ y > 1
    BY <1>1
  <2> QED BY <1>1, <2>1 DEF Run
<1> QED BY <1>1

\* A word is a path when the -c in front of it are odd in number.
LEMMA PathParity ==
  ASSUME NEW a, NEW i \in Nat \ {0}, NEW j \in 1 .. i, Run(a, j, i)
  PROVE  IsPath(a, i) <=> (i - j) % 2 = 1
<1>1. ASSUME (i - j) % 2 = 1 PROVE IsPath(a, i)
  <2>1. j # i
    BY <1>1
  <2>2. j \in 1 .. i - 1
    BY <2>1
  <2> QED BY <1>1, <2>2 DEF IsPath, Run
<1>2. ASSUME IsPath(a, i) PROVE (i - j) % 2 = 1
  <2>1. PICK m \in 1 .. i - 1 : Run(a, m, i) /\ (i - m) % 2 = 1
    BY <1>2 DEF IsPath, Run
  <2>2. m = j
    BY <2>1, RunUnique
  <2> QED BY <2>1, <2>2
<1> QED BY <1>1, <1>2

\* So every -c that is no path makes the next word one, and nothing else.
LEMMA PathStep ==
  ASSUME NEW a
  PROVE  /\ ~IsPath(a, 1)
         /\ \A i \in Nat \ {0} : IsPath(a, i + 1) <=> (a[i] = "-c" /\ ~IsPath(a, i))
<1>1. ~IsPath(a, 1)
  BY DEF IsPath
<1>2. ASSUME NEW i \in Nat \ {0} PROVE IsPath(a, i + 1) <=> (a[i] = "-c" /\ ~IsPath(a, i))
  <2>1. PICK j \in 1 .. i : Run(a, j, i)
    BY RunExists
  <2>2. CASE a[i] = "-c"
    <3>1. \A l \in j .. (i + 1) - 1 : l \in j .. i - 1 \/ l = i
      BY <2>1
    <3>2. Run(a, j, i + 1)
      BY <2>1, <2>2, <3>1 DEF Run
    <3>3. (i + 1 - j) % 2 = 1 <=> ~((i - j) % 2 = 1)
      BY <2>1
    <3>4. i + 1 \in Nat \ {0} /\ j \in 1 .. i + 1
      BY <2>1
    <3>5. IsPath(a, i + 1) <=> (i + 1 - j) % 2 = 1
      BY <3>2, <3>4, PathParity
    <3>6. IsPath(a, i) <=> (i - j) % 2 = 1
      BY <2>1, PathParity
    <3> QED BY <2>2, <3>3, <3>5, <3>6
  <2>3. CASE a[i] # "-c"
    <3> SUFFICES ASSUME IsPath(a, i + 1) PROVE FALSE
      BY <2>3
    <3>1. PICK m \in 1 .. (i + 1) - 1 : \A l \in m .. (i + 1) - 1 : a[l] = "-c"
      BY DEF IsPath
    <3> QED BY <2>3, <3>1
  <2> QED BY <2>2, <2>3
<1> QED BY <1>1, <1>2

\* The words of S among the first n.
Until(S, n) == {j \in S : j <= n}

\* How many they are.
LEMMA UntilCounts ==
  ASSUME NEW S, \A j \in S : j \in Nat /\ j > 0, NEW n \in Nat
  PROVE  /\ IsFiniteSet(Until(S, n)) /\ Cardinality(Until(S, n)) \in Nat
         /\ Until(S, 0) = {} /\ Cardinality(Until(S, 0)) = 0
         /\ n + 1 \notin S => Until(S, n + 1) = Until(S, n)
         /\ n + 1 \in S => /\ Until(S, n + 1) = Until(S, n) \cup {n + 1}
                           /\ Cardinality(Until(S, n + 1)) = Cardinality(Until(S, n)) + 1
         /\ \A i \in Until(S, n) : Cardinality(Until(S, i)) \in 1 .. Cardinality(Until(S, n))
<1>1. ASSUME NEW m \in Nat PROVE IsFiniteSet(Until(S, m)) /\ Cardinality(Until(S, m)) \in Nat
  <2>1. Until(S, m) \in SUBSET (1 .. m)
    BY DEF Until
  <2>2. IsFiniteSet(1 .. m)
    BY FS_Interval
  <2>3. IsFiniteSet(Until(S, m))
    BY <2>1, <2>2, FS_Subset
  <2> QED BY <2>3, FS_CardinalityType
<1>2. Until(S, 0) = {}
  BY DEF Until
<1>3. n + 1 \notin S => Until(S, n + 1) = Until(S, n)
  BY DEF Until
<1>4. n + 1 \in S => Until(S, n + 1) = Until(S, n) \cup {n + 1}
  BY DEF Until
<1>5. n + 1 \notin Until(S, n)
  BY DEF Until
<1>6. ASSUME NEW i \in Until(S, n) PROVE Cardinality(Until(S, i)) \in 1 .. Cardinality(Until(S, n))
  <2>1. i \in Nat /\ i \in Until(S, i) /\ Until(S, i) \in SUBSET Until(S, n)
    BY DEF Until
  <2>2. Cardinality(Until(S, i)) <= Cardinality(Until(S, n))
    BY <1>1, <2>1, FS_Subset
  <2>3. Cardinality(Until(S, i)) # 0
    BY <1>1, <2>1, FS_EmptySet
  <2> QED BY <1>1, <2>1, <2>2, <2>3
<1> HIDE DEF Until
<1>7. Cardinality(Until(S, n) \cup {n + 1}) = Cardinality(Until(S, n)) + 1
  BY <1>1, <1>5, FS_AddElement
<1> QED BY <1>1, <1>2, <1>3, <1>4, <1>6, <1>7, FS_EmptySet

\* v are the words of S among the first n of a, in their order.
InOrder(v, a, S, n) ==
    /\ Len(v) = Cardinality(Until(S, n))
    /\ \A i \in Until(S, n) : v[Cardinality(Until(S, i))] = a[i]
    /\ \A r \in 1 .. Len(v) : \E i \in Until(S, n) : Cardinality(Until(S, i)) = r

\* One word more.
LEMMA OrderGrows ==
  ASSUME NEW S, \A j \in S : j \in Nat /\ j > 0, NEW n \in Nat, NEW a, NEW v \in Seq(Tokens),
         InOrder(v, a, S, n)
  PROVE  /\ n + 1 \notin S => InOrder(v, a, S, n + 1)
         /\ n + 1 \in S /\ a[n + 1] \in Tokens => InOrder(Append(v, a[n + 1]), a, S, n + 1)
<1>1. ASSUME n + 1 \notin S PROVE InOrder(v, a, S, n + 1)
  <2>1. Until(S, n + 1) = Until(S, n)
    BY <1>1, UntilCounts
  <2> QED BY <2>1 DEF InOrder
<1>2. ASSUME n + 1 \in S, a[n + 1] \in Tokens PROVE InOrder(Append(v, a[n + 1]), a, S, n + 1)
  <2> DEFINE w == Append(v, a[n + 1])
             c == Cardinality(Until(S, n))
  <2>1. /\ Until(S, n + 1) = Until(S, n) \cup {n + 1} /\ c \in Nat
        /\ Cardinality(Until(S, n + 1)) = c + 1
        /\ \A i \in Until(S, n) : Cardinality(Until(S, i)) \in 1 .. c
    BY <1>2, UntilCounts
  <2>2. Len(v) = c
    BY DEF InOrder
  <2>3. Len(w) = c + 1 /\ w[c + 1] = a[n + 1] /\ \A r \in 1 .. c : w[r] = v[r]
    BY <1>2, <2>2, AppendProperties
  <2> HIDE DEF w, c
  <2>4. ASSUME NEW i \in Until(S, n + 1) PROVE w[Cardinality(Until(S, i))] = a[i]
    <3>1. CASE i = n + 1
      BY <2>1, <2>3, <3>1
    <3>2. CASE i \in Until(S, n)
      <4>1. Cardinality(Until(S, i)) \in 1 .. c /\ v[Cardinality(Until(S, i))] = a[i]
        BY <2>1, <3>2 DEF InOrder
      <4> QED BY <2>3, <4>1
    <3> QED BY <2>1, <3>1, <3>2
  <2>5. ASSUME NEW r \in 1 .. Len(w) PROVE \E i \in Until(S, n + 1) : Cardinality(Until(S, i)) = r
    <3>1. CASE r = c + 1
      BY <2>1, <3>1
    <3>2. CASE r # c + 1
      <4>1. r \in 1 .. Len(v)
        BY <2>1, <2>2, <2>3, <3>2
      <4>2. PICK i \in Until(S, n) : Cardinality(Until(S, i)) = r
        BY <4>1 DEF InOrder
      <4> QED BY <2>1, <4>2
    <3> QED BY <3>1, <3>2
  <2> QED BY <2>1, <2>3, <2>4, <2>5 DEF InOrder, w
<1> QED BY <1>1, <1>2

\* All of them are ArgIps.
LEMMA OrderIsArgIps ==
  ASSUME NEW a \in Seq(Tokens), NEW v \in Seq(Tokens), InOrder(v, a, Addresses(a), Len(a))
  PROVE  v = ArgIps(a) /\ (v = <<>> <=> Addresses(a) = {})
<1> DEFINE S == Addresses(a)
<1>1. (\A j \in S : j \in Nat /\ j > 0) /\ Until(S, Len(a)) = S
  <2>1. DOMAIN a = 1 .. Len(a) /\ Len(a) \in Nat
    BY LenProperties
  <2>2. \A j \in S : j \in 1 .. Len(a)
    BY <2>1 DEF Addresses
  <2> HIDE DEF S
  <2> QED BY <2>1, <2>2 DEF Until
<1>2. IsFiniteSet(S) /\ Cardinality(S) \in Nat
  <2> HIDE DEF S
  <2>1. Len(a) \in Nat
    BY LenProperties
  <2>2. /\ IsFiniteSet(Until(S, Len(a))) /\ Cardinality(Until(S, Len(a))) \in Nat
    BY <1>1, <2>1, UntilCounts
  <2> QED BY <1>1, <2>2
<1>3. /\ Len(v) = Cardinality(S)
      /\ \A i \in S : v[Cardinality(Until(S, i))] = a[i]
      /\ \A r \in 1 .. Len(v) : \E i \in S : Cardinality(Until(S, i)) = r
  BY <1>1 DEF InOrder
<1> DEFINE At(r) == CHOOSE i \in S : Cardinality(Until(S, i)) = r
<1>4. ArgIps(a) = [r \in 1 .. Cardinality(S) |-> a[At(r)]]
  BY DEF ArgIps, Until
<1>5. ASSUME NEW r \in 1 .. Len(v) PROVE v[r] = a[At(r)]
  <2>1. \E i \in S : Cardinality(Until(S, i)) = r
    <3> HIDE DEF S
    <3> QED BY <1>3, Zenon
  <2>2. At(r) \in S /\ Cardinality(Until(S, At(r))) = r
    <3> HIDE DEF S
    <3> QED BY <2>1
  <2> HIDE DEF At, S
  <2> QED BY <1>3, <2>2
<1>6. v = [r \in 1 .. Len(v) |-> v[r]]
  BY LenProperties
<1>7. v = ArgIps(a)
  <2> HIDE DEF At, S
  <2>1. ArgIps(a) = [r \in 1 .. Len(v) |-> a[At(r)]]
    <3>1. Len(v) = Cardinality(S)
      BY <1>3
    <3> QED BY <1>4, <3>1, Zenon
  <2> QED BY <1>5, <1>6, <2>1
<1>8. v = <<>> <=> Cardinality(S) = 0
  <2> HIDE DEF S
  <2> QED BY <1>3, EmptySeq
<1>9. Cardinality(S) = 0 <=> S = {}
  <2> HIDE DEF S
  <2> QED BY <1>2, FS_EmptySet
<1> QED BY <1>7, <1>8, <1>9

\* The second value for a key replaces the first.
LEMMA PutTwice ==
  ASSUME NEW s, NEW k, NEW v, NEW w
  PROVE  Put(Put(s, k, v), k, w) = Put(s, k, w)
<1> DEFINE t == Put(s, k, v)
<1>1. DOMAIN t = DOMAIN s \cup {k} /\ \A x \in DOMAIN s : x # k => t[x] = s[x]
  BY DEF Put
<1> HIDE DEF t
<1>2. Put(t, k, w) = Put(s, k, w)
  BY <1>1 DEF Put
<1> QED BY <1>2 DEF t

LevelOf(w) == IF w = "-d" THEN <<"DEBUG">> ELSE <<"TRACE">>

\* The store after n words: the last -d or -dd has set the level.
StoreAt(s, a, n) ==
    IF Until(Debugs(a), n) = {} THEN s
    ELSE config_set(s, "log", "log_level", LevelOf(a[Max(Until(Debugs(a), n))]))

\* Options and addresses are positions of the command line.
LEMMA Positions ==
  ASSUME NEW a \in Seq(Tokens)
  PROVE  /\ \A j \in Debugs(a) : j \in Nat /\ j > 0 /\ j <= Len(a)
         /\ \A j \in Addresses(a) : j \in Nat /\ j > 0 /\ j <= Len(a)
         /\ \A j \in 1 .. Len(a) :
              /\ j \in Debugs(a) <=> a[j] \in {"-d", "-dd"} /\ ~IsPath(a, j)
              /\ j \in Addresses(a) <=> a[j] \notin {"-c", "-d", "-dd"} /\ ~IsPath(a, j)
<1>1. DOMAIN a = 1 .. Len(a) /\ Len(a) \in Nat
  BY LenProperties
<1> QED BY <1>1 DEF Debugs, Addresses

\* One word more.
LEMMA StoreGrows ==
  ASSUME NEW s, NEW a \in Seq(Tokens), NEW n \in Nat
  PROVE  /\ n + 1 \notin Debugs(a) => StoreAt(s, a, n + 1) = StoreAt(s, a, n)
         /\ n + 1 \in Debugs(a) =>
               StoreAt(s, a, n + 1) = config_set(StoreAt(s, a, n), "log", "log_level",
                                                 LevelOf(a[n + 1]))
<1> DEFINE D == Debugs(a)
<1>1. \A j \in D : j \in Nat /\ j > 0
  BY Positions
<1> HIDE DEF D
<1>2. ASSUME n + 1 \notin D PROVE Until(D, n + 1) = Until(D, n)
  BY <1>1, <1>2, UntilCounts
<1>3. ASSUME n + 1 \in D PROVE Until(D, n + 1) # {} /\ Max(Until(D, n + 1)) = n + 1
  <2> DEFINE U == Until(D, n + 1)
  <2>1. U \in SUBSET Int /\ n + 1 \in U /\ \A y \in U : y <= n + 1
    BY <1>1, <1>3 DEF Until
  <2> HIDE DEF U
  <2>2. Max(U) = n + 1
    BY <2>1, MaxIs
  <2> QED BY <2>1, <2>2 DEF U
<1>4. ASSUME n + 1 \in D
      PROVE  StoreAt(s, a, n + 1) = config_set(StoreAt(s, a, n), "log", "log_level", LevelOf(a[n + 1]))
  <2>1. StoreAt(s, a, n + 1) = config_set(s, "log", "log_level", LevelOf(a[n + 1]))
    BY <1>3, <1>4 DEF StoreAt, D
  <2>2. \A v, w : config_set(config_set(s, "log", "log_level", v), "log", "log_level", w)
                     = config_set(s, "log", "log_level", w)
    <3>1. \A k, v, w : Put(Put(s, k, v), k, w) = Put(s, k, w)
      BY PutTwice
    <3> QED BY <3>1, Zenon DEF config_set
  <2>3. StoreAt(s, a, n) = s \/ \E v : StoreAt(s, a, n) = config_set(s, "log", "log_level", v)
    BY DEF StoreAt
  <2> QED BY <2>1, <2>2, <2>3
<1> QED BY <1>2, <1>4 DEF StoreAt, D

\* What has become of the store s after n words.
WordsTaken(x, s, a, n) == \E b \in BOOLEAN : \E v \in Seq(Tokens) :
    /\ x = [store |-> StoreAt(s, a, n), skip |-> b, ips |-> v]
    /\ b <=> IsPath(a, n + 1)
    /\ InOrder(v, a, Addresses(a), n)

\* A turn of param_inject_config's loop.
LEMMA WordTaken ==
  ASSUME NEW s, NEW a \in Seq(Tokens), NEW n \in 0 .. Len(a) - 1, NEW x, WordsTaken(x, s, a, n)
  PROVE  WordsTaken(TakeArg(x, a[n + 1]), s, a, n + 1)
<1> DEFINE w == a[n + 1]
           p == n + 1
<1>1. n \in Nat /\ p \in 1 .. Len(a) /\ p \in Nat \ {0} /\ w \in Tokens
  <2>1. Len(a) \in Nat
    BY LenProperties
  <2> QED BY <2>1, ElementOfSeq
<1>2. PICK b \in BOOLEAN, v \in Seq(Tokens) :
         /\ x = [store |-> StoreAt(s, a, n), skip |-> b, ips |-> v]
         /\ b <=> IsPath(a, p)
         /\ InOrder(v, a, Addresses(a), n)
  BY DEF WordsTaken
<1>3. IsPath(a, p + 1) <=> (w = "-c" /\ ~b)
  BY <1>1, <1>2, PathStep
<1>4. /\ p \in Debugs(a) <=> w \in {"-d", "-dd"} /\ ~b
      /\ p \in Addresses(a) <=> w \notin {"-c", "-d", "-dd"} /\ ~b
      /\ \A j \in Addresses(a) : j \in Nat /\ j > 0
  BY <1>1, <1>2, Positions
<1>5. /\ p \notin Debugs(a) => StoreAt(s, a, p) = StoreAt(s, a, n)
      /\ p \in Debugs(a) =>
            StoreAt(s, a, p) = config_set(StoreAt(s, a, n), "log", "log_level", LevelOf(w))
  BY <1>1, StoreGrows
<1>6. /\ p \notin Addresses(a) => InOrder(v, a, Addresses(a), p)
      /\ p \in Addresses(a) => InOrder(Append(v, w), a, Addresses(a), p)
  BY <1>1, <1>2, <1>4, OrderGrows
<1> DEFINE u == StoreAt(s, a, n)
           y == TakeArg(x, w)
<1>7. ASSUME NEW c \in BOOLEAN, NEW r \in Seq(Tokens),
             y = [store |-> StoreAt(s, a, p), skip |-> c, ips |-> r],
             c <=> IsPath(a, p + 1), InOrder(r, a, Addresses(a), p)
      PROVE  WordsTaken(y, s, a, p)
  BY <1>7 DEF WordsTaken
<1> HIDE DEF u, w, p
<1>8. x = [store |-> u, skip |-> b, ips |-> v]
  BY <1>2 DEF u
<1>9. CASE b
  <2>1. y = [store |-> u, skip |-> FALSE, ips |-> v]
    BY <1>8, <1>9 DEF TakeArg
  <2> HIDE DEF y
  <2> QED BY <1>3, <1>4, <1>5, <1>6, <1>7, <1>9, <2>1 DEF u, w, p, y
<1>10. CASE ~b /\ w = "-d"
  <2>1. y = [store |-> config_set(u, "log", "log_level", <<"DEBUG">>), skip |-> FALSE, ips |-> v]
    BY <1>8, <1>10 DEF TakeArg
  <2>2. StoreAt(s, a, p) = config_set(u, "log", "log_level", <<"DEBUG">>)
    BY <1>4, <1>5, <1>10 DEF LevelOf, u
  <2>3. InOrder(v, a, Addresses(a), p) /\ ~IsPath(a, p + 1)
    BY <1>3, <1>4, <1>6, <1>10
  <2> HIDE DEF y
  <2> QED BY <1>7, <2>1, <2>2, <2>3 DEF w, p, y
<1>11. CASE ~b /\ w = "-dd"
  <2>1. y = [store |-> config_set(u, "log", "log_level", <<"TRACE">>), skip |-> FALSE, ips |-> v]
    BY <1>8, <1>11 DEF TakeArg
  <2>2. StoreAt(s, a, p) = config_set(u, "log", "log_level", <<"TRACE">>)
    BY <1>4, <1>5, <1>11 DEF LevelOf, u
  <2>3. InOrder(v, a, Addresses(a), p) /\ ~IsPath(a, p + 1)
    BY <1>3, <1>4, <1>6, <1>11
  <2> HIDE DEF y
  <2> QED BY <1>7, <2>1, <2>2, <2>3 DEF w, p, y
<1>12. CASE ~b /\ w = "-c"
  <2>1. y = [store |-> u, skip |-> TRUE, ips |-> v]
    BY <1>8, <1>12 DEF TakeArg
  <2>2. StoreAt(s, a, p) = u
    BY <1>4, <1>5, <1>12 DEF u
  <2>3. InOrder(v, a, Addresses(a), p) /\ IsPath(a, p + 1)
    BY <1>3, <1>4, <1>6, <1>12
  <2> HIDE DEF y
  <2> QED BY <1>7, <2>1, <2>2, <2>3 DEF w, p, y
<1>13. CASE ~b /\ w \notin {"-d", "-dd", "-c"}
  <2>1. y = [store |-> u, skip |-> FALSE, ips |-> Append(v, w)]
    BY <1>8, <1>13 DEF TakeArg
  <2>2. StoreAt(s, a, p) = u
    BY <1>4, <1>5, <1>13 DEF u
  <2>3. InOrder(Append(v, w), a, Addresses(a), p) /\ ~IsPath(a, p + 1)
    BY <1>3, <1>4, <1>6, <1>13
  <2>4. Append(v, w) \in Seq(Tokens)
    BY <1>1, AppendProperties
  <2> HIDE DEF y
  <2> QED BY <1>7, <2>1, <2>2, <2>3, <2>4 DEF w, p, y
<1> QED BY <1>9, <1>10, <1>11, <1>12, <1>13 DEF w, p

\* param_inject_config: the level is that of the last -d or -dd, the
\* upstreams are the addresses, and the other settings stay.
LEMMA ArgsAgree ==
  ASSUME NEW s, NEW a \in Seq(Tokens)
  PROVE  param_inject_config(s, a) =
           LET t == IF Debugs(a) = {} THEN s
                    ELSE config_set(s, "log", "log_level", ArgLevel(a))
           IN IF Addresses(a) = {} THEN t
              ELSE config_inject(t, "server", "server_upstream", ArgIps(a))
<1>1. Len(a) \in Nat
  BY LenProperties
<1>2. PICK f : Rounds(s, a, Len(a), f) /\ TakeAll(s, a) = f[Len(a)]
  BY <1>1, LastRound
<1>3. f[0] = [store |-> s, skip |-> FALSE, ips |-> <<>>]
  BY <1>1, <1>2 DEF Rounds
<1>4. ASSUME NEW i \in 1 .. Len(a) PROVE f[i] = TakeArg(f[i - 1], a[i])
  <2> DEFINE r == [store |-> s, skip |-> FALSE, ips |-> <<>>]
  <2>1. \A j \in 0 .. Len(a) : f[j] = IF j = 0 THEN r ELSE TakeArg(f[j - 1], a[j])
    BY <1>2 DEF Rounds
  <2>2. i \in 0 .. Len(a) /\ i # 0
    BY <1>1
  <2> HIDE DEF r
  <2> QED BY <2>1, <2>2
<1> DEFINE P == {n \in Nat : WordsTaken(f[n], s, a, n)}
<1>5. 0 \in P
  <2>1. /\ \A j \in Debugs(a) : j \in Nat /\ j > 0
        /\ \A j \in Addresses(a) : j \in Nat /\ j > 0
    BY Positions
  <2>2. Until(Debugs(a), 0) = {}
    BY <2>1, UntilCounts
  <2>3. Until(Addresses(a), 0) = {} /\ Cardinality(Until(Addresses(a), 0)) = 0
    BY <2>1, UntilCounts
  <2>4. StoreAt(s, a, 0) = s
    BY <2>2 DEF StoreAt
  <2>5. <<>> \in Seq(Tokens) /\ Len(<<>>) = 0
    OBVIOUS
  <2>6. InOrder(<<>>, a, Addresses(a), 0)
    BY <2>3, <2>5 DEF InOrder
  <2>7. ~IsPath(a, 0 + 1)
    BY PathStep
  <2> QED BY <1>3, <2>4, <2>5, <2>6, <2>7 DEF WordsTaken
<1>6. ASSUME NEW n \in 0 .. Len(a) - 1, n \in P PROVE n + 1 \in P
  <2>1. n + 1 \in 1 .. Len(a) /\ n + 1 - 1 = n /\ n + 1 \in Nat
    BY <1>1
  <2>2. f[n + 1] = TakeArg(f[n], a[n + 1])
    BY <1>4, <2>1
  <2>3. WordsTaken(TakeArg(f[n], a[n + 1]), s, a, n + 1)
    BY <1>6, WordTaken
  <2> QED BY <2>1, <2>2, <2>3
<1>7. Len(a) \in P
  <2>1. 0 .. Len(a) \subseteq P
    <3> HIDE DEF P
    <3> QED BY <1>1, <1>5, <1>6, UpTo
  <2> QED BY <1>1, <2>1
<1>8. PICK b \in BOOLEAN, v \in Seq(Tokens) :
         /\ TakeAll(s, a) = [store |-> StoreAt(s, a, Len(a)), skip |-> b, ips |-> v]
         /\ InOrder(v, a, Addresses(a), Len(a))
  BY <1>2, <1>7 DEF WordsTaken
<1> DEFINE t == IF Debugs(a) = {} THEN s ELSE config_set(s, "log", "log_level", ArgLevel(a))
<1>9. StoreAt(s, a, Len(a)) = t
  <2>1. Until(Debugs(a), Len(a)) = Debugs(a)
    BY Positions DEF Until
  <2> QED BY <2>1 DEF StoreAt, ArgLevel, LevelOf
<1>10. v = ArgIps(a) /\ (v = <<>> <=> Addresses(a) = {})
  BY <1>8, OrderIsArgIps
<1> HIDE DEF t
<1>11. TakeAll(s, a).ips = v /\ TakeAll(s, a).store = t
  BY <1>8, <1>9
<1>12. param_inject_config(s, a) =
          IF Addresses(a) = {} THEN t
          ELSE config_inject(t, "server", "server_upstream", ArgIps(a))
  BY <1>10, <1>11 DEF param_inject_config
<1> QED BY <1>12 DEF t

-----------------------------------------------------------------------------
(* The settings.  What is stored for a setting is what the command line or *)
(* the file says, or what the parser made of it, and so is what has been   *)
(* read; a setting nobody gives stays at its default.                      *)

\* Whether the command line a or the first n lines of f give k, and what.
IsSet(f, a, n, k) ==
    \/ k = LogLevel /\ Debugs(a) # {}
    \/ k = Upstreams /\ Addresses(a) # {}
    \/ LinesFor(f, n, k) # {}
Origin(f, a, n, k) ==
    IF k = LogLevel /\ Debugs(a) # {} THEN ConfigValue(TRUE, ArgLevel(a))
    ELSE ConfigValue(FALSE, IF k = Upstreams /\ Addresses(a) # {} THEN ArgIps(a)
                            ELSE FileValue(f, n, k))

\* w is v, or what the parser makes of it.
Cooks(k, v, w) ==
    \/ w = v
    \/ ~v.is_cook /\ \E p \in Parser(k, v.value) : p.ret = "ok" /\ w = ConfigValue(TRUE, p.value)

\* What is stored in s for k, and what is read as g, when v was given.
Stored(s, k, v) == k \in DOMAIN s /\ Cooks(k, v, s[k])
Got(g, k, v)    == \E w : Cooks(k, v, w) /\ g = Read(w)

Kept(s, f, a, n, k) == IF IsSet(f, a, n, k) THEN Stored(s, k, Origin(f, a, n, k))
                       ELSE k \notin DOMAIN s
Known(g, f, a, n, k) == IF IsSet(f, a, n, k) THEN Got(g, k, Origin(f, a, n, k))
                        ELSE g = Default

\* What Put stores.
LEMMA PutStores ==
  ASSUME NEW r, NEW x, NEW v
  PROVE  x \in DOMAIN Put(r, x, v) /\ Put(r, x, v)[x] = v
BY DEF Put

\* A value given on the command line or in the file is stored as it is.
LEMMA ArgsKept ==
  ASSUME NEW s, NEW f, NEW a \in Seq(Tokens), NEW n, NEW k \in Checked, FromFile(s, f, n, k)
  PROVE  Kept(param_inject_config(s, a), f, a, n, k)
<1> DEFINE lv == ConfigValue(TRUE, ArgLevel(a))
           up == ConfigValue(FALSE, ArgIps(a))
           t == IF Debugs(a) = {} THEN s ELSE config_set(s, "log", "log_level", ArgLevel(a))
           u == IF Addresses(a) = {} THEN t
                ELSE config_inject(t, "server", "server_upstream", ArgIps(a))
<1>1. param_inject_config(s, a) = u
  BY ArgsAgree
<1> SUFFICES Kept(u, f, a, n, k)
  BY <1>1
<1>2. LogLevel = <<"log", "log_level">> /\ Upstreams = <<"server", "server_upstream">>
      /\ LogLevel # Upstreams
  BY KeysDiffer DEF LogLevel, Upstreams
<1>3. Debugs(a) = {} => t = s
  OBVIOUS
<1>4. Debugs(a) # {} => t = Put(s, LogLevel, lv)
  BY <1>2 DEF config_set
<1> HIDE DEF t
<1>5. Addresses(a) = {} => u = t
  OBVIOUS
<1>6. Addresses(a) # {} => u = Put(t, Upstreams, up)
  BY <1>2 DEF config_inject
<1> HIDE DEF u, up, lv
<1> DEFINE v == Origin(f, a, n, k)
<1>7. k # Upstreams \/ Addresses(a) = {}
        => (k \in DOMAIN u <=> k \in DOMAIN t) /\ (k \in DOMAIN t => u[k] = t[k])
  <2>1. ASSUME k # Upstreams
        PROVE  /\ k \in DOMAIN Put(t, Upstreams, up) <=> k \in DOMAIN t
               /\ k \in DOMAIN t => Put(t, Upstreams, up)[k] = t[k]
    BY <2>1 DEF Put
  <2> QED BY <1>5, <1>6, <2>1
<1>8. k # LogLevel \/ Debugs(a) = {}
        => (k \in DOMAIN t <=> k \in DOMAIN s) /\ (k \in DOMAIN s => t[k] = s[k])
  <2>1. ASSUME k # LogLevel
        PROVE  /\ k \in DOMAIN Put(s, LogLevel, lv) <=> k \in DOMAIN s
               /\ k \in DOMAIN s => Put(s, LogLevel, lv)[k] = s[k]
    BY <2>1 DEF Put
  <2> QED BY <1>3, <1>4, <2>1
<1>9. CASE k = LogLevel /\ Debugs(a) # {}
  <2>1. v = lv /\ IsSet(f, a, n, k)
    BY <1>9 DEF Origin, IsSet, lv
  <2>2. LogLevel \in DOMAIN Put(s, LogLevel, lv) /\ Put(s, LogLevel, lv)[LogLevel] = lv
    BY PutStores
  <2>3. k \in DOMAIN t /\ t[k] = v
    BY <1>4, <1>9, <2>1, <2>2
  <2>4. k \in DOMAIN u /\ u[k] = v
    BY <1>2, <1>7, <1>9, <2>3
  <2> QED BY <2>1, <2>4 DEF Kept, Stored, Cooks
<1>10. CASE k = Upstreams /\ Addresses(a) # {}
  <2>1. v = up /\ IsSet(f, a, n, k)
    BY <1>2, <1>10 DEF Origin, IsSet, up
  <2>2. Upstreams \in DOMAIN Put(t, Upstreams, up) /\ Put(t, Upstreams, up)[Upstreams] = up
    BY PutStores
  <2>3. k \in DOMAIN u /\ u[k] = v
    BY <1>6, <1>10, <2>1, <2>2
  <2> QED BY <2>1, <2>3 DEF Kept, Stored, Cooks
<1>11. CASE ~(k = LogLevel /\ Debugs(a) # {}) /\ ~(k = Upstreams /\ Addresses(a) # {})
  <2>1. v = ConfigValue(FALSE, FileValue(f, n, k)) /\ (IsSet(f, a, n, k) <=> LinesFor(f, n, k) # {})
    BY <1>11 DEF Origin, IsSet
  <2>2. (k \in DOMAIN u <=> k \in DOMAIN s) /\ (k \in DOMAIN s => u[k] = s[k])
    BY <1>7, <1>8, <1>11
  <2> QED BY <2>1, <2>2 DEF FromFile, Kept, Stored, Cooks
<1> QED BY <1>9, <1>10, <1>11

\* config_get: what was given is stored and read, for this setting and for
\* the others.
LEMMA GetAgrees ==
  ASSUME DataInv, NEW f, NEW a, NEW n, NEW k \in Keys, Kept(store, f, a, n, k),
         NEW g, Known(g, f, a, n, k) \/ g = Default,
         NEW o \in config_get(k, g, Parses(k))
  PROVE  /\ Kept(o.store, f, a, n, k)
         /\ Known(o.got, f, a, n, k) \/ o.got = Default
         /\ o.ret \in {"missing", "ok"} => Known(o.got, f, a, n, k)
<1> DEFINE v == Origin(f, a, n, k)
<1>1. CASE Missing(k, g, o)
  <2>1. ~IsSet(f, a, n, k)
    BY <1>1 DEF Missing, Kept, Stored
  <2> QED BY <1>1, <2>1 DEF Missing, Kept, Known
<1>2. CASE Plainly(k, o)
  <2>1. IsSet(f, a, n, k) /\ Cooks(k, v, store[k])
    BY <1>2 DEF Plainly, Kept, Stored
  <2>2. Got(o.got, k, v)
    BY <1>2, <2>1 DEF Plainly, Got
  <2> QED BY <1>2, <2>1, <2>2 DEF Plainly, Known
<1>3. CASE Failed(k, g, o)
  <2>1. PICK p \in Parses(k) : o.store = store /\ o.got = g /\ p.ret # "ok" /\ o.ret = p.ret
    BY <1>3 DEF Failed
  <2>2. k \in DOMAIN store /\ p \in Parser(k, store[k].value) /\ k[1] \in Sections
    BY <1>3, <2>1 DEF Parses, DataInv, Failed
  <2>3. GoodFor(k, store[k])
    BY <2>2 DEF DataInv, StoreOK
  <2>4. store[k].value \in Seq(Tokens) /\ (k = Upstreams => store[k].value # <<>>)
    BY <2>3 DEF GoodFor
  <2>5. ParseOK(k, p)
    BY <2>2, <2>4, ParserOK
  <2>6. o.ret \notin {"missing", "ok"}
    BY <2>1, <2>5 DEF ParseOK
  <2> QED BY <2>1, <2>6
<1>4. CASE Parsed(k, o)
  <2>1. PICK p \in Parses(k) :
          /\ p.ret = "ok" /\ o.ret = "ok"
          /\ o.store = Put(store, k, ConfigValue(TRUE, p.value))
          /\ o.got = Read(ConfigValue(TRUE, p.value))
    BY <1>4 DEF Parsed
  <2>2. k \in DOMAIN store /\ ~store[k].is_cook /\ IsSet(f, a, n, k) /\ Cooks(k, v, store[k])
        /\ p \in Parser(k, store[k].value)
    BY <1>4, <2>1 DEF Parsed, Kept, Stored, Parses
  <2> DEFINE w == ConfigValue(TRUE, p.value)
  <2>3. \A x : ConfigValue(TRUE, x).is_cook = TRUE
    BY DEF ConfigValue
  <2>4. store[k] = v
    BY <2>2, <2>3 DEF Cooks
  <2>5. Cooks(k, v, w)
    BY <2>1, <2>2, <2>4 DEF Cooks
  <2> HIDE DEF w, v
  <2>6. k \in DOMAIN o.store /\ o.store[k] = w
    BY <2>1 DEF Put, w
  <2> QED BY <2>1, <2>2, <2>5, <2>6 DEF Kept, Stored, Known, Got, w, v
<1> QED BY <1>1, <1>2, <1>3, <1>4, GetOutcomes

-----------------------------------------------------------------------------
(* The steps.  Every setting is read in one step, and what comes after it  *)
(* works with what was read.                                               *)

\* The steps after the one that reads k.
AfterUpstreams == {"try_socket", "socket", "serving"}
AfterRetries   == {"check", "upstreams"} \cup AfterUpstreams
AfterTimeout   == {"retries"} \cup AfterRetries
AfterUseCache  == {"try_session", "session", "try_server", "server", "timeout"} \cup AfterTimeout
AfterIpTable   == {"load_table", "try_resolver", "resolver", "use_cache"} \cup AfterUseCache
AfterLogLevel  == {"id_pool", "try_cache", "cache", "ip_table"} \cup Range(Levels)
                     \cup AfterIpTable
Done(k) == CASE k = LogLevel    -> AfterLogLevel
             [] k = IpTablePath -> AfterIpTable
             [] k = UseCache    -> AfterUseCache
             [] k = Timeout     -> AfterTimeout
             [] k = Retries     -> AfterRetries
             [] k = Upstreams   -> AfterUpstreams

\* From p to q nothing but x is read.
Passes(p, q, x) == \A k \in Checked : k # x => (q \in Done(k) => p \in Done(k))

\* The settings and what comes after them.
LEMMA DoneIs ==
  /\ Checked = {LogLevel, IpTablePath, UseCache, Timeout, Retries, Upstreams}
  /\ \A i \in 1 .. 5 : Channel(i) \notin Checked
  /\ Done(LogLevel) = AfterLogLevel /\ Done(IpTablePath) = AfterIpTable
  /\ Done(UseCache) = AfterUseCache /\ Done(Timeout) = AfterTimeout
  /\ Done(Retries) = AfterRetries /\ Done(Upstreams) = AfterUpstreams
<1>1. /\ LogLevel[2] = "log_level" /\ IpTablePath[2] = "iptable" /\ UseCache[2] = "usecache"
      /\ Timeout[2] = "dns_packet_timeout" /\ Retries[2] = "max_retry_time"
      /\ Upstreams[2] = "server_upstream"
  BY DEF LogLevel, IpTablePath, UseCache, Timeout, Retries, Upstreams
<1>2. \A i \in 1 .. 5 : Channel(i)[2] \in {"TRACE", "DEBUG", "INFO", "WARN", "ERROR"}
  <2>1. \A i \in 1 .. 5 : Channel(i)[2] = Levels[i] /\ Levels[i] \in Range(Levels)
    BY KeysDiffer DEF Channel, Range
  <2> QED BY <2>1, LevelNames
<1>3. Checked = {LogLevel, IpTablePath, UseCache, Timeout, Retries, Upstreams}
  <2>1. \A k \in {LogLevel, IpTablePath, UseCache, Timeout, Retries, Upstreams} :
           \A i \in 1 .. 5 : k # Channel(i)
    BY <1>1, <1>2
  <2> QED BY <2>1, KeysDiffer DEF Checked, Keys
<1>4. \A i \in 1 .. 5 : Channel(i) \notin Checked
  BY DEF Checked
<1>5. /\ Done(LogLevel) = AfterLogLevel /\ Done(IpTablePath) = AfterIpTable
      /\ Done(UseCache) = AfterUseCache /\ Done(Timeout) = AfterTimeout
      /\ Done(Retries) = AfterRetries /\ Done(Upstreams) = AfterUpstreams
  BY <1>1 DEF Done
<1> QED BY <1>3, <1>4, <1>5

\* What holds of a setting with the value s[k] stored and g read in the step p.
Agrees(s, g, p, f, a, n, k) ==
    /\ Kept(s, f, a, n, k)
    /\ Known(g, f, a, n, k) \/ (g = Default /\ p \notin Done(k))

SettingsInv ==
    /\ pc = "load" => LoadInv
    /\ pc = "args" => \E n \in Ends(file) : Loaded(store, file, n)
    /\ pc \in {"load", "args"} => \A k \in Checked : settings[k] = Default
    /\ pc \notin {"load", "args", "undefined"} => \E n \in Ends(file) : \A k \in Checked :
          Agrees(store, settings[k], pc, file, args, n, k)

\* A value stored for another key changes nothing for k.
LEMMA KeptByPut ==
  ASSUME NEW s, NEW f, NEW a, NEW n, NEW k, Kept(s, f, a, n, k), NEW x, x # k, NEW v
  PROVE  Kept(Put(s, x, v), f, a, n, k)
<1>1. /\ k \in DOMAIN Put(s, x, v) <=> k \in DOMAIN s
      /\ k \in DOMAIN s => Put(s, x, v)[k] = s[k]
  BY DEF Put
<1> HIDE DEF Put
<1> QED BY <1>1 DEF Kept, Stored

\* A step that reads x, for every setting.
LEMMA ReadAgrees ==
  ASSUME DataInv, NEW f, NEW a, NEW n,
         \A k \in Checked : Agrees(store, settings[k], pc, f, a, n, k),
         NEW x \in Keys, NEW o \in config_get(x, settings[x], Parses(x)),
         store' = o.store, settings' = [settings EXCEPT ![x] = o.got],
         Passes(pc, pc', x), x \in Checked /\ pc' \in Done(x) => o.ret \in {"missing", "ok"}
  PROVE  \A k \in Checked : Agrees(store', settings'[k], pc', f, a, n, k)
<1> SUFFICES ASSUME NEW k \in Checked
             PROVE  Agrees(o.store, settings'[k], pc', f, a, n, k)
  OBVIOUS
<1>1. /\ Kept(store, f, a, n, k) /\ k \in Keys
      /\ Known(settings[k], f, a, n, k) \/ (settings[k] = Default /\ pc \notin Done(k))
  BY DEF Agrees, Checked
<1>2. /\ settings'[x] = o.got /\ (k # x => settings'[k] = settings[k])
  BY <1>1 DEF DataInv
<1>3. CASE k = x
  <2>1. /\ Kept(o.store, f, a, n, k)
        /\ Known(o.got, f, a, n, k) \/ o.got = Default
        /\ o.ret \in {"missing", "ok"} => Known(o.got, f, a, n, k)
    BY <1>1, <1>3, GetAgrees
  <2> QED BY <1>2, <1>3, <2>1 DEF Agrees
<1>4. CASE k # x
  <2>1. o.store = store \/ \E v : o.store = Put(store, x, v)
    <3>1. CASE Missing(x, settings[x], o) \/ Plainly(x, o) \/ Failed(x, settings[x], o)
      BY <3>1 DEF Missing, Plainly, Failed
    <3>2. CASE Parsed(x, o)
      BY <3>2 DEF Parsed
    <3> QED BY <3>1, <3>2, GetOutcomes
  <2>2. Kept(o.store, f, a, n, k)
    BY <1>1, <1>4, <2>1, KeptByPut
  <2>3. pc' \in Done(k) => pc \in Done(k)
    BY <1>4 DEF Passes
  <2> QED BY <1>1, <1>2, <1>4, <2>2, <2>3 DEF Agrees
<1> QED BY <1>3, <1>4

\* A step that reads x.
LEMMA ReadSettings ==
  ASSUME StartInv, SettingsInv, pc \notin {"load", "args", "undefined"}, pc' \notin {"load", "args"}, UNCHANGED inputs,
         NEW x \in Keys, NEW o \in config_get(x, settings[x], Parses(x)),
         store' = o.store, settings' = [settings EXCEPT ![x] = o.got],
         Passes(pc, pc', x), x \in Checked /\ pc' \in Done(x) => o.ret \in {"missing", "ok"}
  PROVE  SettingsInv'
<1>1. PICK n \in Ends(file) : \A k \in Checked :
         Agrees(store, settings[k], pc, file, args, n, k)
  BY DEF SettingsInv
<1>2. \A k \in Checked : Agrees(store', settings'[k], pc', file, args, n, k)
  BY <1>1, ReadAgrees DEF StartInv
<1>3. file' = file /\ args' = args
  BY DEF inputs
<1>4. \E m \in Ends(file') : \A k \in Checked :
         Agrees(store', settings'[k], pc', file', args', m, k)
  BY <1>2, <1>3
<1> QED BY <1>4 DEF SettingsInv

\* A step that reads nothing.
LEMMA SameSettings ==
  ASSUME SettingsInv, pc \notin {"load", "args", "undefined"}, pc' \notin {"load", "args"},
         UNCHANGED <<store, settings, file, args>>, NEW x, x \notin Checked, Passes(pc, pc', x)
  PROVE  SettingsInv'
<1>1. PICK n \in Ends(file) : \A k \in Checked :
         Agrees(store, settings[k], pc, file, args, n, k)
  BY DEF SettingsInv
<1>2. \A k \in Checked : Agrees(store, settings[k], pc', file, args, n, k)
  BY <1>1 DEF Agrees, Passes
<1>3. \E m \in Ends(file') : \A k \in Checked :
         Agrees(store', settings'[k], pc', file', args', m, k)
  BY <1>2
<1> QED BY <1>3 DEF SettingsInv

\* The steps that end the program are after none of the readings.
Over == {"exit", "undefined"} \cup DOMAIN Reports

\* The order of the steps: from one to the next, and to the end.
LEMMA StepsPass ==
  ASSUME NEW x
  PROVE  /\ \A p : \A q \in Over : Passes(p, q, x)
         /\ \A q \in Over \cup {"log", "log_level"} : \A k \in Checked : q \notin Done(k)
         /\ Passes("log", "log_level", x) /\ Passes("log_level", "log_level", x)
         /\ \A p \in Range(Levels) : \A q \in Range(Levels) \cup {"id_pool"} : Passes(p, q, x)
         /\ Passes("id_pool", "try_cache", x) /\ Passes("try_cache", "cache", x)
         /\ Passes("cache", "ip_table", x) /\ Passes("load_table", "load_table", x)
         /\ Passes("load_table", "try_resolver", x) /\ Passes("try_resolver", "resolver", x)
         /\ Passes("resolver", "use_cache", x) /\ Passes("try_session", "session", x)
         /\ Passes("session", "try_server", x) /\ Passes("try_server", "server", x)
         /\ Passes("server", "timeout", x) /\ Passes("check", "upstreams", x)
         /\ Passes("try_socket", "socket", x) /\ Passes("socket", "serving", x)
<1> USE DoneIs, LevelNames DEF AfterUpstreams, AfterRetries, AfterTimeout, AfterUseCache,
                               AfterIpTable, AfterLogLevel
<1>1. \A q \in Over \cup {"log", "log_level"} : \A k \in Checked : q \notin Done(k)
  BY ReportSteps DEF Over
<1>2. \A p : \A q \in Over \cup {"log", "log_level"} : Passes(p, q, x)
  BY <1>1 DEF Passes
<1>3. \A p \in Range(Levels) : \A q \in Range(Levels) \cup {"id_pool"} : Passes(p, q, x)
  BY DEF Passes
<1>4. /\ Passes("id_pool", "try_cache", x) /\ Passes("try_cache", "cache", x)
      /\ Passes("cache", "ip_table", x) /\ Passes("load_table", "load_table", x)
      /\ Passes("load_table", "try_resolver", x) /\ Passes("try_resolver", "resolver", x)
      /\ Passes("resolver", "use_cache", x)
  BY DEF Passes
<1>5. /\ Passes("try_session", "session", x)
      /\ Passes("session", "try_server", x) /\ Passes("try_server", "server", x)
      /\ Passes("server", "timeout", x) /\ Passes("check", "upstreams", x)
      /\ Passes("try_socket", "socket", x) /\ Passes("socket", "serving", x)
  BY DEF Passes
<1> HIDE DEF Over, Passes
<1> QED BY <1>1, <1>2, <1>3, <1>4, <1>5

\* And over the step that reads a setting.
LEMMA ReadingsPass ==
  /\ \A q \in Range(Levels) \cup {"id_pool"} : Passes("log_level", q, LogLevel)
  /\ Passes("ip_table", "load_table", IpTablePath)
  /\ Passes("use_cache", "try_session", UseCache)
  /\ Passes("timeout", "retries", Timeout) /\ Passes("retries", "check", Retries)
  /\ Passes("upstreams", "try_socket", Upstreams)
BY DoneIs, LevelNames DEF AfterUpstreams, AfterRetries, AfterTimeout, AfterUseCache,
                          AfterIpTable, AfterLogLevel, Passes

\* LoadFile and TakeArgs.
LEMMA LoadSettings ==
  ASSUME StartInv, SettingsInv, LoadFile \/ TakeArgs
  PROVE  SettingsInv'
<1>1. CASE pc = "load" /\ LoadLine /\ pc' = pc /\ UNCHANGED <<inputs, settings>>
  <2>1. LoadInv'
    BY <1>1, LoadLineAgrees DEF SettingsInv, inputs
  <2> QED BY <1>1, <2>1 DEF SettingsInv
<1>2. CASE pc = "load" /\ lines = <<>> /\ pc' = "args" /\ UNCHANGED <<configVars, inputs, settings>>
  <2>1. \E n \in Ends(file) : Loaded(store, file, n)
    BY <1>2, LoadEnds DEF SettingsInv
  <2>2. UNCHANGED <<store, file, settings>>
    BY <1>2 DEF configVars, inputs
  <2>3. \E n \in Ends(file') : Loaded(store', file', n)
    BY <2>1, <2>2
  <2> QED BY <1>2, <2>2, <2>3 DEF SettingsInv
<1>3. CASE pc = "load" /\ pc' = "undefined" /\ UNCHANGED <<configVars, inputs, settings>>
  BY <1>3 DEF SettingsInv
<1>4. CASE TakeArgs
  <2>1. /\ pc = "args" /\ pc' = "log" /\ UNCHANGED <<file, args, settings>>
        /\ store' = param_inject_config(store, args) /\ args \in Seq(Tokens)
    BY <1>4 DEF TakeArgs, inputs, StartInv, DataInv
  <2>2. PICK n \in Ends(file) : Loaded(store, file, n)
    BY <2>1 DEF SettingsInv
  <2>3. ASSUME NEW k \in Checked PROVE Agrees(store', settings'[k], pc', file', args', n, k)
    <3>1. FromFile(store, file, n, k)
      BY <2>2 DEF Loaded
    <3>2. Kept(param_inject_config(store, args), file, args, n, k)
      BY <2>1, <3>1, ArgsKept
    <3>3. settings[k] = Default
      BY <2>1 DEF SettingsInv
    <3>4. pc' \notin Done(k)
      BY <2>1, StepsPass
    <3> QED BY <2>1, <3>2, <3>3, <3>4 DEF Agrees
  <2>4. \E m \in Ends(file') : \A k \in Checked :
           Agrees(store', settings'[k], pc', file', args', m, k)
    BY <2>1, <2>3
  <2> QED BY <2>1, <2>4 DEF SettingsInv
<1> QED BY <1>1, <1>2, <1>3, <1>4 DEF LoadFile

\* The same, for a step that leaves all inputs alone.
LEMMA StillAgrees ==
  ASSUME SettingsInv, pc \notin {"load", "args", "undefined"}, pc' \notin {"load", "args"},
         UNCHANGED <<store, settings, inputs>>, \A x : Passes(pc, pc', x)
  PROVE  SettingsInv'
<1>1. Channel(1) \notin Checked
  BY DoneIs
<1>2. UNCHANGED <<file, args>>
  BY DEF inputs
<1> QED BY <1>1, <1>2, SameSettings

\* The operations that read nothing.
LEMMA NoReading ==
  /\ \A q : Try(q) => pc' = q /\ UNCHANGED <<store, settings, inputs>>
  /\ \A q, sec : Register(sec, q) => pc' = q /\ UNCHANGED <<store, settings, inputs>>
  /\ \A q, w, r : Attempt(q, w, r) => pc' \in {q, r} /\ UNCHANGED <<store, settings, inputs>>
  /\ \A s, q : Report(s, q) => pc' = q /\ UNCHANGED <<store, settings, inputs>>
<1>1. \A q : Try(q) => pc' = q /\ UNCHANGED <<store, settings, inputs>>
  BY DEF Try, configVars
<1>2. \A q, sec : Register(sec, q) => pc' = q /\ UNCHANGED <<store, settings, inputs>>
  BY DEF Register
<1>3. \A q, w, r : Attempt(q, w, r) => pc' \in {q, r} /\ UNCHANGED <<store, settings, inputs>>
  BY DEF Attempt, configVars
<1>4. \A s, q : Report(s, q) => pc' = q /\ UNCHANGED <<store, settings, inputs>>
  BY DEF Report, configVars
<1> QED BY <1>1, <1>2, <1>3, <1>4

\* None of them goes back to the file and the command line.
LEMMA NoWayBack ==
  /\ \A q \in Over \cup Range(Levels) : q \notin {"load", "args"}
  /\ "exit" \in Over /\ "undefined" \in Over /\ "report_cache" \in Over
  /\ "report_session" \in Over /\ "report_upstreams" \in Over /\ "report_socket" \in Over
BY ReportSteps, LevelNames DEF Over

\* logger_init.
LEMMA LoggerSettings ==
  ASSUME StartInv, SettingsInv, logger_init
  PROVE  SettingsInv'
<1>1. CASE pc = "log" /\ Register("log", "log_level")
  <2>1. pc' = "log_level" /\ UNCHANGED <<store, settings, inputs>>
    BY <1>1, NoReading
  <2> QED BY <1>1, <2>1, StepsPass, StillAgrees
<1>2. CASE pc = "log_level" /\
           Get(LogLevel,
               LAMBDA got : CASE got.from = "parsed"  -> {got.value[1]}
                              [] got.from = "raw"     -> {"id_pool", "undefined"}
                              [] got.from = "default" -> {"INFO"}, "exit")
  <2>1. PICK o \in config_get(LogLevel, settings[LogLevel], Parses(LogLevel)) :
          /\ store' = o.store
          /\ settings' = [settings EXCEPT ![LogLevel] = o.got]
          /\ pc' \in CASE o.ret = "undefined" -> {"undefined"}
                       [] o.ret = "failed"    -> {"exit"}
                       [] OTHER -> CASE o.got.from = "parsed"  -> {o.got.value[1]}
                                     [] o.got.from = "raw"     -> {"id_pool", "undefined"}
                                     [] o.got.from = "default" -> {"INFO"}
    BY <1>2 DEF Get
  <2>2. UNCHANGED inputs
    BY <1>2 DEF Get
  <2>3. ReadOK(LogLevel, o.got) /\ o.ret \in {"missing", "ok", "failed", "undefined"}
    BY KeysDiffer, GetOK DEF StartInv, DataInv
  <2>4. /\ o.got.from \in {"default", "raw", "parsed"}
        /\ o.got.from = "parsed" => o.got.value[1] \in Range(Levels)
    BY <2>3 DEF ReadOK
  <2>5. "INFO" \in Range(Levels)
    BY LevelNames
  <2>6. \/ pc' \in {"undefined", "exit"}
        \/ pc' \in Range(Levels) \cup {"id_pool"} /\ o.ret \in {"missing", "ok"}
    BY <2>1, <2>3, <2>4, <2>5
  <2>7. Passes(pc, pc', LogLevel) /\ pc' \notin {"load", "args"}
    BY <1>2, <2>6, StepsPass, ReadingsPass, NoWayBack
  <2>8. LogLevel \in Checked /\ pc' \in Done(LogLevel) => o.ret \in {"missing", "ok"}
    BY <2>6, StepsPass, NoWayBack
  <2> QED BY <1>2, <2>1, <2>2, <2>7, <2>8, KeysDiffer, ReadSettings
<1>3. ASSUME NEW i \in DOMAIN Levels, pc = Levels[i],
             Get(Channel(i),
                 LAMBDA got : IF got.from = "raw" THEN {"undefined"}
                              ELSE IF i = Len(Levels) THEN {"id_pool"}
                              ELSE {Levels[i + 1]}, "exit")
      PROVE  SettingsInv'
  <2>1. PICK o \in config_get(Channel(i), settings[Channel(i)], Parses(Channel(i))) :
          /\ store' = o.store
          /\ settings' = [settings EXCEPT ![Channel(i)] = o.got]
          /\ pc' \in CASE o.ret = "undefined" -> {"undefined"}
                       [] o.ret = "failed"    -> {"exit"}
                       [] OTHER -> IF o.got.from = "raw" THEN {"undefined"}
                                   ELSE IF i = Len(Levels) THEN {"id_pool"}
                                   ELSE {Levels[i + 1]}
    BY <1>3 DEF Get
  <2>2. UNCHANGED inputs
    BY <1>3 DEF Get
  <2>3. i \in 1 .. 5 /\ (i # Len(Levels) => i + 1 \in DOMAIN Levels)
    BY KeysDiffer
  <2>4. i # Len(Levels) => Levels[i + 1] \in Range(Levels)
    BY <2>3 DEF Range
  <2>5. pc' \in {"undefined", "exit"} \/ pc' \in Range(Levels) \cup {"id_pool"}
    BY <2>1, <2>4
  <2>6. pc \in Range(Levels)
    BY <1>3 DEF Range
  <2>7. /\ Passes(pc, pc', Channel(i)) /\ pc \notin {"load", "args", "undefined"}
        /\ pc' \notin {"load", "args"}
    BY <2>5, <2>6, StepsPass, NoWayBack, LevelNames
  <2>8. Channel(i) \in Keys /\ Channel(i) \notin Checked
    BY <2>3, KeysDiffer, DoneIs
  <2> QED BY <2>1, <2>2, <2>7, <2>8, ReadSettings
<1> QED BY <1>1, <1>2, <1>3 DEF logger_init

\* A setting that is read in the step p, after which q comes.
LEMMA OneSetting ==
  ASSUME StartInv, SettingsInv, NEW x \in Checked, x # Upstreams, NEW q, NEW failed,
         Passes(pc, q, x), pc \notin {"load", "args", "undefined"}, q \notin {"load", "args"},
         NEW o \in config_get(x, settings[x], Parses(x)),
         store' = o.store, settings' = [settings EXCEPT ![x] = o.got], UNCHANGED inputs,
         pc' \in CASE o.ret = "undefined" -> {"undefined"}
                   [] o.ret = "failed"    -> {failed}
                   [] OTHER -> {q}
  PROVE  SettingsInv'
<1>1. x \in Keys
  BY DEF Checked
<1>2. o.ret \in {"missing", "ok", "undefined"}
  BY <1>1, GetOK DEF StartInv, DataInv
<1>3. pc' = "undefined" \/ (pc' = q /\ o.ret \in {"missing", "ok"})
  BY <1>2
<1>4. Passes(pc, pc', x) /\ pc' \notin {"load", "args"}
  BY <1>3, StepsPass, NoWayBack
<1>5. pc' \in Done(x) => o.ret \in {"missing", "ok"}
  BY <1>3, StepsPass, NoWayBack
<1> QED BY <1>1, <1>4, <1>5, ReadSettings

\* id_pool_init and dns_cache_init.
LEMMA CacheSettings ==
  ASSUME StartInv, SettingsInv, id_pool_init \/ dns_cache_init
  PROVE  SettingsInv'
<1>1. CASE id_pool_init
  <2>1. pc = "id_pool" /\ pc' \in {"try_cache", "exit"} /\ UNCHANGED <<store, settings, inputs>>
    BY <1>1 DEF id_pool_init, configVars
  <2> QED BY <2>1, StepsPass, NoWayBack, StillAgrees
<1>2. CASE pc = "try_cache" /\ Try("cache")
  <2>1. pc' = "cache" /\ UNCHANGED <<store, settings, inputs>>
    BY <1>2, NoReading
  <2> QED BY <1>2, <2>1, StepsPass, StillAgrees
<1>3. CASE pc = "cache" /\ Attempt("ip_table", <<"cache alloc failed">>, "report_cache")
  <2>1. pc' \in {"ip_table", "report_cache"} /\ UNCHANGED <<store, settings, inputs>>
    BY <1>3, NoReading
  <2> QED BY <1>3, <2>1, StepsPass, NoWayBack, StillAgrees
<1>4. CASE pc = "ip_table" /\ Get(IpTablePath, LAMBDA got : {"load_table"}, "exit")
  <2>1. PICK o \in config_get(IpTablePath, settings[IpTablePath], Parses(IpTablePath)) :
          /\ store' = o.store
          /\ settings' = [settings EXCEPT ![IpTablePath] = o.got]
          /\ pc' \in CASE o.ret = "undefined" -> {"undefined"}
                       [] o.ret = "failed"    -> {"exit"}
                       [] OTHER -> {"load_table"}
    BY <1>4 DEF Get
  <2>2. UNCHANGED inputs
    BY <1>4 DEF Get
  <2> QED BY <1>4, <2>1, <2>2, OneSetting, ReadingsPass, DoneIs, KeysDiffer
<1>5. CASE pc = "load_table" /\ load_ip_table
  <2>1. pc' \in {"load_table", "try_resolver"} /\ UNCHANGED <<store, settings, file, args>>
    BY <1>5 DEF load_ip_table, configVars
  <2>2. Channel(1) \notin Checked
    BY DoneIs
  <2> QED BY <1>5, <2>1, <2>2, StepsPass, SameSettings
<1> QED BY <1>1, <1>2, <1>3, <1>4, <1>5 DEF dns_cache_init

\* dns_resolver_init and session_factory_init.
LEMMA ResolverSettings ==
  ASSUME StartInv, SettingsInv, dns_resolver_init \/ session_factory_init
  PROVE  SettingsInv'
<1>1. CASE pc = "try_resolver" /\ Try("resolver")
  <2>1. pc' = "resolver" /\ UNCHANGED <<store, settings, inputs>>
    BY <1>1, NoReading
  <2> QED BY <1>1, <2>1, StepsPass, StillAgrees
<1>2. CASE pc = "resolver" /\ Register("dnsresolver", "use_cache")
  <2>1. pc' = "use_cache" /\ UNCHANGED <<store, settings, inputs>>
    BY <1>2, NoReading
  <2> QED BY <1>2, <2>1, StepsPass, StillAgrees
<1>3. CASE pc = "use_cache" /\ Get(UseCache, LAMBDA got : {"try_session"}, "report_resolver")
  <2>1. PICK o \in config_get(UseCache, settings[UseCache], Parses(UseCache)) :
          /\ store' = o.store
          /\ settings' = [settings EXCEPT ![UseCache] = o.got]
          /\ pc' \in CASE o.ret = "undefined" -> {"undefined"}
                       [] o.ret = "failed"    -> {"report_resolver"}
                       [] OTHER -> {"try_session"}
    BY <1>3 DEF Get
  <2>2. UNCHANGED inputs
    BY <1>3 DEF Get
  <2> QED BY <1>3, <2>1, <2>2, OneSetting, ReadingsPass, DoneIs, KeysDiffer
<1>4. CASE pc = "try_session" /\ Try("session")
  <2>1. pc' = "session" /\ UNCHANGED <<store, settings, inputs>>
    BY <1>4, NoReading
  <2> QED BY <1>4, <2>1, StepsPass, StillAgrees
<1>5. CASE pc = "session" /\
           Attempt("try_server", <<"session_queue alloc failed">>, "report_session")
  <2>1. pc' \in {"try_server", "report_session"} /\ UNCHANGED <<store, settings, inputs>>
    BY <1>5, NoReading
  <2> QED BY <1>5, <2>1, StepsPass, NoWayBack, StillAgrees
<1> QED BY <1>1, <1>2, <1>3, <1>4, <1>5 DEF dns_resolver_init, session_factory_init

\* server_start.
LEMMA ServerSettings ==
  ASSUME StartInv, SettingsInv, server_start
  PROVE  SettingsInv'
<1>1. CASE pc = "try_server" /\ Try("server")
  <2>1. pc' = "server" /\ UNCHANGED <<store, settings, inputs>>
    BY <1>1, NoReading
  <2> QED BY <1>1, <2>1, StepsPass, StillAgrees
<1>2. CASE pc = "server" /\ Register("server", "timeout")
  <2>1. pc' = "timeout" /\ UNCHANGED <<store, settings, inputs>>
    BY <1>2, NoReading
  <2> QED BY <1>2, <2>1, StepsPass, StillAgrees
<1>3. CASE pc = "timeout" /\ Get(Timeout, LAMBDA got : {"retries"}, "retries")
  <2>1. PICK o \in config_get(Timeout, settings[Timeout], Parses(Timeout)) :
          /\ store' = o.store
          /\ settings' = [settings EXCEPT ![Timeout] = o.got]
          /\ pc' \in CASE o.ret = "undefined" -> {"undefined"}
                       [] o.ret = "failed"    -> {"retries"}
                       [] OTHER -> {"retries"}
    BY <1>3 DEF Get
  <2>2. UNCHANGED inputs
    BY <1>3 DEF Get
  <2> QED BY <1>3, <2>1, <2>2, OneSetting, ReadingsPass, DoneIs, KeysDiffer
<1>4. CASE pc = "retries" /\ Get(Retries, LAMBDA got : {"check"}, "check")
  <2>1. PICK o \in config_get(Retries, settings[Retries], Parses(Retries)) :
          /\ store' = o.store
          /\ settings' = [settings EXCEPT ![Retries] = o.got]
          /\ pc' \in CASE o.ret = "undefined" -> {"undefined"}
                       [] o.ret = "failed"    -> {"check"}
                       [] OTHER -> {"check"}
    BY <1>4 DEF Get
  <2>2. UNCHANGED inputs
    BY <1>4 DEF Get
  <2> QED BY <1>4, <2>1, <2>2, OneSetting, ReadingsPass, DoneIs, KeysDiffer
<1>5. CASE /\ pc = "check"
           /\ IF ex_catch(err) THEN Report("server", "upstreams")
              ELSE pc' = "upstreams" /\ UNCHANGED <<configVars, inputs, settings, err, report>>
  <2>1. pc' = "upstreams" /\ UNCHANGED <<store, settings, inputs>>
    BY <1>5, NoReading DEF configVars
  <2> QED BY <1>5, <2>1, StepsPass, StillAgrees
<1>6. CASE /\ pc = "upstreams"
           /\ Get(Upstreams,
                  LAMBDA got : CASE got.from = "parsed"  -> {"try_socket"}
                                 [] got.from = "default" -> {"report_upstreams"}
                                 [] got.from = "raw"     -> {"try_socket", "report_upstreams",
                                                             "undefined"},
                  "report_upstreams")
  <2>1. PICK o \in config_get(Upstreams, settings[Upstreams], Parses(Upstreams)) :
          /\ store' = o.store
          /\ settings' = [settings EXCEPT ![Upstreams] = o.got]
          /\ pc' \in CASE o.ret = "undefined" -> {"undefined"}
                       [] o.ret = "failed"    -> {"report_upstreams"}
                       [] OTHER -> CASE o.got.from = "parsed"  -> {"try_socket"}
                                     [] o.got.from = "default" -> {"report_upstreams"}
                                     [] o.got.from = "raw"     ->
                                           {"try_socket", "report_upstreams", "undefined"}
    BY <1>6 DEF Get
  <2>2. UNCHANGED inputs
    BY <1>6 DEF Get
  <2>3. ReadOK(Upstreams, o.got) /\ o.ret \in {"missing", "ok", "failed", "undefined"}
    BY KeysDiffer, GetOK DEF StartInv, DataInv
  <2>4. o.got.from \in {"default", "raw", "parsed"}
    BY <2>3 DEF ReadOK
  <2>5. \/ pc' \in {"undefined", "report_upstreams"}
        \/ pc' = "try_socket" /\ o.ret \in {"missing", "ok"}
    BY <2>1, <2>3, <2>4
  <2>6. Passes(pc, pc', Upstreams) /\ pc' \notin {"load", "args"}
    BY <1>6, <2>5, StepsPass, ReadingsPass, NoWayBack
  <2>7. Upstreams \in Checked /\ pc' \in Done(Upstreams) => o.ret \in {"missing", "ok"}
    BY <2>5, StepsPass, NoWayBack
  <2> QED BY <1>6, <2>1, <2>2, <2>6, <2>7, KeysDiffer, ReadSettings
<1>7. CASE pc = "try_socket" /\ Try("socket")
  <2>1. pc' = "socket" /\ UNCHANGED <<store, settings, inputs>>
    BY <1>7, NoReading
  <2> QED BY <1>7, <2>1, StepsPass, StillAgrees
<1>8. CASE pc = "socket" /\
           Attempt("serving", <<"syscall bind", "init_socket">>, "report_socket")
  <2>1. pc' \in {"serving", "report_socket"} /\ UNCHANGED <<store, settings, inputs>>
    BY <1>8, NoReading
  <2> QED BY <1>8, <2>1, StepsPass, NoWayBack, StillAgrees
<1> QED BY <1>1, <1>2, <1>3, <1>4, <1>5, <1>6, <1>7, <1>8 DEF server_start

\* A report ends the program, since usecache is never refused.
LEMMA ReportSettings ==
  ASSUME StartInv, SettingsInv, ReportFailure
  PROVE  SettingsInv'
<1>1. pc \in DOMAIN Reports /\ pc # "report_resolver" /\ pc \notin {"load", "args", "undefined"}
  BY ReportSteps DEF ReportFailure, StartInv, StepInv
<1>2. Report(Reports[pc], "exit")
  BY <1>1 DEF ReportFailure
<1>3. pc' = "exit" /\ UNCHANGED <<store, settings, inputs>>
  BY <1>2, NoReading
<1> QED BY <1>1, <1>3, StepsPass, NoWayBack, StillAgrees

\* At the start nothing has been read.
LEMMA SettingsInitially ==
  ASSUME Init
  PROVE  SettingsInv
<1>1. PICK in \in Inputs : file = in.file
  BY DEF Init
<1>2. in \in [file : Seq(Line), args : Seq(Tokens), table : Nat]
  BY StartupAssumption
<1>3. file \in Seq(Line)
  BY <1>1, <1>2
<1>4. lines = file /\ section = "" /\ pc = "load"
  BY DEF Init, ConfigInit
<1>5. \A k : k \notin DOMAIN store
  <2>1. store = <<>>
    BY DEF Init, ConfigInit
  <2>2. DOMAIN <<>> = {}
    OBVIOUS
  <2> QED BY <2>1, <2>2
<1>6. \A k : LinesFor(file, 0, k) = {}
  BY DEF LinesFor
<1>7. Len(file) \in Nat
  BY <1>3, LenProperties
<1>8. Loaded(store, file, 0)
  <2>1. 0 \in 0 .. Len(file)
    BY <1>7
  <2>2. \A i \in 1 .. 0 : file[i].kind # "novalue"
    OBVIOUS
  <2>3. \A k \in Checked : FromFile(store, file, 0, k)
    BY <1>5, <1>6 DEF FromFile
  <2> QED BY <2>1, <2>2, <2>3 DEF Loaded
<1>9. TitleOf(file, 0) = ""
  <2>1. {j \in 1 .. 0 : file[j].kind = "section"} = {}
    OBVIOUS
  <2> QED BY <2>1 DEF TitleOf
<1>10. Left(file, file, 0)
  <2>1. \A m \in Nat : m = m - 0 /\ \A i \in 1 .. m : 0 + i = i
    OBVIOUS
  <2>2. Len(file) = Len(file) - 0 /\ \A i \in 1 .. Len(file) : 0 + i = i
    BY <1>7, <2>1, Zenon
  <2> QED BY <2>2, Zenon DEF Left
<1>11. LoadInv
  BY <1>3, <1>4, <1>8, <1>9, <1>10 DEF LoadInv
<1>12. \A k \in Checked : settings[k] = Default
  BY DEF Checked, Init
<1> QED BY <1>4, <1>11, <1>12 DEF SettingsInv

\* s is what comes of the string v: itself, or what the parser makes of it.
From(s, k, v) ==
    \/ s = [from |-> "raw", value |-> v]
    \/ \E p \in Parser(k, v) : p.ret = "ok" /\ s = [from |-> "parsed", value |-> p.value]

\* What was read of what was given is one of the two.
LEMMA GotIsFrom ==
  ASSUME NEW g, NEW k, NEW v, Got(g, k, ConfigValue(FALSE, v))
  PROVE  From(g, k, v)
<1>1. PICK w : Cooks(k, ConfigValue(FALSE, v), w) /\ g = Read(w)
  BY DEF Got
<1>2. \A c \in BOOLEAN : \A x : ConfigValue(c, x).is_cook = c /\ ConfigValue(c, x).value = x
  BY DEF ConfigValue
<1>3. /\ Read(ConfigValue(FALSE, v)) = [from |-> "raw", value |-> v]
      /\ \A x : Read(ConfigValue(TRUE, x)) = [from |-> "parsed", value |-> x]
  BY <1>2 DEF Read
<1>4. CASE w = ConfigValue(FALSE, v)
  BY <1>1, <1>3, <1>4 DEF From
<1>5. ASSUME NEW p \in Parser(k, v), p.ret = "ok", w = ConfigValue(TRUE, p.value)
      PROVE  From(g, k, v)
  BY <1>1, <1>3, <1>5 DEF From
<1>6. ConfigValue(FALSE, v).value = v
  BY <1>2
<1>7. \/ w = ConfigValue(FALSE, v)
      \/ \E p \in Parser(k, v) : p.ret = "ok" /\ w = ConfigValue(TRUE, p.value)
  BY <1>1, <1>6 DEF Cooks
<1> QED BY <1>4, <1>5, <1>7

\* And a level set by an option is read as it was set.
LEMMA GotLevel ==
  ASSUME NEW g, NEW k, NEW v, Got(g, k, ConfigValue(TRUE, v))
  PROVE  g = [from |-> "parsed", value |-> v]
<1>1. PICK w : Cooks(k, ConfigValue(TRUE, v), w) /\ g = Read(w)
  BY DEF Got
<1>2. ConfigValue(TRUE, v).is_cook = TRUE /\ ConfigValue(TRUE, v).value = v
  BY DEF ConfigValue
<1>3. w = ConfigValue(TRUE, v)
  BY <1>1, <1>2 DEF Cooks
<1> QED BY <1>1, <1>2, <1>3 DEF Read

\* The string itself is what is meant where there is no parser, and only there.
LEMMA FromMeans ==
  ASSUME NEW g, NEW k, NEW v, From(g, k, v), k = IpTablePath \/ g.from # "raw"
  PROVE  Means(g, k, v)
<1>1. Parser(IpTablePath, v) = {}
  BY DEF Parser, IpTablePath
<1>2. CASE g = [from |-> "raw", value |-> v]
  BY <1>2 DEF Means
<1>3. ASSUME NEW p \in Parser(k, v), p.ret = "ok", g = [from |-> "parsed", value |-> p.value]
      PROVE  Means(g, k, v)
  <2>1. k # IpTablePath
    BY <1>1, <1>3
  <2> QED BY <1>3, <2>1 DEF Means
<1> QED BY <1>2, <1>3 DEF From

\* A readable file is read to its end, but for a blank line there.
LEMMA ReadToTheEnd ==
  ASSUME NEW f \in Seq(Line), Readable(f), NEW n \in Ends(f), NEW k
  PROVE  /\ LinesFor(f, n, k) = LinesFor(f, Len(f), k)
         /\ FileValue(f, n, k) = FileValue(f, Len(f), k)
<1>1. Len(f) \in Nat /\ DOMAIN f = 1 .. Len(f) /\ n \in 0 .. Len(f)
  BY LenProperties DEF Ends
<1>2. ASSUME NEW i \in 1 .. Len(f), i \notin 1 .. n
      PROVE  f[i].kind \notin {"pair", "spaced"}
  <2>1. n < Len(f) /\ n + 1 \in DOMAIN f
    BY <1>1, <1>2
  <2>2. f[n + 1].kind \in {"novalue", "blank"}
    BY <2>1 DEF Ends
  <2>3. n + 1 = Len(f) /\ f[n + 1].kind = "blank"
    BY <2>1, <2>2 DEF Readable
  <2>4. i = n + 1
    BY <1>1, <1>2, <2>3
  <2> QED BY <2>3, <2>4
<1>3. LinesFor(f, n, k) = LinesFor(f, Len(f), k)
  <2>1. \A i \in 1 .. n : i \in 1 .. Len(f)
    BY <1>1
  <2> QED BY <1>2, <2>1 DEF LinesFor
<1> QED BY <1>3 DEF FileValue

\* The file is a sequence of lines, and stays the same.
LEMMA FileStays == Spec => [](file \in Seq(Line))
<1>1. Init => file \in Seq(Line)
  <2> SUFFICES ASSUME Init PROVE file \in Seq(Line)
    OBVIOUS
  <2>1. PICK in \in Inputs : file = in.file
    BY DEF Init
  <2>2. in \in [file : Seq(Line), args : Seq(Tokens), table : Nat]
    BY StartupAssumption
  <2> QED BY <2>1, <2>2
<1>2. file \in Seq(Line) /\ [Next]_vars => (file \in Seq(Line))'
  <2> SUFFICES ASSUME [Next]_vars PROVE file' = file
    OBVIOUS
  <2>1. CASE UNCHANGED vars
    BY <2>1 DEF vars, inputs
  <2>2. CASE LoadFile \/ TakeArgs \/ id_pool_init
    BY <2>2 DEF LoadFile, TakeArgs, id_pool_init, inputs
  <2>3. CASE logger_init
    BY <2>3 DEF logger_init, Register, Get, inputs
  <2>4. CASE dns_cache_init
    BY <2>4 DEF dns_cache_init, Try, Attempt, Get, load_ip_table, inputs
  <2>5. CASE dns_resolver_init \/ session_factory_init
    BY <2>5 DEF dns_resolver_init, session_factory_init, Try, Register, Get, Attempt, inputs
  <2>6. CASE server_start
    BY <2>6 DEF server_start, Try, Register, Get, Attempt, Report, inputs
  <2>7. CASE ReportFailure
    BY <2>7 DEF ReportFailure, Report, inputs
  <2> QED BY <2>1, <2>2, <2>3, <2>4, <2>5, <2>6, <2>7 DEF Next
<1> QED BY <1>1, <1>2, PTL DEF Spec

\* config_load_file, param_inject_config and config_get: for every readable
\* file and every command line, a server that serves works with the values
\* of the command line, else with the last ones of the whole file, else with
\* its defaults, wherever the parser of the setting was found.
THEOREM SettingsAreAsConfigured == Spec => []SettingsAsConfigured
<1>1. Init => SettingsInv
  BY SettingsInitially
<1>2. StartInv /\ SettingsInv /\ [Next]_vars => SettingsInv'
  <2> SUFFICES ASSUME StartInv, SettingsInv, [Next]_vars PROVE SettingsInv'
    OBVIOUS
  <2>1. CASE Next
    BY <2>1, LoadSettings, LoggerSettings, CacheSettings, ResolverSettings, ServerSettings,
       ReportSettings DEF Next
  <2>2. CASE UNCHANGED vars
    BY <2>2 DEF vars, configVars, inputs, SettingsInv, LoadInv
  <2> QED BY <2>1, <2>2
<1>3. SettingsInv /\ file \in Seq(Line) => SettingsAsConfigured
  <2> SUFFICES ASSUME SettingsInv, file \in Seq(Line), pc = "serving", Readable(file),
                      NEW k \in {LogLevel, IpTablePath, Timeout, Retries, Upstreams},
                      k = IpTablePath \/ settings[k].from # "raw"
               PROVE  CASE k = LogLevel /\ Debugs(args) # {} ->
                              settings[k] = [from |-> "parsed", value |-> ArgLevel(args)]
                        [] k = Upstreams /\ Addresses(args) # {} ->
                              Means(settings[k], k, ArgIps(args))
                        [] OTHER ->
                              IF LinesFor(file, Len(file), k) = {} THEN settings[k] = Default
                              ELSE Means(settings[k], k, FileValue(file, Len(file), k))
    BY DEF SettingsAsConfigured
  <2>1. PICK n \in Ends(file) : \A x \in Checked :
           Agrees(store, settings[x], pc, file, args, n, x)
    BY DEF SettingsInv
  <2> DEFINE g == settings[k]
             v == Origin(file, args, n, k)
             whole == LinesFor(file, Len(file), k)
  <2>2. /\ LinesFor(file, n, k) = whole
        /\ FileValue(file, n, k) = FileValue(file, Len(file), k)
    BY <2>1, ReadToTheEnd
  <2>3. "serving" \in Done(k) /\ k \in Checked
    BY DoneIs DEF AfterUpstreams, AfterRetries, AfterTimeout, AfterUseCache,
                  AfterIpTable, AfterLogLevel
  <2>4. Known(g, file, args, n, k)
    BY <2>1, <2>3 DEF Agrees
  <2>5. LogLevel # Upstreams
    BY KeysDiffer
  <2>6. CASE k = LogLevel /\ Debugs(args) # {}
    <3>1. v = ConfigValue(TRUE, ArgLevel(args)) /\ IsSet(file, args, n, k)
      BY <2>6 DEF Origin, IsSet
    <3>2. g = [from |-> "parsed", value |-> ArgLevel(args)]
      <4>1. Got(g, k, ConfigValue(TRUE, ArgLevel(args)))
        BY <2>4, <3>1 DEF Known
      <4> HIDE DEF g
      <4> QED BY <4>1, GotLevel
    <3> QED BY <2>5, <2>6, <3>2
  <2>7. CASE k = Upstreams /\ Addresses(args) # {}
    <3>1. v = ConfigValue(FALSE, ArgIps(args)) /\ IsSet(file, args, n, k)
      BY <2>5, <2>7 DEF Origin, IsSet
    <3>2. From(g, k, ArgIps(args))
      BY <2>4, <3>1, GotIsFrom DEF Known
    <3>3. Means(g, k, ArgIps(args))
      BY <3>2, FromMeans
    <3> QED BY <2>5, <2>7, <3>3
  <2>8. CASE ~(k = LogLevel /\ Debugs(args) # {}) /\ ~(k = Upstreams /\ Addresses(args) # {})
    <3>1. v = ConfigValue(FALSE, FileValue(file, n, k))
          /\ (IsSet(file, args, n, k) <=> LinesFor(file, n, k) # {})
      BY <2>8 DEF Origin, IsSet
    <3>2. whole = {} => g = Default
      BY <2>2, <2>4, <3>1 DEF Known
    <3>3. ASSUME whole # {} PROVE Means(g, k, FileValue(file, Len(file), k))
      <4>1. From(g, k, FileValue(file, n, k))
        BY <2>2, <2>4, <3>1, <3>3, GotIsFrom DEF Known
      <4> QED BY <2>2, <4>1, FromMeans
    <3> QED BY <2>8, <3>2, <3>3
  <2> QED BY <2>6, <2>7, <2>8
<1> QED BY <1>1, <1>2, <1>3, StartInvariant, FileStays, PTL DEF Spec
=============================================================================
