# TLA+ models of DnsRelay

DnsRelay is a DNS relay in C: it answers queries from an ip table and a cache,
blocks names whose address is 0.0.0.0, and relays everything else to upstream
servers, one UDP socket and one `select()` loop for all clients. This directory
holds its models, the TLC runs that check them and the TLAPS proofs.
Paths below are relative to the repository.

## 1. Inventory

| Component | State | Operations | Talks to | What is hard |
|---|---|---|---|---|
| id pool, `src/dns/id_factory.c` | stack `ids`/`top`, marks `st` | init, alloc, free | event loop | exhaustion, double free, LIFO reuse of ids |
| session factory, `src/server/session_factory.c` | `agent_id_sessions` (by relay id), `sessions_queue` (by time) | open, wait, get, peek, close | hash map, lazy heap | both tables and the object must go together |
| event loop, `src/server/server.c` | round-robin cursor, limits | select, receive loop, `handle_dns_packet`, `batch_timeout` | all of the above, resolver, socket | late and duplicate answers, timeouts, failing sends |
| resolver, `src/dns/dns_resolver.c` | `use_cache` | `pack_try_response_local`, `pack_make_response_relay` | cache | several lookups per query, time passes between them |
| cache, `src/dns/dns_cache.c` | table, LRU list, size, mutex | init, load table, get, put, prune | hash map; main thread and daemon | pointers shared by two threads, eviction, expiry |
| daemon, `src/server/daemons.c` | none | prune every 4 s | cache | walks the list it removes from |
| lazy heap, `src/infra/stl.c` | array, survivor table | add, remove (mark), peek, pop | hash map | order between marked elements, reused addresses |
| hash map, `src/infra/stl.c` | buckets, size | put, get, remove, resize | everything | signed hashes, regrouping |
| linked list, vector, `src/infra/stl.c` | nodes and links; array | add, insert, remove, clear | hash map, start-up | links in two directions |
| wire format, `src/dns/dns_resolver.c` | `send_buf` | (de)serialise packets, name compression | event loop | pointers into a packet that is laid out anew, size limits |
| configuration centre, `src/infra/config_center.c` | sections, parsers, cleaners | load, inject, set, get | start-up, every component with settings | lazy parsing, key lifetime, what a line leaves in the buffer |
| error context, `src/infra/exception.c` | thread-local stack | try, throw, catch, end | start-up, log | messages of a step that did not fail, bounds |
| start-up, `main.c`, logger | - | load file, take options, initialise each component | all of the above | order of file, options and parsers; each step may fail |
| byte order, clock | - | - | - | straight-line |

The server is one thread. A second thread, the daemon, exists when `use_cache`
is set and shares only the cache with it. Nothing is persisted.

What makes the components correct: no id has two holders and none is lost; a
query is never answered twice nor forgotten; no query loses its answer to another; retries are bounded; the cache is an LRU cache whatever the two
threads do; a blocked name, and names under it, are not relayed; an answer means
to the client what it meant to the relay; the server runs with the settings it
was given or says why not.

## 2. Modules

| Module | Models | Checked by |
|---|---|---|
| `IdPool`, `IdPoolUse`, `IdAllocator` | the id pool; a caller of it; an allocator of sets of ids (proofs in `RelayProofs`) | `containers` |
| `Relay`, `RelayProps`, `MCRelay`, `RelayProofs` | event loop + session factory + id pool + network; properties; instances; proofs about the pool, the tables, and what clients and upstreams see | `relay`, `relay_live`, `relay_giveup`, `relay_late`, `relay_sleep` |
| `LazyHeap`, `MinQueue`, `LazyHeapProofs` | the timeout queue; a priority queue by key; proofs of its invariants and of the refinement | `containers` |
| `LinkedList`, `HashMap`, `Dictionary`, `HashMapProofs` | nodes and links; the hash map on them; a partial map; proofs | `containers` |
| `MCContainers` | the instances of the pool, the heap and the map; its first state picks the one that is driven | `containers` |
| `DnsCache`, `DnsCacheProps`, `MCDnsCache`, `LruCache`, `DnsCacheProofs` | the cache and its two threads; its properties and the mapping to an LRU cache with expiry; proofs of the invariants and of the refinement | `dns_cache` |
| `Resolver`, `MCResolver`, `ResolverProofs` | the decisions of the resolver over an `LruCache`; proofs | `resolver`, `resolver_zero` |
| `Wire`, `MCWire`, `WireProofs` | an upstream's answer read and written again; proofs | `wire` |
| `ConfigCenter`, `ErrorContext`, `Startup`, `MCStartup`, `StartupProofs` | configuration centre; error context; `main`, which uses both; proofs | `startup`, `startup_parser` |
| `Loops` | a loop of the code as a function of the turn | the modules that extend it |
| `NumberLemmas` | facts on sets of numbers that stand in for induction | (proofs only) |

`Relay` EXTENDS `IdPool`: the calls of `id_alloc` and `id_free` are the pool's
own actions. `Startup` EXTENDS `ConfigCenter` and `ErrorContext`, whose
operations its steps call. `Resolver` INSTANCEs `LruCache`, which `DnsCache` is
proved to implement (`CacheImplementsLru`), so the resolver is checked and
proved about on the abstract cache. `Relay` uses the
map and the queue as sets of keys, which `HashMap` and `LazyHeap` justify:
session timestamps never go back, and for such priorities
`HeapImplementsMinQueue` says that peek returns the oldest session;
`MapImplementsDictionary` says that the map answers as a partial map does.

What the documentation says and the code does not do is stated as a property,
too, at the end of `RelayProps`, `Resolver` and `Startup`; TLC refutes it (section
3).

Operators named `<definition>_<slip>` (for example `id_free_unguarded`) stand
before the definition they are a faulty variant of; no specification uses them.
Each property is violated when the definition is replaced by such a variant.

### Relay

An action is a whole handler: one datagram (`HandleLocal`, `HandleExhausted`,
`HandleRelay`, `HandleAnswer`, `HandleUnmatched`), one expired session
(`Resend`, `GiveUp`), or a step of `server_loop` (`PrepareSelect`,
`socket_sleep_on`, `SelectFails`, `RecvStops`, `BatchDone`). Between any two
of them a millisecond may pass (`Tick`) and datagrams may arrive. The network
loses (nobody has to act), duplicates and delays (an upstream answers what is on
`wire` at any time, any number of times) and reorders (`inbox` is a set). A
session's `elapse` is the time since its last transmission, capped one
millisecond past the timeout, because the code only looks at the sign of what
remains. `sendto` may fail at every call. What `pack_try_response_local`
decides is a free choice here and the subject of `Resolver`.

`GiveUp` closes the session under the *client's* id, as the code does: the id
is written into `relay_packet` before `session_close` reads its key there. When
the two ids differ the freed session stays in the queue (`Dangling`) and
`PeekFreed` is the use of freed memory that follows; the model ends there
(`pc = "crashed"`). The history variables `fate`, `delivered`, `attempts` and
`picks` are read by no action.

### LazyHeap, HashMap

`LazyHeap` keeps the addresses of elements, which malloc hands out again, and
the marks; `up`, `down` and `do_delete` are the loops of the code on the array,
each a function of the turn (`Loops`). Callers add a key that is not queued, as
`session_open` and `session_wait` do. `HashMap` keeps its buckets as the code
does: every bucket has a head, a tail and a size, and `mem` holds the nodes with
their two links (`LinkedList`). `hash_map_remove` unlinks a node by itself, and
`hash_map_resize` walks all buckets and puts their entries into new nodes.
Hashes are integers of either sign, INT32_MIN included: its stand-in in the run
is odd, so that only the code's own test for it leads to bucket 0. Memory does not run out,
and the content of a stored key does not change; the configuration centre's
registration functions break the latter (`startup_parser`). `ret` records the
last call and its result, for the comparison with `Dictionary`.

### DnsCache

`mem` is the heap of entries, `lru` the two links of every node, `table` the
hash map, `lock` the mutex. The main thread takes the lock (`MainLock`) and
performs the locked part of a call (`MainBody`); the daemon takes it and walks
the list step by step (`prune_step`), with its next pointer in `cursor`. Time
passes at any point. A key stands for (class, type, name), a value for the set
of ttls of its records and a tag. A put may be for any question, those of the ip
table included, since its key comes from the upstream's packet.

### Resolver

Each `dns_cache_get` is a step, since the lock is released between them:
`AcceptQuery`, then `PreBlocks` or `PrePasses` for the name and each of its
parents, then `AnswerFromCache`, `AnswerNothing`, `RelayQuery` or
`RelayExhausted`. `RelayAnswer` is `pack_make_response_relay`: the entry is made
under the question the response itself carries, any at all, which nobody compares
with the one that was relayed. Only records are stored, the rcode is not. The
class, third part of a key of the cache, is IN throughout, and a response carries
one question: two data abstractions. `use_cache` is
chosen freely in `Init`, because the configuration parser leaves its result
unset (inverted `strcasecmp`, `dns_resolver.c:20`). `OPCODE_GET` decodes the
opcode as the macro does, without its lowest bit.

### Wire

A packet is a sequence of cells (a label, the end of a name, a pointer, the fixed
part of a question or record, other rdata), each with its size in bytes; pointers
lead to cells. `Ask` and `AddRecord` build an answer whose names are compressed
in every way RFC 1035 allows; `Receive` is `pack_recv` with `pack_deserialize`,
`packet_send` the way out with `pack_serialize`. `name_serialize` is written as
what its loop comes to: the whole name is looked for at every turn, so a name
becomes one pointer or is written in full. The search compares with `strcmp`,
which does not stop at the cursor; `stale` says whether what an earlier packet
left in `send_buf` happens to complete a name there. MX rdata ends in
`"undefined"`, because `rdata_deserialize` writes over the pointer to it.
A name can be read or found only where a cell begins (`Fields`): that bytes in
the middle of a text or an address happen to look like a name is left out.

### ConfigCenter, ErrorContext, Startup

`pc` names the step the main thread is about to take: the file line by line, the
command line, `logger_init`, `id_pool_init`, `dns_cache_init` with the ip table,
`dns_resolver_init`, `session_factory_init`, `server_start`. `settings` is what
the components have read, with where it is from: the default, the string, or the
parsed value. A value is stored as a string and parsed when it is first read
(`config_get`). The parser is registered under the address of a local array that
is gone by then, so whether it is found is a free choice (`MayFind`); it is found
for its own section or not at all, since the hashes of the three section names
fall into different buckets. What the program does with a string taken for
another type, with a log file that cannot be opened (`fclose(NULL)`) or with
errno printed by `%s` is undefined: such a step may end in `"undefined"`.

The error context is a record that `ex_try`, `ex_throw` and `ex_end` turn into
another; a message is its text and the step that threw it, so that
`ReportsNameTheirCause` can tell the causes of a failure from what an earlier
step left behind.

## 3. Runs

Passing runs:

- `relay`: three queries of two clients (one datagram sent twice), two relay
  ids, two upstream servers, one retry. Ids run out, are reused while old
  answers are still under way, sends fail, sessions time out, and the server
  gives up. `IdsMatchSessions`, `EveryQueryAtOnePlace`, `RetriesAreCounted`,
  `EvenLoad`, `NoSpuriousExhaustion`, and `NoAnswerIsStolen`: when a client gets
  the answer to another query, that query has ended, so that only late and
  duplicate answers go astray (that they do is `relay_late`).
- `relay_live`: `EveryQueryEnds` for two queries: whatever reached the socket
  ends, unless from some time on the server sleeps without a timeout and nothing
  arrives, or its receive loop never ends. The code excludes neither, and TLC
  refutes the property without either of the two clauses.
- `containers`: the id pool with five ids, any order of alloc, free and double
  free (`FreeStackMatchesMarks`, `FreeIsNeverRefused`, `ImplementsAllocator`);
  the lazy heap with three keys, three timestamps and up to five array slots,
  where marked elements pile up between live ones and addresses are reused
  (`SurvivorsAreReachable`, `OrderedPaths`, `ImplementsMinQueue`); the hash map
  with four keys whose hashes meet in one bucket before and after two growths
  (`BucketsAreLists`: both chains of every bucket are the same list, its size is
  its length, and no node is in two; `SizeAndLoad`; `ImplementsDictionary`). Each
  is driven on its own; keys of the heap and data are interchangeable, hence the
  symmetry set.
- `dns_cache`: four questions (one from the ip table), room for three, an answer
  of two records that expire one after the other; `TableMatchesEntries`,
  `LinksAgree`, `SizeCountsList`, `CursorIsValid`, `ImplementsLruCache`,
  `CallsDoAsAsked`, which ties every completed call of the main thread to the
  operation of the abstract cache it asked for, and `ExpiredEntriesGo`: what has
  expired is removed or renewed though nobody asks for it.
- `resolver`: four names, an ip table of two, room for two, two relayed queries
  at a time (also two for the same question), responses NOERROR and NXDOMAIN
  that carry any question; `BlockedIsNotRelayed`, `PreCheckSuffices` (so
  `query_post_validate` never has anything left to refuse),
  `CacheAnswersAsStored` (of the records, not of the rcode) and
  `TableStaysUnlessCaching`.
- `wire`: answers of up to two records (A, TXT, NS, SOA, MX) with names of up to
  three labels. `PointersGoBack`: every pointer the relay writes leads to a
  complete name before it. `SameMeaning`: a record reads the same before and
  after, whatever the compression. `OnlyExpansionLosesAnswers`: an answer grows
  by no more than the names behind those pointers that the relay has to spell
  out (behind labels, in rdata it expands, or into rdata it copies), so that one
  which came in a datagram is dropped only if these take it beyond 512 bytes. All
  three leave out one case, a TXT record in front of a name that begins with its
  text while `send_buf` holds the rest of it, and `SameMeaning` also copied rdata
  that points behind the question: there the code does change the meaning
  (section 7).
- `startup`: the distributed configuration file with lines changed, doubled,
  spaced, emptied or blanked, seven command lines (one with several `-c` in a
  row, of which every second one is itself a path), ip tables with 0, 1 and 150
  refused lines, and every step failing or not. `SettingsAsConfigured`: with a
  file of section titles, comments and plain `key=value` lines (`Readable`) the
  server starts with exactly the values of the command line, else of the last
  line for the key in the whole file, else the default. `NeverServesItself`,
  `ReportsNameTheirCause`, `ErrorStackInside`, `StartupEnds`.

Runs in which the code does not do what the documentation says:

- `relay_giveup` (`GivesUpCleanly`): giving up on a query closes the session
  under the wrong key and the server then uses the freed session.
- `relay_late` (`AnswersAreOwn`): a late or duplicate answer reaches the client
  of another query that now has the relay id; `docs/architect.md:571` says that
  it finds no session and is dropped.
- `relay_sleep` (`SleepsUntilDeadline`): a session that times out after
  `batch_timeout` looked makes the timeout of `select()` negative, which is no
  timeout; `docs/report/实验报告.md:645` says that `select` blocks at most until the
  next session times out.
- `resolver_zero` (`BlocksOnlyAllZero`): an address such as 8.0.0.0 is blocked,
  since `memallz` never looks at the first byte; its comment and README.md:9 speak
  of all bytes and of 0.0.0.0.
- `startup_parser` (`StringsAreParsed`): a registered parser may not be found,
  and `config_get` hands out the string where a number or a list is expected.

### Bounds

Two relay ids are the smallest pool in which one id can be reused while another
is held, and three queries the smallest number that exhausts it. One retry
separates first transmission, retransmission and give-up. With `CharMax` above
`max_retry_time` the retry counter does not wrap (127 in the code, so the
properties assume `max_retry_time` <= 127). Time is bounded by `ElapseCap` and
`MaxTtl`, beyond which the code makes no difference. `CHECK_DEADLOCK FALSE` is
set where the program may stop: the server goes down (`SelectFails`,
`PeekFreed`), a resolver between queries may have nothing to do, an answer has
been sent, start-up is over.

`LabelBytes` (63), `MAX_PACKET_SIZE` (512) and `MSG_SIZE` (4096) have their real
values. With labels of 63 bytes two records (`MaxRecords`) suffice to outgrow 512
bytes by expansion; they stay far below the 4096 bytes of `send_buf`, so the test
for a full buffer in `rrs_serialize` does not come into play. (With more records
it may; it ends the loop, and what is so long is not sent. The theorems about
packets of any number of records speak of those that were.) `rrs_serialize` looks
at `buff_size` after it has written a record, so a record that does not fit is
written past `send_buf` first (`dns_resolver.c:639-642`): no 512-byte answer of
the run comes near. A third record adds a pointer into a text;
`OnlyExpansionLosesAnswers` was checked with three records as well, for one owner
and one target and two types at a time. 150 refused lines are more messages than
the error stack holds. In `containers` eight nodes are two for each of the four
keys: while a growth goes on, an entry is in its old node and in its new one.

### Fairness

`FairSpec` of `Relay`: the server thread runs (weak fairness of `ServerStep`, any
step of the loop but the failure of `select()`), the clock goes on (weak fairness
of `Tick`), and a query in the socket is read in the end (the socket is a FIFO;
strong fairness of `HandleQuery`, as the loop comes by again and again). Nothing is
assumed of clients, upstream servers and the network: datagrams may stop arriving
or never stop. What the code leaves to them is therefore in the property itself, as
its two exceptions.

`Spec` of `Startup`: one thread that goes on with its next step. `FairSpec` of
`DnsCache`: both threads run, time passes, and the daemon, which tries every four
seconds, gets the mutex in the end.

## 4. Proofs

For every value of the constants. 34 of the 38 properties of the passing runs have a theorem:

| Module | Theorem | States |
|---|---|---|
| `RelayProofs` | `StackAndMarksAgree`, `HoldersCanFree`, `PoolImplementsAllocator` | stack and marks agree; a holder is never refused; the pool is an allocator of sets of ids |
| | `RelayTypeCorrect`, `SessionsMatchIds`, `QueriesAtOnePlace`, `ExhaustionIsReal` | ids, sessions, map and queue agree; no query is lost or ends twice; ids run out only when all are in use |
| | `AnswersAreNotStolen`, `RetriesAreBounded`, `LoadIsEven` | `NoAnswerIsStolen`, `RetriesAreCounted`, `EvenLoad` |
| `ResolverProofs` | `BlockListHolds`, `PreCheckIsEnough`, `CacheAnswersTruly`, `TableStays` | `BlockedIsNotRelayed`, `PreCheckSuffices`, `CacheAnswersAsStored`, `TableStaysUnlessCaching` |
| `DnsCacheProofs` | `CacheTypeCorrect`, `TableAgrees`, `ListLinks`, `SizeIsList`, `CursorStays` | `CacheTypeOK`, `TableMatchesEntries`, `LinksAgree`, `SizeCountsList`, `CursorIsValid` |
| | `CacheImplementsLru`, `CallsAreHonoured` | `Spec` implements `LruCache`; the action property `CallsDoAsAsked` |
| `LazyHeapProofs` | `HeapTypeCorrect`, `SurvivorsReachable`, `PathsOrdered`, `HeapImplementsMinQueue` | `HeapTypeOK`, `SurvivorsAreReachable`, `OrderedPaths`; `Spec` implements `MinQueue` |
| `HashMapProofs` | `ListsStayLists`, `CountAndLoad`, `MapImplementsDictionary` | `BucketsAreLists`, `SizeAndLoad`; `Spec` implements `Dictionary` |
| `WireProofs` | `PointersLeadBack`, `MeaningKept` | `PointersGoBack`, `SameMeaning` |
| `StartupProofs` | `NoSelfUpstream`, `ReportsAreTrue`, `StackStaysInside`, `SettingsAreAsConfigured` | `NeverServesItself`, `ReportsNameTheirCause`, `ErrorStackInside`, `SettingsAsConfigured` |

The arguments:

- **Id pool.** The inductive invariant is the type invariant with
  `FreeStackMatchesMarks`; that the guard `top < 65535` never refuses a holder
  follows from it, since a full stack of different ids leaves no id marked.
- **Tables of the relay** (`RelayInv`). `IdsMatchSessions` is made inductive by
  adding the pool's invariant and what holds while a freed session dangles (it
  is only between `GiveUp` and `PeekFreed`); `EveryQueryAtOnePlace` needs both,
  because a session's query must leave with the session.
  `NoSpuriousExhaustion` follows from the pool's invariant and
  `IdsMatchSessions`.
- **Service of the relay.** Each property has an invariant of its own on top of
  `RelayInv`. `LoadInv`: the exact difference of two counts of picks, from the
  place of the cursor; a bound alone is not inductive. `AnswerInv`: an answer in
  the socket answers something that was sent, and as long as a query that was
  sent has not ended, the session under the id it was sent with is its own; an
  answer that finds another session therefore comes after its query's end.
  `RetryInv`: the number of transmissions of a query is its session's counter
  plus one; `RetriesAreBounded` assumes `max_retry_time <= CharMax`, without
  which the char wraps and the statement is false (section 7).
- **Resolver** (`ResolverInv`). `StoredInv`: a cached body is the ip table's or
  that of the last response which carried this question, whatever was relayed. `WalkInv`: no name that
  `query_pre_validate` has left behind holds a blocking entry, *now* and not
  only when it was looked up. That is what needs an argument: between two
  lookups time passes and the daemon removes entries, but only an upstream
  answer adds one, and none is handled before the query is done.
  `PreCheckSuffices` and `BlockedIsNotRelayed` follow at the last lookup.
- **Cache** (`CacheInv`). The list is described by a path: a function p on
  0 .. size + 1 from `head` to `tail` in which `hotter` and `colder` lead one
  place down and up, and which meets every live entry exactly once
  (`CacheOK`). Removing an entry cuts the path at its place and inserting one
  lengthens it in front; the path is unique (`OrderIsPath`), so that it is the
  walk that `LinksAgree` speaks of. While the
  daemon has the lock no call of the main thread is under way, and its cursor is
  a live entry or the tail.
- **Refinement of the cache.** The mapping reads the questions along the path
  (`KeysAt`) and answers and ages through the table (`ValuesIn`, `AgesIn`). One
  lemma for each operation on the pointers (`RemoveLooks`, `MoveLooks`,
  `InsertLooks`, ...) says what it does to these three; the steps of the two
  threads then are a step of `LruCache` each (`RemoveIsForget`, `GetIsLookup`,
  `PutIsStore`, `TickIsTick`) or leave them alone.
- **Start-up** (`StartInv`). `DataInv`: a stored list of upstreams is not empty
  and, once parsed, free of the loopback address and of what is no address; a
  parsed level is a level (the next step of `logger_init` is named by it).
  `StepInv`: a step that may report opens the context itself and starts with an
  empty one, only the list of upstreams can fail to parse, and a socket is tried
  only after a list was read.
- **Messages of start-up** (`StackInv`). Every step but one throws at most three
  messages into an empty context. The ip table throws one for each refused line,
  into the same context: after n of them that were kept the top is
  `MSG_SIZE - 1 - n * (l + 1)`, and one that no longer fits is left out. What
  makes the top negative is a message that fits to the last byte, because its
  line feed goes in front of it (`exception.c:39`): `RoomAssumption` excludes
  that for the message of the ip table, whose 28 bytes do not divide 4096.
- **Settings** (`SettingsInv`). Three parts, one for each phase. While the file
  is read, there is a number n such that the store holds what the last line for
  each key among the first n says, under the title it stands under (`LoadInv`);
  it is the same n for all keys. A readable file has no line that ends the reading
  but a blank one at its end, so that n is in the end the whole file
  (`ReadToTheEnd`). The words of the command line are folded, and the state after
  n of them is given by sets of their positions (`WordsTaken`): whether a word is a
  path depends on the parity of the `-c` in front of it, and the last `-d` wins.
  From then on a stored value is what was given or what its parser made of it, and
  what was read agrees once the step of the key is over (`Done`), with the exact
  value (`FromMeans`).
- **Heap** (`HeapInv`). The three properties need two more facts to be
  inductive: the array has room, and no unmarked element is later than the
  clock. The second carries the argument: `up` stops below a marked parent, so a
  new element is in order only because it is no earlier than all others. `down`
  is followed along its course, in which one place at most is out of order; a
  marked element may stay above later ones, for peek removes it before it looks.
- **Hash map** (`MapInv`). A walk of nodes for each bucket whose links lead in
  both directions (`Table`), which together hold each allocated node once, no two
  of them for one key, and every node in the bucket of its hash. Growth is a loop
  in a loop; between two turns the new table holds copies of the nodes done so
  far, beside those not yet released (`Copied`). A copy finds a free node since
  there are two for each key, the load factor after a growth is again below its
  limit, and the new table answers as the old one did.
- **Wire format** (`WireInv`). The packet that came is legal: every pointer in it
  leads to a name field that ends before the pointer, and it is a question and
  records one behind the other (`Laid`); what is in memory was read from it, and
  the buffer came about record by record (`Stages`), each stage the beginning of
  the next. A legal packet gives `name_deserialize` a value everywhere, because
  the ends of the fields it follows go down (`FollowExists`), and that value is
  the name as RFC 1035 reads it (`DeserText`). On the way out a name is written
  in full or as a pointer to where it stands in full (`NameSent`); a place where
  only its beginning stands is the end of a TXT record (`NothingUnfinished`),
  the case that both theorems except. rdata with a name in it is either written
  in full or copied; a copied pointer still means the same when it leads into the
  question, which lies in both packets at the same place (`QuestionNames`).

The assumptions, all evaluated by TLC in the runs: `IdMaxAssumption`,
`RelayAssumption` and `NoSessionAssumption` (sizes and distinct values);
`ResolverAssumption` (entries of the ip table do not expire and have addresses,
they fit the cache, bytes are bytes, the parents of a name are names);
`WireAssumption` (names are sequences of strings, texts are strings, the types of
records are the six that the model knows);
`HeapAssumption` (timestamps are numbers, the first array has a slot);
`HashMapAssumption` (hashes are not below INT32_MIN, there is a bucket, finitely
many keys, and memory for two nodes of each);
`CacheAssumption` (a finite memory, `Freed` is no entry and no answer, ttls of
upstream answers are finite); `ErrorContextAssumption` and `StartupAssumption`
(a message has 1 to 511 bytes, as the buffer of `ex_throw` bounds it, and a line
`key=value` has a value: `config_load_file` ends at one that has none);
`RoomAssumption`, for `StackStaysInside` alone (the buffer takes three messages,
and no multiple of the ip table's message and its line feed is its size).

The provers do no induction over data. Where an argument needs it, it takes the
least counterexample instead (`NumberLemmas`): along the labels of a name, along
the list of the cache, along the courses of loops (`up`, `down`, a walk through
a bucket, the growth of a map), along the pointers and the records of a packet,
over the lines of the file, the words of the command line and the messages of a
failure.

Only model-checked:

- liveness (`EveryQueryEnds`, `ExpiredEntriesGo`, `StartupEnds`): fairness and
  ENABLED are out of the prover's reach;
- `OnlyExpansionLosesAnswers` of `Wire`: it compares the sizes of two packets,
  each a sum over all cells, and needs an induction over both at once.

## 5. Not modelled

- Text for people: `do_log`, `packet_to_log_string`, `decode_name`.
- Code that only releases memory (`hash_map_free`, `lazy_heap_free`), and the
  configuration centre's cleaners: no value is replaced after it was parsed.
- Code that only tests call: `dns_cache_free`, `linked_list_insert` and
  `linked_list_remove`, `vector_insert`, `vector_remove`. The vector is a TLA+
  sequence where it is used.
- Allocations that fail, but for those of start-up that the code reports.
- Byte order, and the mapping of IPv4 addresses to IPv6: straight-line.
- That `config_get` writes a pointer's width into an `int` (`dns_resolver.c:34`):
  what lies behind the variable is up to the compiler.
- The class of a question (IN throughout), and responses with several questions.
- The end of the line buffer: where the scan of a blank line may run past it, the
  model ends in `"undefined"` (`BlankLineRunsOn`).
- A full `send_buf` (see Bounds): `rrs_serialize` of `Wire` writes every record.

## 6. Plan

1. A composition of `Relay` with `Resolver`, in which what is answered locally is
   no longer a free choice.

## 7. Other disagreements seen while modelling

Besides those that the runs of section 3 show:

- `retry_times` is a char: with `max_retry_time` above 127 it wraps and the
  server retries for ever (`session.h:13`, `server.c:120,144`).
- Upstream answers evict entries of the ip table when the cache is full
  (`dns_cache.c:516`), although README.md:9 makes no such exception.
- `dns_cache_put` does not prune, although `docs/cache.md:76` and its own
  comment say so; a good entry is evicted while expired ones stay.
- A name blocked by an A entry is relayed when its AAAA record is asked for
  (`dns_resolver.c:801`; README.md:9).
- An upstream NXDOMAIN is cached without its rcode and repeated as NOERROR
  without records, and such an entry does not expire (`dns_resolver.c:875`,
  `dns_cache.c:172`), while README.md:11 promises that the result is cached and
  returned and `docs/architect.md:358` that the same query is answered locally.
  `CacheAnswersAsStored` speaks of records and does not cover it.
- A response is cached under its own question, not compared with the one that was
  relayed (`dns_resolver.c:874-880`).
- `lazy_heap_peek` returns the smallest element only if priorities never go
  back: `up` stops below a deleted parent (`stl.c:321`).
- `dns_packet_timeout` is documented in seconds (README.md:70;
  `docs/architect.md:522`: multiplied by 1000) and used as milliseconds; a number
  is the string it was read as in `Startup`, so `SettingsAsConfigured` says
  nothing about units.
- What `usecache` says is never looked at (`dns_resolver.c:20`); it is not among the
  settings of `SettingsAsConfigured`.
- Only three spellings of the relay's own address are refused as an upstream
  (`server.c:274`): 0.0.0.0, 127.0.0.2 and ::ffff:127.0.0.1 pass, and so may a list
  that was not parsed. `NeverServesItself` speaks of the three.
- `config_register_cleaner` stores the address of a local array as its key, too
  (`config_center.c:55-61`).
- `OPCODE_GET` shifts by 12 and loses the lowest bit of the opcode: a real IQUERY
  (opcode 1) is handled as a query (`protocol.h:20`), while the report says it
  gets NOTIMP (`docs/report/实验报告.md:1317`); the test builds its IQUERY with
  the same shift (`test/test_protocol.c:276`).
- `docs/architect.md:328` describes compression of suffixes; `name_serialize`
  only finds whole names, so answers grow on their way through the relay.
- `find_previous_name` may take bytes of an earlier packet for the end of a name
  (`dns_resolver.c:376`), and rdata that is copied (SOA and others) keeps its
  pointers although the names move (`dns_resolver.c:525`).
- Reading an MX record writes over the pointer to its rdata
  (`dns_resolver.c:518`).
- `key = value` with blanks, as in `docs/architect.md:199`, stores `=`; a blank
  line is scanned on into what the buffer still holds, or past its end; a line
  without a value ends the reading of the file (`config_center.c:213-221`). All
  three are in the model (`InjectLine`, `BlankLine`, `LoadLine`);
  `SettingsAsConfigured` speaks of files without such lines.
- A log file that cannot be opened is closed all the same (`logger.c:38`), and
  `ipstr2binary` prints errno with `%s` (`sock_posix.c:176`).

