------------------------------ MODULE Startup ------------------------------
(***************************************************************************)
(* From main to the event loop: src/src/main.c, logger_init,               *)
(* dns_cache_init, dns_resolver_init and server_start, each reading its    *)
(* settings from the configuration centre and reporting errors from the    *)
(* error context.                                                          *)
(*                                                                         *)
(* pc names the step the main thread is about to take; it ends as          *)
(* "serving", "exit" or "undefined" (the program has read or called what   *)
(* the language leaves undefined).                                         *)
(***************************************************************************)
EXTENDS ConfigCenter, ErrorContext, SequencesExt, FiniteSets

CONSTANTS
    Tokens,         \* the words values are made of
    Inputs          \* [file, args, table]: the lines of the configuration file
                    \* (none if it is missing), the command line, and how many
                    \* lines of the ip table have a label too long

\* A line as config_load_file tells them apart: a pair has a value.
Line == {l \in [kind : {"section", "pair", "spaced", "novalue", "comment", "blank"},
                key : STRING, value : Seq(Tokens)] : l.kind = "pair" => l.value # <<>>}

\* The messages of start-up.
Messages == {"label too long", "localhost", "upstream failed", "when config_get",
             "ipstr2binary", "cache alloc failed", "session_queue alloc failed",
             "syscall bind", "init_socket"}

ASSUME StartupAssumption ==
    /\ {"=", "leftover", "unset", "0", "INFO", "DEBUG", "TRACE"} \subseteq Tokens
    /\ Inputs \subseteq [file : Seq(Line), args : Seq(Tokens), table : Nat]
    /\ \A m \in Messages : m \in DOMAIN Length /\ Length[m] > 0

\* The buffer takes three messages, and no number of refused lines of the ip
\* table fills it to the last byte.
ASSUME RoomAssumption ==
    /\ MSG_SIZE > 3 * 512
    /\ \A n \in 1 .. MSG_SIZE : n * (Length["label too long"] + 1) # MSG_SIZE

VARIABLES
    pc,
    file, args,     \* the configuration file and the command line
    table,          \* refused lines of the ip table that are still to come
    settings,       \* what the modules read: key -> [from, value]
    err,            \* the error context of the main thread
    report          \* the last error report: [step, msg]

inputs == <<file, args, table>>
vars == <<configVars, pc, inputs, settings, err, report>>

Levels == <<"TRACE", "DEBUG", "INFO", "WARN", "ERROR">>
LogLevel    == <<"log", "log_level">>
Channel(i)  == <<"log", Levels[i]>>
IpTablePath == <<"dns", "iptable">>
UseCache    == <<"dnsresolver", "usecache">>
Timeout     == <<"server", "dns_packet_timeout">>
Retries     == <<"server", "max_retry_time">>
Upstreams   == <<"server", "server_upstream">>
Keys == {LogLevel, IpTablePath, UseCache, Timeout, Retries, Upstreams}
           \cup {Channel(i) : i \in DOMAIN Levels}

Default == [from |-> "default", value |-> <<>>]

-----------------------------------------------------------------------------
(* The parsers.                                                            *)

Success(v)      == [ret |-> "ok", value |-> v, throws |-> <<>>]
Failure(throws) == [ret |-> "failed", value |-> <<>>, throws |-> throws]
Undefined       == [ret |-> "undefined", value |-> <<>>, throws |-> <<>>]

\* A level that is none is INFO.  A channel is stdout, stderr or a file: one
\* that cannot be opened is closed all the same.
log_config_parser(k, v) ==
    CASE k = LogLevel ->
            {Success(IF v[1] \in Range(Levels) THEN v ELSE <<"INFO">>)}
      [] k # LogLevel /\ v = <<"unwritable">> -> {Undefined}
      [] OTHER -> {Success(v)}

\* strcasecmp is 0 for the key usecache: the result is left as it is.
dns_resolver_config_parser(k, v) == {Success(<<"unset">>)}

\* The addresses in the order they are looked at, up to the one that is
\* refused.  "localhost" stands for the three spellings that are compared,
\* localhost, 127.0.0.1 and ::1; with any other (0.0.0.0, 127.0.0.2) the
\* relay's own address is an address like all others.  The message for one
\* that is no address prints errno as a string.
ParseUpstreams_lenient(v) ==
    LET bad == {i \in 1 .. Len(v) - 1 : v[i] \in {"localhost", "invalid", "="}}
    IN IF bad = {} THEN {Success(Reverse(v))}
       ELSE {Failure(<<"localhost", "upstream failed">>)}

ParseUpstreams(v) ==
    LET bad == {i \in 1 .. Len(v) : v[i] \in {"localhost", "invalid", "="}}
    IN IF bad = {} THEN {Success(Reverse(v))}
       ELSE IF v[CHOOSE i \in bad : \A j \in bad : i <= j] = "localhost"
            THEN {Failure(<<"localhost", "upstream failed">>)}
            ELSE {Failure(<<"ipstr2binary", "upstream failed">>), Undefined}

\* atol of what is no number is 0.
server_config_parser(k, v) ==
    IF k = Upstreams THEN ParseUpstreams(v)
    ELSE {Success(IF v = <<"=">> THEN <<"0">> ELSE v)}

Parser(k, v) ==
    CASE k[1] = "log"         -> log_config_parser(k, v)
      [] k[1] = "dnsresolver" -> dns_resolver_config_parser(k, v)
      [] k[1] = "server"      -> server_config_parser(k, v)
      [] OTHER                -> {}

\* What the parser may make of the string stored for k.
Parses(k) == IF k \in DOMAIN store /\ k[1] \in parsers
             THEN Parser(k, store[k].value) ELSE {}

-----------------------------------------------------------------------------
Throw(c, what) == ex_throw(c, [what |-> what, step |-> pc])

\* One message after the other.
ThrowAll(c, throws) ==
    LET thrown[n \in 0 .. Len(throws)] ==
          IF n = 0 THEN c ELSE Throw(thrown[n - 1], throws[n])
    IN thrown[Len(throws)]

\* A step that reads the setting k.  next(got) is where the program may go
\* on, failed where it goes when the value could not be parsed.
Get(k, next(_), failed) ==
    /\ \E o \in config_get(k, settings[k], Parses(k)) :
          /\ store' = o.store
          /\ settings' = [settings EXCEPT ![k] = o.got]
          /\ err' = ThrowAll(err, o.throws)
          /\ pc' \in CASE o.ret = "undefined" -> {"undefined"}
                       [] o.ret = "failed"    -> {failed}
                       [] OTHER               -> next(o.got)
    /\ UNCHANGED <<parsers, lines, section, last, inputs, report>>

Register(sec, next) ==
    /\ config_register_parser(sec) /\ pc' = next
    /\ UNCHANGED <<store, lines, section, last, inputs, settings, err, report>>

Try(next) ==
    /\ err' = ex_try(err) /\ pc' = next
    /\ UNCHANGED <<configVars, inputs, settings, report>>

\* Something without a setting that may fail with messages.
Attempt(next, throws, failed) ==
    /\ \/ pc' = next /\ UNCHANGED err
       \/ pc' = failed /\ err' = ThrowAll(err, throws)
    /\ UNCHANGED <<configVars, inputs, settings, report>>

\* do_log(ERROR, "...", ex_end()).
Report(step, next) ==
    /\ report' = [step |-> step, msg |-> EndText(err)]
    /\ err' = ex_end(err) /\ pc' = next
    /\ UNCHANGED <<configVars, inputs, settings>>

-----------------------------------------------------------------------------
\* config_load_file, a line at a time; a file that is missing has none.
LoadFile ==
    /\ pc = "load"
    /\ \/ LoadLine /\ UNCHANGED pc
       \/ BlankLineRunsOn /\ pc' = "undefined" /\ UNCHANGED configVars
       \/ lines = <<>> /\ pc' = "args" /\ UNCHANGED configVars
    /\ UNCHANGED <<inputs, settings, err, report>>

\* One word of the command line; -c takes the next one with it.
TakeArg(acc, a) ==
    IF acc.skip THEN [acc EXCEPT !.skip = FALSE]
    ELSE CASE a = "-d"  -> [acc EXCEPT !.store = config_set(@, "log", "log_level", <<"DEBUG">>)]
           [] a = "-dd" -> [acc EXCEPT !.store = config_set(@, "log", "log_level", <<"TRACE">>)]
           [] a = "-c"  -> [acc EXCEPT !.skip = TRUE]
           [] OTHER     -> [acc EXCEPT !.ips = Append(@, a)]

\* The whole command line, a word at a time.
TakeAll(s, a) ==
    LET taken[n \in 0 .. Len(a)] ==
          IF n = 0 THEN [store |-> s, skip |-> FALSE, ips |-> <<>>]
          ELSE TakeArg(taken[n - 1], a[n])
    IN taken[Len(a)]

param_inject_config_keepsFile(s, a) ==
    LET end == TakeAll(s, a)
    IN IF end.ips = <<>> \/ Upstreams \in DOMAIN s THEN end.store
       ELSE config_inject(end.store, "server", "server_upstream", end.ips)

\* Options take effect as they come; the addresses that are left replace the
\* file's.
param_inject_config(s, a) ==
    LET end == TakeAll(s, a)
    IN IF end.ips = <<>> THEN end.store
       ELSE config_inject(end.store, "server", "server_upstream", end.ips)

TakeArgs ==
    /\ pc = "args"
    /\ store' = param_inject_config(store, args)
    /\ pc' = "log"
    /\ UNCHANGED <<parsers, lines, section, last, inputs, settings, err, report>>

\* logger_init: the level, then a channel for each level from there on.  A
\* string taken for a level is out of range: at best nothing is logged.
logger_init ==
    \/ pc = "log" /\ Register("log", "log_level")
    \/ /\ pc = "log_level"
       /\ Get(LogLevel,
              LAMBDA got : CASE got.from = "parsed"  -> {got.value[1]}
                             [] got.from = "raw"     -> {"id_pool", "undefined"}
                             [] got.from = "default" -> {"INFO"}, "exit")
    \/ \E i \in DOMAIN Levels :
          /\ pc = Levels[i]
          /\ Get(Channel(i),
                 LAMBDA got : IF got.from = "raw" THEN {"undefined"}
                              ELSE IF i = Len(Levels) THEN {"id_pool"}
                              ELSE {Levels[i + 1]}, "exit")

id_pool_init ==
    /\ pc = "id_pool"
    /\ pc' \in {"try_cache", "exit"}
    /\ UNCHANGED <<configVars, inputs, settings, err, report>>

\* A line of the ip table with a label too long leaves its message behind
\* but fails nothing (the lines that count are module Resolver's).
load_ip_table ==
    /\ \/ /\ table > 0 /\ table' = table - 1
          /\ err' = Throw(err, "label too long") /\ UNCHANGED pc
       \/ /\ table = 0 /\ pc' = "try_resolver" /\ UNCHANGED <<table, err>>
    /\ UNCHANGED <<configVars, file, args, settings, report>>

dns_cache_init ==
    \/ pc = "try_cache" /\ Try("cache")
    \/ pc = "cache" /\ Attempt("ip_table", <<"cache alloc failed">>, "report_cache")
    \/ pc = "ip_table" /\ Get(IpTablePath, LAMBDA got : {"load_table"}, "exit")
    \/ pc = "load_table" /\ load_ip_table

dns_resolver_init ==
    \/ pc = "try_resolver" /\ Try("resolver")
    \/ pc = "resolver" /\ Register("dnsresolver", "use_cache")
    \/ pc = "use_cache" /\ Get(UseCache, LAMBDA got : {"try_session"}, "report_resolver")

session_factory_init ==
    \/ pc = "try_session" /\ Try("session")
    \/ pc = "session" /\ Attempt("try_server", <<"session_queue alloc failed">>, "report_session")

\* A string taken for a list is whatever its bytes make of it.
server_start ==
    \/ pc = "try_server" /\ Try("server")
    \/ pc = "server" /\ Register("server", "timeout")
    \/ pc = "timeout" /\ Get(Timeout, LAMBDA got : {"retries"}, "retries")
    \/ pc = "retries" /\ Get(Retries, LAMBDA got : {"check"}, "check")
    \/ /\ pc = "check"
       /\ IF ex_catch(err) THEN Report("server", "upstreams")
          ELSE pc' = "upstreams" /\ UNCHANGED <<configVars, inputs, settings, err, report>>
    \/ /\ pc = "upstreams"
       /\ Get(Upstreams,
              LAMBDA got : CASE got.from = "parsed"  -> {"try_socket"}
                             [] got.from = "default" -> {"report_upstreams"}
                             [] got.from = "raw"     -> {"try_socket", "report_upstreams",
                                                         "undefined"},
              "report_upstreams")
    \/ pc = "try_socket" /\ Try("socket")
    \/ pc = "socket" /\ Attempt("serving", <<"syscall bind", "init_socket">>, "report_socket")

\* The reports of main and server_start; only the resolver may fail.
Reports == [report_cache |-> "cache", report_resolver |-> "use_cache",
            report_session |-> "session", report_upstreams |-> "upstreams",
            report_socket |-> "socket"]

ReportFailure ==
    /\ pc \in DOMAIN Reports
    /\ Report(Reports[pc], IF pc = "report_resolver" THEN "try_session" ELSE "exit")

-----------------------------------------------------------------------------
Init ==
    /\ \E i \in Inputs : file = i.file /\ args = i.args /\ table = i.table
    /\ ConfigInit(file)
    /\ pc = "load"
    /\ settings = [k \in Keys |-> Default]
    /\ err = Closed
    /\ report = [step |-> "none", msg |-> <<>>]

Next ==
    \/ LoadFile \/ TakeArgs
    \/ logger_init \/ id_pool_init \/ dns_cache_init \/ dns_resolver_init
    \/ session_factory_init \/ server_start
    \/ ReportFailure

\* One thread, which takes its next step.
Spec == Init /\ [][Next]_vars /\ WF_vars(Next)

-----------------------------------------------------------------------------
\* The line of the file f that gives k its value in its first n lines, if any.
TitleOf(f, i) == LET titles == {j \in 1 .. i : f[j].kind = "section"}
                 IN IF titles = {} THEN "" ELSE f[Max(titles)].key
LinesFor(f, n, k) == {i \in 1 .. n : /\ f[i].kind \in {"pair", "spaced"}
                                     /\ <<TitleOf(f, i), f[i].key>> = k}
FileValue(f, n, k) ==
    LET l == f[Max(LinesFor(f, n, k))]
    IN IF l.kind = "spaced" THEN <<"=">> ELSE l.value

\* A file of the form that config_load_file reads to its end: section titles,
\* comments and pairs without blanks around their "=", a blank line at the
\* end at most, like the distributed bin/dnsrelay.ini.
Readable(f) ==
    \A i \in DOMAIN f : \/ f[i].kind \in {"section", "comment"}
                        \/ f[i].kind = "pair" /\ f[i].value # <<"=">>
                        \/ f[i].kind = "blank" /\ i = Len(f)

\* The word i of a is the path behind a -c: of several -c in a row every
\* second one is a path itself.
IsPath(a, i) == \E j \in 1 .. i - 1 : /\ \A l \in j .. i - 1 : a[l] = "-c"
                                      /\ j > 1 => a[j - 1] # "-c"
                                      /\ (i - j) % 2 = 1

\* What the command line a says: the last -d or -dd, and the addresses.
Debugs(a) == {i \in DOMAIN a : a[i] \in {"-d", "-dd"} /\ ~IsPath(a, i)}
ArgLevel(a) == IF a[Max(Debugs(a))] = "-d" THEN <<"DEBUG">> ELSE <<"TRACE">>
Addresses(a) == {i \in DOMAIN a : a[i] \notin {"-c", "-d", "-dd"} /\ ~IsPath(a, i)}
ArgIps(a) == [n \in 1 .. Cardinality(Addresses(a)) |->
                 a[CHOOSE i \in Addresses(a) :
                      Cardinality({j \in Addresses(a) : j <= i}) = n]]

\* s is what the parser makes of the string v; the path of the ip table has
\* no parser and is the string.
Means(s, k, v) ==
    IF k = IpTablePath THEN s = [from |-> "raw", value |-> v]
    ELSE \E p \in Parser(k, v) : p.ret = "ok" /\ s = [from |-> "parsed", value |-> p.value]

\* With a readable file, a server that has started works with the values of
\* the command line, else with those of the last line for the key in its
\* section, wherever in the whole file it stands, and else with its
\* defaults.  (Of usecache nothing can be said, its parser sets no result.  A
\* value whose parser was not found is StringsAreParsed's.)
SettingsAsConfigured ==
    pc = "serving" /\ Readable(file) =>
        \A k \in {LogLevel, IpTablePath, Timeout, Retries, Upstreams} :
            k = IpTablePath \/ settings[k].from # "raw" =>
                CASE k = LogLevel /\ Debugs(args) # {} ->
                        settings[k] = [from |-> "parsed", value |-> ArgLevel(args)]
                  [] k = Upstreams /\ Addresses(args) # {} ->
                        Means(settings[k], k, ArgIps(args))
                  [] OTHER ->
                        IF LinesFor(file, Len(file), k) = {} THEN settings[k] = Default
                        ELSE Means(settings[k], k, FileValue(file, Len(file), k))

\* No socket is opened without upstreams, nor with one that is no address or
\* one of the relay's own that server.c:274 knows (see ParseUpstreams), in
\* whatever place of the list it stands.
NeverServesItself ==
    pc \in {"socket", "serving"} /\ settings[Upstreams].from # "raw" =>
        /\ settings[Upstreams].value # <<>>
        /\ Range(settings[Upstreams].value) \cap {"localhost", "invalid", "="} = {}

\* A report names the causes of the failure it reports, and no failure of an
\* earlier step that nobody reported.
ReportsNameTheirCause ==
    /\ \A i \in DOMAIN report.msg : report.msg[i].step = report.step
    /\ report.step \in {"cache", "session", "socket"} => report.msg # <<>>

\* The messages of start-up stay inside the buffer, however many lines of
\* the ip table are refused.
ErrorStackInside == err.stack_top >= 0

\* Start-up comes to an end: the server serves or the program is over.
StartupEnds == <>(pc \in {"serving", "exit", "undefined"})

-----------------------------------------------------------------------------
(* What a comment and a test say and the code does not do.                 *)

\* src/include/infra/config.h: the strings of a section with a parser are
\* parsed when they are read.
StringsAreParsed ==
    \A k \in Keys : k[1] \in parsers => settings[k].from # "raw"
=============================================================================
