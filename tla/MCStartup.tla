----------------------------- MODULE MCStartup -----------------------------
(***************************************************************************)
(* Configuration files with every kind of line, command lines with every   *)
(* kind of word, and ip tables with no, one and more refused lines than    *)
(* the error context can hold.                                             *)
(***************************************************************************)
EXTENDS Startup, TLC

MCTokens == STRING

Title(s)   == [kind |-> "section", key |-> s, value |-> <<>>]
Pair(k, v) == [kind |-> "pair", key |-> k, value |-> v]
Spaced(k)  == [kind |-> "spaced", key |-> k, value |-> <<"4">>]
NoValue(k) == [kind |-> "novalue", key |-> k, value |-> <<>>]
Other(x)   == [kind |-> x, key |-> "", value |-> <<>>]

Up(v) == Pair("server_upstream", v)
Filler == {Other("blank"), Other("comment")}

\* The file of the distribution with one line changed, doubled or spoilt.
ServerLines ==
    {<<Up(v)>> : v \in {<<"a", "b">>, <<"a", "localhost">>, <<"invalid">>}}
    \cup {<<Up(<<"a">>), x, Up(<<"b", "c">>)>> : x \in Filler}
    \cup {<<x, Pair("max_retry_time", <<"1">>), Up(<<"a">>)>> : x \in Filler}
    \cup {<<Up(<<"a">>), x, Pair("max_retry_time", <<"1">>)>> :
              x \in {Spaced("dns_packet_timeout"), NoValue("dns_packet_timeout"),
                     Pair("dns_packet_timeout", <<"5">>)}}
    \cup {<<Spaced("server_upstream")>>}

LogLines ==
    {<<>>, <<Title("log"), Pair("log_level", <<"WARN">>), Pair("WARN", <<"stderr">>)>>,
     <<Title("log"), Pair("log_level", <<"LOUD">>), Pair("ERROR", <<"unwritable">>)>>}

Rest == <<Title("dns"), Pair("iptable", <<"t">>), Title("dnsresolver"), Pair("usecache", <<"0">>)>>

MCFiles ==
    {<<>>, <<Other("blank"), Up(<<"a">>)>>,
     <<Title("server"), Up(<<"a", "b">>)>> \o Rest \o <<Other("blank")>>}
    \cup {<<Title("server")>> \o s \o Rest \o l : s \in ServerLines, l \in LogLines}
    \cup {l \o Rest \o <<Other("comment"), Other("blank"), Title("server")>> \o s :
              s \in ServerLines, l \in LogLines}

MCArgLists ==
    {<<>>, <<"-d">>, <<"-dd", "-d">>, <<"b">>, <<"-c", "-d", "b", "c">>,
     <<"-c", "-c", "b", "-c">>, <<"localhost">>}

\* More refused lines than the error context can hold with one file only.
MCInputs ==
    [file : MCFiles, args : MCArgLists, table : {0, 1}]
    \cup [file : {<<Title("server"), Up(<<"a", "localhost">>)>>}, args : {<<>>}, table : {150}]

\* The lengths of the messages.
MCLength ==
    "label too long" :> 27 @@ "localhost" :> 27 @@ "upstream failed" :> 34
    @@ "when config_get" :> 40 @@ "ipstr2binary" :> 21 @@ "cache alloc failed" :> 41
    @@ "session_queue alloc failed" :> 26 @@ "syscall bind" :> 35 @@ "init_socket" :> 11
=============================================================================
