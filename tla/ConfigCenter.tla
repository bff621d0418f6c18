---------------------------- MODULE ConfigCenter ----------------------------
(***************************************************************************)
(* The configuration centre, src/src/infra/config_center.c: values are     *)
(* stored as the strings they were read as, and parsed when they are first *)
(* asked for.                                                              *)
(*                                                                         *)
(* A value, raw or parsed, is a sequence of tokens (a list of addresses    *)
(* has several).  A line of a file is a record [kind, key, value]:         *)
(*    "section"  [key]               "pair"     key=value                  *)
(*    "spaced"   key = value         "novalue"  key=   or   key            *)
(*    "comment"  # ...               "blank"                               *)
(***************************************************************************)
EXTENDS Integers, Sequences

VARIABLES
    store,      \* configs_sections: <<section, key>> -> [is_cook, value]
    parsers,    \* the sections a parser is registered for
    lines,      \* what is left of the file
    section,    \* cur_section_str
    last        \* what the line buffer held before blank lines

configVars == <<store, parsers, lines, section, last>>

-----------------------------------------------------------------------------
\* is_cook tells a parsed value from a string.
ConfigValue(cook, v) == [is_cook |-> cook, value |-> v]

\* hash_map_put: the old value is released before.
Put(s, k, v) == [x \in DOMAIN s \cup {k} |-> IF x = k THEN v ELSE s[x]]

\* config_inject and config_set on a store.
config_inject(s, sec, key, v) == Put(s, <<sec, key>>, ConfigValue(FALSE, v))
config_set(s, sec, key, v)    == Put(s, <<sec, key>>, ConfigValue(TRUE, v))

\* The parser is kept under the address of a local array: whether it is
\* found later depends on what the stack then holds there.
config_register_parser(sec) == parsers' = parsers \cup {sec}
MayFind(sec) == IF sec \in parsers THEN BOOLEAN ELSE {FALSE}

\* config_get of k into a variable that holds cur: the outcomes.  parse is
\* the set of what the parser of k's section may make of the string that is
\* stored; a value that is not there leaves the variable alone, and a parser
\* that fails leaves the string, too.
config_get(k, cur, parse) ==
    LET Found(v) == [from |-> IF v.is_cook THEN "parsed" ELSE "raw", value |-> v.value]
        Same(ret, throws) ==
            [ret |-> ret, store |-> store, throws |-> throws, got |-> cur]
        Parsed(p) ==
            IF p.ret = "ok"
            THEN LET v == ConfigValue(TRUE, p.value)
                 IN [Same("ok", <<>>) EXCEPT !.store = Put(store, k, v), !.got = Found(v)]
            ELSE Same(p.ret, Append(p.throws, "when config_get"))
    IN IF k \notin DOMAIN store THEN {Same("missing", <<>>)}
       ELSE UNION {IF found /\ ~store[k].is_cook
                   THEN {Parsed(p) : p \in parse}
                   ELSE {[Same("ok", <<>>) EXCEPT !.got = Found(store[k])]} :
                      found \in MayFind(k[1])}

-----------------------------------------------------------------------------
\* The key is read up to '=' or a blank, the value from the character after
\* that: behind "key " the value is "=".
InjectLine(l) ==
    store' = config_inject(store, section, l.key,
                           IF l.kind = "spaced" THEN <<"=">> ELSE l.value)

\* The scan for a key does not stop at the end of a blank line, but goes on
\* in what earlier lines left in the buffer.  Behind a pair it finds "=" and
\* stores a value under the empty key, behind a section title it finds no
\* value, and behind a comment, or in the buffer as it was, either.
\* (A blank line is a lone newline.)
BlankLineStops == IF last \in {"comment", "none"} THEN BOOLEAN
                  ELSE {last = "section"}

BlankLine_again ==
    /\ Head(lines).kind = "blank"
    /\ UNCHANGED <<lines, store, section>>

BlankLine ==
    /\ Head(lines).kind = "blank"
    /\ \E stops \in BlankLineStops :
          IF stops THEN lines' = <<>> /\ UNCHANGED store
          ELSE /\ lines' = Tail(lines)
               /\ store' = config_inject(store, section, "", <<"leftover">>)
    /\ UNCHANGED section

\* Behind a comment, or in the buffer as it was, the scan may also meet
\* neither '=' nor white space and run past the end of the buffer.
BlankLineRunsOn ==
    lines # <<>> /\ Head(lines).kind = "blank" /\ last \in {"comment", "none"}

\* One turn of config_load_file's loop: a line without a value ends the
\* reading, and nobody is told.
LoadLine ==
    /\ lines # <<>>
    /\ LET l == Head(lines)
       IN \/ /\ l.kind = "comment"
             /\ lines' = Tail(lines) /\ UNCHANGED <<store, section>>
          \/ /\ l.kind = "section"
             /\ section' = l.key
             /\ lines' = Tail(lines) /\ UNCHANGED store
          \/ /\ l.kind \in {"pair", "spaced"}
             /\ InjectLine(l)
             /\ lines' = Tail(lines) /\ UNCHANGED section
          \/ /\ l.kind = "novalue"
             /\ lines' = <<>> /\ UNCHANGED <<store, section>>
          \/ BlankLine
    /\ last' = IF Head(lines).kind = "blank" THEN last ELSE Head(lines).kind
    /\ UNCHANGED parsers

ConfigInit(file) ==
    /\ store = <<>> /\ parsers = {} /\ lines = file
    /\ section = "" /\ last = "none"
=============================================================================
