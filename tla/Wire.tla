-------------------------------- MODULE Wire --------------------------------
(***************************************************************************)
(* The DNS wire format: how an upstream's answer is read                   *)
(* (pack_deserialize) and written again for the client (pack_serialize),   *)
(* src/src/dns/dns_resolver.c.                                             *)
(*                                                                         *)
(* A packet is a sequence of cells, the header apart:                      *)
(*    <<"label", l>>     a length byte and the text of one label           *)
(*    <<"end">>          the zero byte that ends a name                    *)
(*    <<"ptr", p>>       a compression pointer to cell p                   *)
(*    <<"q", t>>         type and class of the question                    *)
(*    <<"rr", t, n>>     type, class, ttl and length of a record whose     *)
(*                       rdata takes n cells                               *)
(*    <<"data", b>>      b bytes of rdata that hold no name                *)
(* A name in memory is a C string: its labels and the end.  An answer has  *)
(* one question, written without pointers, then records.                   *)
(*                                                                         *)
(* The upstream may compress any name of its answer in any legal way.      *)
(***************************************************************************)
EXTENDS Integers, Sequences, FiniteSets, SequencesExt, Loops

CONSTANTS
    QNames,         \* names of questions: sequences of labels
    Owners,         \* names of records
    Targets,        \* names in rdata
    Texts,          \* contents of TXT records, one string each
    RTypes,         \* types of the records
    MaxRecords,     \* bound: records in an answer
    LabelBytes,     \* bytes of a label, without its length
    MAX_PACKET_SIZE \* 512

ASSUME WireAssumption ==
    /\ RTypes \subseteq {"A", "TXT", "CNAME", "NS", "SOA", "MX"}
    /\ {MaxRecords, LabelBytes, MAX_PACKET_SIZE} \subseteq Nat
    /\ QNames \cup Owners \cup Targets \subseteq Seq(STRING)
    /\ Texts \subseteq STRING

VARIABLES
    status,     \* "empty", "building", "received", then what became of it
    wire,       \* the bytes the upstream sends
    count,      \* the record counts of their header
    packet,     \* the packet in memory: [question, rrs]
    stale,      \* do bytes left in send_buf complete a name at its end
    send_buf    \* the bytes for the client

vars == <<status, wire, count, packet, stale, send_buf>>

-----------------------------------------------------------------------------
End        == <<"end">>
Pointer(p) == <<"ptr", p>>
CString(n) == [i \in 1 .. Len(n) |-> <<"label", n[i]>>] \o <<End>>

CellBytes(c) ==
    CASE c[1] = "label" -> 1 + LabelBytes
      [] c[1] = "end"   -> 1
      [] c[1] = "ptr"   -> 2
      [] c[1] = "q"     -> 4
      [] c[1] = "rr"    -> 10
      [] c[1] = "data"  -> c[2]

\* Bytes of a packet with its header.
Size(b) == 12 + FoldLeft(LAMBDA s, c : s + CellBytes(c), 0, b)

\* A name field from p to i: labels, then the end or a pointer.
IsField(b, p, i) ==
    b[i][1] \in {"end", "ptr"} /\ \A j \in p .. i - 1 : b[j][1] = "label"

\* The cells where a name field can be read, and the last cell of each.
Fields(b) == {p \in 1 .. Len(b) : \E i \in p .. Len(b) : IsField(b, p, i)}
FieldEnd(b, p) == CHOOSE i \in p .. Len(b) : IsField(b, p, i)

-----------------------------------------------------------------------------
(* Reading.                                                                *)

\* The labels of the field, and those of the name it points to.
name_deserialize(b, p) ==
    LET name[q \in Fields(b)] ==
            LET i == FieldEnd(b, q)
            IN SubSeq(b, q, i - 1) \o (IF b[i] = End THEN <<End>> ELSE name[b[i][2]])
    IN name[p]

\* The name in the rdata of CNAME and NS is expanded.  MX is Receive's; all
\* the other types are copied as they are, pointers in them included.
rdata_deserialize(b, p, type, n) ==
    IF type \in {"CNAME", "NS"} THEN name_deserialize(b, p)
    ELSE SubSeq(b, p, p + n - 1)

rr_deserialize(b, p) ==
    LET h == FieldEnd(b, p) + 1
    IN [name |-> name_deserialize(b, p), type |-> b[h][2],
        rdata |-> rdata_deserialize(b, h + 1, b[h][2], b[h][3])]

\* Where the cursor stands after the record at p, and when it comes to the
\* i-th record of those that begin at p.
NextRecord(b, p) == FieldEnd(b, p) + 2 + b[FieldEnd(b, p) + 1][3]
RecordCell(b, p, i) == After(i - 1, LAMBDA k, c : NextRecord(b, c), p)

rrs_deserialize(b, p, cnt) ==
    [i \in 1 .. cnt |-> rr_deserialize(b, RecordCell(b, p, i))]

\* The question's name, type and class, copied: no pointers are expected.
question_deserialize(b) == SubSeq(b, 1, FieldEnd(b, 1) + 1)

\* The question and the records after it.
pack_deserialize(b, cnt) ==
    LET q == question_deserialize(b)
    IN [question |-> q, rrs |-> rrs_deserialize(b, Len(q) + 1, cnt)]

-----------------------------------------------------------------------------
(* Writing.                                                                *)

\* Where name stands in b as a C string.
Occurrences(name, b) ==
    {j \in 1 .. Len(b) : /\ j + Len(name) - 1 <= Len(b)
                         /\ SubSeq(b, j, j + Len(name) - 1) = name}

\* Where b ends with the beginning of name: strcmp goes on into what an
\* earlier packet left behind the cursor.
Unfinished(name, b) ==
    {j \in 1 .. Len(b) : IsStrictPrefix(SubSeq(b, j, Len(b)), name)}

find_previous_name_unbounded(name, b) ==
    Occurrences(name, b) \cup Unfinished(name, b)

\* The places strcmp may accept; the first one is taken.
find_previous_name(name, b) ==
    Occurrences(name, b) \cup (IF stale THEN Unfinished(name, b) ELSE {})

name_serialize_plain(name, b) == name

name_serialize_suffix(name, b) ==
    LET hits == UNION {Occurrences(SubSeq(name, i, Len(name)), b) :
                          i \in 1 .. Len(name) - 1}
    IN IF hits # {} THEN <<Pointer(CHOOSE j \in hits : \A k \in hits : j <= k)>>
       ELSE name

\* The loop moves on from label to label but always looks for the whole
\* name, so that a name is written as one pointer or in full.
name_serialize(name, b) ==
    LET found == find_previous_name(name, b)
    IN IF name # <<End>> /\ found # {}
       THEN <<Pointer(CHOOSE j \in found : \A k \in found : j <= k)>>
       ELSE name

\* rdata is copied.
rr_serialize(b, rr) ==
    b \o name_serialize(rr.name, b)
      \o <<<<"rr", rr.type, Len(rr.rdata)>>>> \o rr.rdata

rrs_serialize(b, rrs) == After(Len(rrs), LAMBDA i, buf : rr_serialize(buf, rrs[i]), b)

questions_serialize(p) == p.question

pack_serialize(p) == rrs_serialize(questions_serialize(p), p.rrs)

-----------------------------------------------------------------------------
(* The upstream: the names of its answer compressed in any legal way.      *)

\* A pointer has a meaning when it leads to a field that ends before it.
LeadsBack(b, i) == b[i][2] \in Fields(b) /\ FieldEnd(b, b[i][2]) < i

\* A name as RFC 1035 reads it; a pointer without a meaning is left.
NameAt(b, p) ==
    LET name[q \in Fields(b)] ==
            LET i == FieldEnd(b, q)
            IN [j \in 1 .. i - q |-> b[q + j - 1][2]]
               \o (IF b[i] = End THEN <<>>
                   ELSE IF LeadsBack(b, i) THEN name[b[i][2]] ELSE <<b[i]>>)
    IN name[p]

\* The cells of b where the name n begins.
Readable(b, n) == {p \in Fields(b) : NameAt(b, p) = n}

\* Labels, then the end or a pointer to the rest.
Encodings(b, n) ==
    {CString(n)} \cup
    UNION {{SubSeq(CString(n), 1, i) \o <<Pointer(p)>> :
               p \in Readable(b, SubSeq(n, i + 1, Len(n)))} : i \in 0 .. Len(n) - 1}

RdataOf(b, type) ==
    CASE type = "A"   -> {<<<<"data", 4>>>>}
      [] type = "TXT" -> {<<<<"label", t>>>> : t \in Texts}
      [] type = "MX"  -> {<<<<"data", 2>>>> \o e : e \in UNION {Encodings(b, n) : n \in Targets}}
      [] type = "SOA" -> {e \o <<<<"data", 20>>>> : e \in UNION {Encodings(b, n) : n \in Targets}}
      [] OTHER        -> UNION {Encodings(b, n) : n \in Targets}

Ask(n) ==
    /\ status = "empty"
    /\ status' = "building"
    /\ wire' = CString(n) \o <<<<"q", "A">>>>
    /\ UNCHANGED <<count, packet, stale, send_buf>>

AddRecord(n, type) ==
    /\ status = "building" /\ count < MaxRecords
    /\ \E e \in Encodings(wire, n) :
          \E d \in RdataOf(wire \o e, type) :
             wire' = wire \o e \o <<<<"rr", type, Len(d)>>>> \o d
    /\ count' = count + 1
    /\ UNCHANGED <<status, packet, stale, send_buf>>

-----------------------------------------------------------------------------
(* The relay.                                                              *)

HasMX(p) == \E i \in DOMAIN p.rrs : p.rrs[i].type = "MX"

\* pack_recv: a packet of more than 512 bytes is refused.  Reading an MX
\* record writes the preference over the pointer to its rdata and the name
\* behind that: what follows is undefined.
Receive ==
    /\ status = "building"
    /\ IF Size(wire) > MAX_PACKET_SIZE
       THEN status' = "refused" /\ UNCHANGED packet
       ELSE /\ packet' = pack_deserialize(wire, count)
            /\ status' = IF HasMX(packet') THEN "undefined" ELSE "received"
    /\ UNCHANGED <<wire, count, stale, send_buf>>

\* packet_send for the client: what grew beyond 512 bytes is not sent.
packet_send ==
    /\ status = "received"
    /\ send_buf' = pack_serialize(packet)
    /\ status' = IF Size(send_buf') > MAX_PACKET_SIZE THEN "dropped" ELSE "sent"
    /\ UNCHANGED <<wire, count, packet, stale>>

Init ==
    /\ status = "empty" /\ wire = <<>> /\ count = 0
    /\ packet = [question |-> <<>>, rrs |-> <<>>]
    /\ stale \in BOOLEAN
    /\ send_buf = <<>>

Next ==
    \/ \E n \in QNames : Ask(n)
    \/ \E n \in Owners, t \in RTypes : AddRecord(n, t)
    \/ Receive
    \/ packet_send

Spec == Init /\ [][Next]_vars

-----------------------------------------------------------------------------
\* A text that ends right before a record whose name begins with it: the
\* one place where the search for a name can run on behind the cursor.
TextMeetsName(p) ==
    \E i \in 1 .. Len(p.rrs) - 1 :
        p.rrs[i].type = "TXT" /\ IsStrictPrefix(p.rrs[i].rdata, p.rrs[i + 1].name)

\* The cells where the records of a packet begin.
Records(b) == [i \in 1 .. count |-> RecordCell(b, FieldEnd(b, 1) + 2, i)]

\* name_serialize writes no pointer that a reader could follow for ever: it
\* leads to a name without pointers that is complete before the pointer
\* itself, unless bytes of an earlier packet took part in the comparison.
PointersGoBack ==
    status = "sent" /\ ~(stale /\ TextMeetsName(packet)) =>
        \A p \in Range(Records(send_buf)) : send_buf[p][1] = "ptr" =>
            LET e == FieldEnd(send_buf, send_buf[p][2])
            IN e < p /\ send_buf[e] = End

\* What RFC 1035 makes of the record at p: owner, type and rdata, with the
\* name that begins the rdata of some types read where it stands.
Reading(b, p) ==
    LET h == FieldEnd(b, p) + 1
        rdata == SubSeq(b, h + 1, h + b[h][3])
    IN [name |-> NameAt(b, p), type |-> b[h][2],
        rdata |-> IF b[h][2] \in {"A", "TXT"} THEN <<rdata>>
                  ELSE <<NameAt(b, h + 1),
                         SubSeq(b, FieldEnd(b, h + 1) + 1, h + b[h][3])>>]

\* Copied rdata with a pointer that leads behind the question, the one
\* section that lies in both packets at the same place.
PointsBehindQuestion(rr) ==
    /\ rr.type \notin {"CNAME", "NS"}
    /\ \E i \in DOMAIN rr.rdata : /\ rr.rdata[i][1] = "ptr"
                                  /\ rr.rdata[i][2] > Len(packet.question)

\* The client reads what the upstream said: however the upstream compressed
\* its names and wherever the relay puts them, every record keeps its
\* meaning, but for copied rdata (SOA and the like) that points behind the
\* question.
SameMeaning ==
    status = "sent" /\ ~(stale /\ TextMeetsName(packet)) =>
        \A i \in 1 .. count :
            ~PointsBehindQuestion(packet.rrs[i]) =>
                Reading(send_buf, Records(send_buf)[i]) = Reading(wire, Records(wire)[i])

\* The cells of rdata that goes out as it came.
CopiedCells(b) ==
    UNION {LET h == FieldEnd(b, p) + 1
           IN IF b[h][2] \in {"CNAME", "NS"} THEN {} ELSE h + 1 .. h + b[h][3] :
              p \in Range(Records(b))}

\* The pointers whose names the relay has to write in full: behind labels of
\* the same name, in rdata that is expanded, or into rdata that is copied.
SpeltOut(b) ==
    {i \in DOMAIN b \ CopiedCells(b) :
        /\ b[i][1] = "ptr"
        /\ \/ b[i - 1][1] \in {"label", "rr"} /\ i - 1 \notin CopiedCells(b)
           \/ b[i][2] \in CopiedCells(b)}

\* The bytes of the names less those of the pointers.
Growth(b) ==
    MapThenSumSet(LAMBDA i : Size(CString(NameAt(b, b[i][2]))) - 14, SpeltOut(b))

\* An answer grows on its way by no more than these names, so that one which
\* came in a datagram is dropped (server.c:75) only if they take it beyond 512
\* bytes: whole names of records, and rdata that is copied, never add a byte.
OnlyExpansionLosesAnswers ==
    status \in {"sent", "dropped"} /\ ~(stale /\ TextMeetsName(packet)) =>
        Size(send_buf) <= Size(wire) + Growth(wire)
=============================================================================
