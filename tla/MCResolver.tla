----------------------------- MODULE MCResolver -----------------------------
(***************************************************************************)
(* A small ip table, and upstream servers with two kinds of answer.        *)
(* Addresses have three bytes.                                             *)
(***************************************************************************)
EXTENDS Resolver, TLC

Ad == <<"ad">>
Sub == <<"www", "ad">>
Host == <<"host">>
Site == <<"site">>
MCNames == {Ad, Sub, Host, Site}

\* Every question with RD, one without it, and packets with each number of
\* questions and with the opcodes 1 (IQUERY), 2 (STATUS), 4 and 6.
MCQueries ==
    {q \in Query :
        \/ q.opcode = 0 /\ q.qcount = 1 /\ (q.rd \/ q.question.name = Site)
        \/ q.question.name = Host /\ q.rd /\ q.opcode = 0
        \/ q.question.name = Host /\ q.rd /\ q.qcount = 1 /\ q.opcode \in {1, 2, 4, 6}}

\* Relay ids are only told apart.
IdSymmetry == Permutations(RelayIds)

A(rdata, ttl) == [type |-> "A", rdata |-> rdata, ttl |-> ttl]
Table(rdata) == [answers |-> {A(rdata, 99)}, others |-> {}]

\* ad is blocked, host has an address of its own.
MCIpTable ==
    [k \in {[name |-> Ad, type |-> "A"], [name |-> Host, type |-> "A"]} |->
        IF k.name = Ad THEN Table(<<0, 0, 0>>) ELSE Table(<<3, 0, 7>>)]

\* An address, and a name that does not exist, with the address of a name
\* server such as 8.0.0.0 in the additional section.
MCReplies ==
    {[rcode |-> "NOERROR", body |-> [answers |-> {A(<<3, 0, 7>>, 1)}, others |-> {}]],
     [rcode |-> "NXDOMAIN", body |-> [answers |-> {}, others |-> {A(<<8, 0, 0>>, 1)}]]}
=============================================================================
