----------------------------- MODULE MCDnsCache -----------------------------
(***************************************************************************)
(* An instance of the DNS cache.                                           *)
(***************************************************************************)
EXTENDS DnsCacheProps

\* An upstream's answer with two records, of which one expires first, and
\* the answer of the ip table.
MCValues == {[tag |-> 1, ttls |-> {1, 2}]}
MCStaticValue == [tag |-> 0, ttls |-> {99}]
=============================================================================
