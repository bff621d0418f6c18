------------------------------ MODULE MCRelay ------------------------------
(***************************************************************************)
(* Instances of the relay server.                                          *)
(***************************************************************************)
EXTENDS RelayProps

QueryOf(n, c, id, name) == [n |-> n, client |-> c, id |-> id, name |-> name]

\* Two clients, each with its own question, one using the id 1 (the first
\* the pool hands out when IdMax = 1) and one the id 0.
TwoQueries == {QueryOf(1, "c1", 1, "a"), QueryOf(1, "c2", 0, "b")}

\* The first client sends its datagram twice.
ThreeQueries == TwoQueries \cup {QueryOf(2, "c1", 1, "a")}
=============================================================================
