------------------------------- MODULE MCWire -------------------------------
(***************************************************************************)
(* Names of up to three labels of 63 bytes that share their suffixes, so   *)
(* that an answer of two records can outgrow 512 bytes.                    *)
(***************************************************************************)
EXTENDS Wire

Www == <<"www", "x", "com">>
Cdn == <<"cdn", "x", "com">>
Dom == <<"x", "com">>

MCQNames == {Www, Dom}
MCOwners == {Www, Dom, <<>>}
MCTargets == {Cdn, Dom}
=============================================================================
