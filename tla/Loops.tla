------------------------------- MODULE Loops -------------------------------
(***************************************************************************)
(* Loops of the code as functions of the turn.                             *)
(***************************************************************************)
EXTENDS Integers

\* What x has become after n turns, when the i-th makes Turn(i, x) of it.  A
\* loop that may end earlier has a Turn that then changes nothing.
After(n, Turn(_, _), x) ==
    LET after[i \in 0 .. n] == IF i = 0 THEN x ELSE Turn(i, after[i - 1])
    IN after[n]
=============================================================================
