---------------------------- MODULE ErrorContext ----------------------------
(***************************************************************************)
(* The error context of a thread, src/src/infra/exception.c: a descending  *)
(* stack of messages in a buffer of MSG_SIZE bytes.  A context is a record *)
(*   err_flag   is recording switched on                                   *)
(*   stack_top  index of the first byte in use                             *)
(*   msg        the messages from stack_top upwards, the last one first    *)
(***************************************************************************)
EXTENDS Integers, Sequences

CONSTANTS
    MSG_SIZE,       \* bytes of the buffer
    Length          \* bytes of every message, less than 512

ASSUME ErrorContextAssumption ==
    /\ MSG_SIZE \in Nat /\ MSG_SIZE > 512
    /\ \A m \in DOMAIN Length : Length[m] \in 0 .. 511

Closed == [err_flag |-> FALSE, stack_top |-> MSG_SIZE - 1, msg |-> <<>>]

ex_try_keeps(c) == [c EXCEPT !.err_flag = TRUE]

ex_try(c) == [err_flag |-> TRUE, stack_top |-> MSG_SIZE - 1, msg |-> <<>>]

ex_catch(c) == c.err_flag /\ c.stack_top < MSG_SIZE - 1

ex_throw_unchecked(c, m) ==
    LET open == IF c.err_flag THEN c ELSE ex_try(c)
    IN [open EXCEPT !.stack_top = @ - Length[m.what] - 1, !.msg = <<m>> \o @]

\* Opens a closed context; a message that does not fit is left out.  The
\* line feed goes in front of the message, below where it was found to fit.
ex_throw(c, m) ==
    LET open  == IF c.err_flag THEN c ELSE ex_try(c)
        net_r == open.stack_top - Length[m.what]
    IN IF Length[m.what] = 0 \/ net_r < 0 THEN open
       ELSE [open EXCEPT !.stack_top = net_r - 1, !.msg = <<m>> \o @]

\* ex_end: the text, and the context it leaves.
EndText(c) == IF c.err_flag THEN c.msg ELSE <<>>
ex_end(c)  == [c EXCEPT !.err_flag = FALSE]
=============================================================================
