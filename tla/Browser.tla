------------------------------ MODULE Browser ------------------------------
(* What the modules of the web pages share. *)
EXTENDS Integers

Abs(x) == IF x < 0 THEN -x ELSE x

\* Math.min(Math.max(x, low), high): the upper bound wins if they cross.
Clamp(x, low, high) ==
    LET raised == IF x < low THEN low ELSE x
    IN  IF raised > high THEN high ELSE raised
=============================================================================
