------------------------------- MODULE MCSite -------------------------------
(* The instance of Site for TLC. *)
EXTENDS Site

\* A height changes by less than a quarter from 5 and from 6, but from 6 to 4 by
\* more, and from 4 by any step.
MCSizes == [w : {1}, h : {4, 5, 6}] \cup {[w |-> 2, h |-> 5]}

\* Two of the three nodes, and what the one holds the other for.
MCSubjects == <<<<"n1">>, <<"n1", "n2">>, <<"n2">>>>
=============================================================================
