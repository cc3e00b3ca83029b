-------------------------- MODULE MCTypedNumbers --------------------------
(***************************************************************************)
(* Values of the constants of TypedNumbers for TLC.                        *)
(***************************************************************************)
EXTENDS TypedNumbers

\* Every number of an unsigned long, one that is too long, and a word.
EveryLine == {Number(n) : n \in 0 .. ULongMax + 1} \cup {Word}

=============================================================================
