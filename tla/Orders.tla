------------------------------- MODULE Orders -------------------------------
(* Sorting and filtering of sequences, in definitions that can be reasoned   *)
(* about: the provers know nothing of SortSeq and SelectSeq.                 *)
EXTENDS Naturals, FiniteSets, Sequences

\* The elements of S in the strict order less, a set of pairs.
Ordered(S, less) ==
    [k \in 1..Cardinality(S) |-> CHOOSE x \in S : Cardinality({y \in S : <<y, x>> \in less}) = k - 1]

\* The elements of a sequence at the positions I.
Picked(s, I) ==
    LET place == Ordered(I, {p \in I \X I : p[1] < p[2]}) IN [k \in DOMAIN place |-> s[place[k]]]
=============================================================================
