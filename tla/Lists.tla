------------------------------- MODULE Lists -------------------------------
(***************************************************************************)
(* What is made of lists and sets in the source by iterators and maps that *)
(* keep their keys in order.                                               *)
(***************************************************************************)
EXTENDS Integers, Sequences, FiniteSets

\* The numbers of a set, in rising order.
Ascending(numbers) ==
    [n \in 1..Cardinality(numbers) |-> CHOOSE k \in numbers : Cardinality({j \in numbers : j <= k}) = n]

\* filter
Those(seq, Test(_)) ==
    LET upto[n \in 0..Len(seq)] ==
            IF n = 0 THEN <<>>
            ELSE IF Test(seq[n]) THEN Append(upto[n - 1], seq[n]) ELSE upto[n - 1]
    IN  upto[Len(seq)]
=============================================================================
