-------------------------------- MODULE Places --------------------------------
(***************************************************************************)
(* What is at some of the places of a table or sequence, in their order.     *)
(***************************************************************************)
EXTENDS Naturals, FiniteSets

\* The j-th of S.
Nth(S, j) == CHOOSE i \in S : Cardinality({h \in S : h < i}) = j - 1

Collected(f, S) == [j \in 1 .. Cardinality(S) |-> f[Nth(S, j)]]
===============================================================================
