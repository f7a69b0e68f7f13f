----------------------------- MODULE Selection -----------------------------
(***************************************************************************)
(* Elements picked out in increasing order, as loops do that run over a    *)
(* table and keep some of its entries.  They are defined by the number of  *)
(* elements up to each.                                                    *)
(***************************************************************************)
EXTENDS Integers, FiniteSets, Sequences

\* How many elements of S there are up to i.
CountTo(S, i) == Cardinality({j \in S : j <= i})

\* The elements of a finite set of integers in increasing order.
InOrder(S) == [k \in 1..Cardinality(S) |-> CHOOSE i \in S : CountTo(S, i) = k]

\* The elements of the sequence s at the positions in S, in the order of s.
SelectAt(s, S) == [k \in 1..Cardinality(S) |-> s[InOrder(S)[k]]]
=============================================================================
