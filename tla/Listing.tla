------------------------------- MODULE Listing -------------------------------
(***************************************************************************)
(* Lists in the order of the keys they are made from: what SELECT ... ORDER *)
(* BY brings, and what a loop that passes over some entries keeps.         *)
(***************************************************************************)
EXTENDS Integers, Sequences, FiniteSets, Functions

\* The members of D, a finite set of numbers, mapped by f in increasing order
\* (as a set with one element).
InOrder(f, D) ==
    {[i \in 1..Cardinality(D) |-> f[p[i]]] :
        p \in {q \in Bijection(1..Cardinality(D), D) :
                  \A i, j \in 1..Cardinality(D) : i < j => q[i] < q[j]}}
=============================================================================
