---------------------------- MODULE Subsequences ----------------------------
(***************************************************************************)
(* What the filter() of an array keeps: some of its entries, in their      *)
(* order.  It is written without recursion, so that it can be proved about.*)
(***************************************************************************)
EXTENDS Naturals, Sequences, FiniteSets

\* The entries of s at the positions K: the j-th of them is the one with j of K up to it.
Subsequence(s, K) ==
    LET rank(i) == Cardinality({k \in K : k <= i})
    IN [j \in 1 .. Cardinality(K) |-> s[CHOOSE i \in K : rank(i) = j]]
=============================================================================
