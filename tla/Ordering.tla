------------------------------ MODULE Ordering ------------------------------
(***************************************************************************)
(* Finite sets of numbers in increasing order, and the subsequence of a    *)
(* sequence at a set of positions.  The program walks query results in     *)
(* document-key order and filters arrays; both are one of these two        *)
(* operators.  They are written with ranks and not by recursion, so that   *)
(* the proof modules can reason about them.                                *)
(***************************************************************************)
EXTENDS Integers, FiniteSets, Sequences

\* How many elements of K precede k.
Rank(K, k) == Cardinality({j \in K : j < k})

\* The elements of the finite set K of numbers, smallest first.
Ascending(K) == [i \in 1 .. Cardinality(K) |->
                    CHOOSE k \in K : Rank(K, k) = i - 1]

\* The largest element of a non-empty finite set of numbers.
Greatest(K) == Ascending(K)[Cardinality(K)]

\* The elements of s at the positions in K, in the order they have in s.
Subsequence(s, K) == [i \in 1 .. Cardinality(K) |-> s[Ascending(K)[i]]]
=============================================================================
