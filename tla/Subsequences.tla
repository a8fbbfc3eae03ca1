---------------------------- MODULE Subsequences ----------------------------
(***************************************************************************)
(* What is left of a sequence when it is filtered, by position.  It is     *)
(* SelectSeq without its recursion, so that proofs can look inside.        *)
(***************************************************************************)
EXTENDS Integers, Sequences, FiniteSets

\* How many of the positions I are no later than i.
RankIn(I, i) == Cardinality({k \in I : k <= i})

\* The elements of s at the positions I, in order.
KeepAt(s, I) == [j \in 1 .. Cardinality(I) |-> s[CHOOSE i \in I : RankIn(I, i) = j]]
=============================================================================
