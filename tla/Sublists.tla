------------------------------ MODULE Sublists ------------------------------
(***************************************************************************)
(* The part of a sequence that stands at a set of its positions, in order. *)
(* SelectSeq and SetToSortSeq give the same sequences; counting positions  *)
(* instead of running through them leaves nothing to induction.            *)
(***************************************************************************)
EXTENDS Integers, Sequences, FiniteSets

\* The place of position i among those in S, and the k-th of them.
Rank(S, i) == Cardinality({j \in S : j <= i})
Nth(S, k)  == CHOOSE i \in S : Rank(S, i) = k

Sublist(s, S) == [k \in 1..Cardinality(S) |-> s[Nth(S, k)]]
=============================================================================
