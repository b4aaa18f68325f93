---------------------------- MODULE Subsequences ----------------------------
(* Loops of the code that append to a new list what they keep of another.  *)
EXTENDS Naturals, FiniteSets

(* The number of positions of I up to i: where a loop over I has got to. *)
Rank(I, i) == Cardinality({j \in I : j <= i})

(* The elements of s at the positions I, in order. *)
Sift(s, I) == [k \in 1..Cardinality(I) |-> s[CHOOSE i \in I : Rank(I, i) = k]]
=============================================================================
