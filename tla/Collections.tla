------------------------------ MODULE Collections ------------------------------
(* Operators of the components' own.                                         *)
EXTENDS Naturals, SequencesExt

(* The elements of s that are in T, in their order: s.filter(e => ...).      *)
Kept(s, T) == FoldLeft(LAMBDA r, e : IF e \in T THEN Append(r, e) ELSE r, <<>>, s)

(* The elements of S in the strict order R, a set of pairs: s.sort(...).     *)
Ranked(S, R) ==
  [i \in 1 .. Cardinality(S) |->
     CHOOSE x \in S : Cardinality({y \in S : <<y, x>> \in R}) = i - 1]

(* Numbers in increasing order.                                              *)
Ascending(S) ==
  [i \in 1 .. Cardinality(S) |->
     CHOOSE x \in S : Cardinality({y \in S : y < x}) = i - 1]
================================================================================
