------------------------------- MODULE MCCache -------------------------------
(* The cache for TLC.  Keys and callers are interchangeable: no definition   *)
(* of Cache tells one from another, and the order of the Map is history.     *)
EXTENDS Cache, TLC

Interchangeable == Permutations(Keys) \cup Permutations(Callers)
=============================================================================
