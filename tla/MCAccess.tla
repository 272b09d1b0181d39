------------------------------- MODULE MCAccess -------------------------------
(* Instances for TLC of Auth: the roles and hierarchies given to builders.   *)
EXTENDS Auth, TLC

CONSTANTS Admin, Editor, Viewer, Read, Write

Defined(name, permissions, inherits) ==
  [name |-> name, permissions |-> permissions, inherits |-> inherits]

(* A chain that names parents before they are defined, and a cycle.          *)
ChainAndCycle ==
  {<<Defined(Admin, {Write}, {Editor}), Defined(Editor, {Read}, {Viewer}),
     Defined(Viewer, {}, {})>>,
   <<Defined(Admin, {Write}, {Editor}), Defined(Editor, {}, {Admin})>>}

(* Conditions are interchangeable.                                           *)
Interchangeable == Permutations(Conditions)
=============================================================================
