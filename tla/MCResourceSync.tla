---------------------------- MODULE MCResourceSync ----------------------------
(***************************************************************************)
(* Finite instances of ResourceSync. Native keys and syncers are           *)
(* interchangeable (row identifiers are not: a new row takes the one that  *)
(* NewRowId chooses); the symmetry is used by the runs that check safety   *)
(* only.                                                                   *)
(***************************************************************************)
EXTENDS ResourceSync, TLC

Symmetry == Permutations(Keys) \cup Permutations(Syncers)

=============================================================================
