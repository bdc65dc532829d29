------------------------------- MODULE MCOwners -------------------------------
(***************************************************************************)
(* Two accounts, one with a repository, and three logins, one of them the   *)
(* environment's.                                                          *)
(***************************************************************************)
EXTENDS Owners, TLC

Symmetry == Permutations(Logins \ EnvOwners)
=============================================================================
