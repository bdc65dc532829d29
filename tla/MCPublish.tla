------------------------------ MODULE MCPublish ------------------------------
(* Symmetry for Publish: findings and targets are interchangeable.           *)
EXTENDS Publish, TLC

Symmetry == Permutations(Findings) \cup Permutations(Targets)
=============================================================================
