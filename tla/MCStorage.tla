------------------------------ MODULE MCStorage ------------------------------
(* Storage maintenance for TLC. *)
EXTENDS StorageInvariant, TLC

Symmetry == Permutations(Volumes)
=============================================================================
