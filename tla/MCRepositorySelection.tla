------------------------ MODULE MCRepositorySelection ------------------------
(* RepositorySelection on small sets, for TLC.                              *)
EXTENDS RepositorySelection, TLC
Symmetry == Permutations(Call)
=============================================================================
