---------------------------- MODULE MCConflicts -----------------------------
(* Conflicts on small sets, for TLC.                                         *)
EXTENDS Conflicts, TLC

ASSUME ConflictsConstants

Symmetry == Permutations(Run)
=============================================================================
