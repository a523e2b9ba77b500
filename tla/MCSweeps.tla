------------------------------ MODULE MCSweeps ------------------------------
(* Sweeps on small sets, for TLC.                                            *)
EXTENDS Sweeps
=============================================================================
