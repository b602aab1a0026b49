------------------------------ MODULE MCViewer ------------------------------
(* Small instances of Viewer for TLC.                                      *)
EXTENDS Viewer, TLC

MCSymmetry == Permutations(Views)
=============================================================================
