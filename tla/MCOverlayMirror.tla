-------------------------- MODULE MCOverlayMirror ---------------------------
(* Small instances of OverlayMirror for TLC.                               *)
EXTENDS OverlayMirror, TLC

Symmetry == Permutations(Files) \cup Permutations(Contents)
=============================================================================
