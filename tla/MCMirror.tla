------------------------------ MODULE MCMirror ------------------------------
(***************************************************************************)
(* Mirror for TLC: requests are interchangeable, and so are the contents.  *)
(***************************************************************************)
EXTENDS Mirror, TLC

Symmetry == Permutations(Writers) \cup Permutations(Contents)
=============================================================================
