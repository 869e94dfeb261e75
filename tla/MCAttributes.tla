---------------------------- MODULE MCAttributes ----------------------------
(* Attributes with symmetric objects and keys.                             *)
EXTENDS Attributes, TLC

Symmetry == Permutations(Objects) \cup Permutations(Keys)
=============================================================================
