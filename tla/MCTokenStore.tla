---------------------------- MODULE MCTokenStore ----------------------------
(* TokenStore with the symmetry of its addresses, names and keys.          *)
EXTENDS TokenStore, TLC

Symmetry ==
  Permutations(Sessions) \cup Permutations(Objects)
  \cup Permutations(Containers) \cup Permutations(Contexts)
=============================================================================
