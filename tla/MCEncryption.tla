----------------------------- MODULE MCEncryption -----------------------------
(* Encryption with symmetric bytes.                                        *)
EXTENDS Encryption, TLC

Symmetry == Permutations(Bytes)
=============================================================================
