---------------------------- MODULE MCOperations ----------------------------
(***************************************************************************)
(* Instances of Operations for TLC: the .cfg files give its constants      *)
(* their values.                                                           *)
(***************************************************************************)
EXTENDS Operations
=============================================================================
