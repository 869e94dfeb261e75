------------------------------ MODULE MCEcKeys ------------------------------
(* EcKeys with two small curves, the length of the larger in the long form. *)
EXTENDS EcKeys, TLC

CONSTANTS p8, p16

MCSize == p8 :> 1 @@ p16 :> 2

Symmetry == Permutations(Objects)

(* The prefixes that the code spells out for 256, 384 and 521 bits.        *)
ASSUME Prefixes ==
  /\ OctetHeader(1 + 2 * 32, 128) = <<4, 65>>
  /\ OctetHeader(1 + 2 * 48, 128) = <<4, 97>>
  /\ OctetHeader(1 + 2 * 66, 128) = <<4, 129, 133>>
=============================================================================
