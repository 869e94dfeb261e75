----------------------------- MODULE MCCryptoki -----------------------------
(***************************************************************************)
(* Instances of Cryptoki for TLC.  One template; an object matches it,     *)
(* differs from it, or cannot be compared with it.  C_SetAttributeValue    *)
(* moves an object between any two: it changes a value, or makes the value *)
(* sensitive and unreadable, or readable again.                            *)
(***************************************************************************)
EXTENDS Cryptoki, TLC

MCKinds == {"hit", "miss", "bad"}
MCTemplates == {"template"}
MCOutcome ==
  [k \in MCKinds |-> [t \in MCTemplates |->
     CASE k = "hit" -> "match" [] k = "miss" -> "differ" [] OTHER -> "throws"]]
MCSettable == MCKinds \X MCKinds

(* A cast that keeps all addresses apart, and one that gives two objects   *)
(* one handle.                                                             *)
MCHandleOf == [a \in SessionIds \cup ObjectIds |-> a]

MCTruncated ==
  LET first == CHOOSE o \in ObjectIds : TRUE
      second == CHOOSE o \in ObjectIds : o # first
  IN  [MCHandleOf EXCEPT ![second] = first]

Symmetry ==
  Permutations(Slots) \cup Permutations(SessionIds) \cup Permutations(ObjectIds)
=============================================================================
