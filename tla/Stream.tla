------------------------------- MODULE Stream -------------------------------
(***************************************************************************)
(* What every cryptographic operation of a session promises its caller:    *)
(* a message that is passed in parts goes through as it was passed, and    *)
(* the result is of all of it (C_EncryptInit, C_EncryptUpdate,             *)
(* C_EncryptFinal and their likes, src/src/pkcs11.cpp).  Modules           *)
(* Encryption and Operations are shown to keep this promise.               *)
(*                                                                         *)
(* An implementation may hold back any part of the message until the end.  *)
(* It may break a message off, but only in a call that fails; of an        *)
(* operation that is over nothing is promised.                             *)
(***************************************************************************)
EXTENDS SequencesExt

CONSTANT Parts   \* what the caller can pass in one call

VARIABLES
  open,     \* the promise stands
  given,    \* the message as far as calls have accepted it
  passed,   \* what of it has gone through
  reply     \* what the last call returned

vars == <<open, given, passed, reply>>

Init == ~open

(* C_EncryptInit.                                                          *)
Start ==
  /\ ~open /\ open'
  /\ given' = <<>> /\ passed' = <<>>
  /\ reply' = "ok"

Takes(part) == given' = given \o part

(* C_EncryptUpdate: what has gone through is never taken back and runs     *)
(* never ahead of the message.                                             *)
Continue ==
  /\ open /\ open'
  /\ \E part \in Parts : Takes(part)
  /\ IsPrefix(passed, passed')
  /\ IsPrefix(passed', given')
  /\ reply' = "ok"

(* C_EncryptFinal, or C_Encrypt, which brings the only part along.         *)
Finish ==
  /\ open /\ ~open'
  /\ \E part \in Parts \cup {<<>>} : Takes(part)
  /\ passed' = given'
  /\ reply' = "result"

(* A call that is refused, that only tells a length, or that is for        *)
(* another operation.                                                      *)
Refuse ==
  /\ open /\ open'
  /\ UNCHANGED <<given, passed>>
  /\ reply' \notin {"ok", "result"}

(* A call that fails may take the operation with it.                       *)
Break ==
  /\ open /\ ~open'
  /\ reply' = "error"

Over == ~open /\ ~open'

Next == Start \/ Continue \/ Finish \/ Refuse \/ Break \/ Over

Spec == Init /\ [][Next]_vars
=============================================================================
