----------------------------- MODULE Operations -----------------------------
(***************************************************************************)
(* The digest, signature and verification operations of one session        *)
(* (src/src/core/crypto_digest.cpp, crypto_sign.cpp and the classes the    *)
(* backends derive from them).                                             *)
(*                                                                         *)
(* A signature or verification operation owns a digest operation that      *)
(* absorbs its data.  Single-part functions are not operations of their    *)
(* own: Once is an Update followed by a Final, so a Once that cannot       *)
(* finish has already absorbed its data.                                   *)
(*                                                                         *)
(* A call that is refused before it touches anything (no operation, a NULL *)
(* pointer, an unknown mechanism) is a stuttering step.  C_Sign without    *)
(* data is the same step as C_SignFinal.  C_DigestKey is always refused.   *)
(***************************************************************************)
EXTENDS Naturals, Sequences

CONSTANTS
  Backend,   \* the platform library the build is linked with
  Data,      \* parts of messages
  Faults,    \* whether calls to the platform library may fail
  MaxParts   \* bound: parts one operation absorbs

ASSUME BackendAssumption == Backend \in {"mscapi", "osx"}
ASSUME FaultsAssumption == Faults \in BOOLEAN
ASSUME MaxPartsAssumption == MaxParts \in Nat

Kinds == {"digest", "sign", "verify"}

(* The output buffer of a call, against the size the code asks for; for a  *)
(* verification, the signature: "small" is one of the wrong length.        *)
Buffers == {"null", "small", "enough"}

VARIABLES
  op,          \* kind -> the operation of the session
  decrypting,  \* decrypt->IsActive()
  parts,       \* kind -> what the caller passed to Update since Init
  partial,     \* kind -> a Once of this operation absorbed data, did not finish
  pss,         \* the signature operation is a mscapi RsaPSSSign with its key
  reply        \* what the last call returned

vars == <<op, decrypting, parts, partial, pss, reply>>

(* active: CryptoSign::active, CryptoDigest::active; alive and data: the   *)
(* digest inside.  For "digest" the two flags are one.                     *)
Operation == [active : BOOLEAN, alive : BOOLEAN, data : Seq(Data)]

Idle == [active |-> FALSE, alive |-> FALSE, data |-> <<>>]
Started == [active |-> TRUE, alive |-> TRUE, data |-> <<>>]
(* The digest inside is gone, the operation around it does not know.       *)
Wedged == [active |-> TRUE, alive |-> FALSE, data |-> <<>>]

(* covers: the data under the result; asked: the data the caller meant.    *)
Reply == [kind : Kinds, rv : {"ok", "length", "error", "result"},
          covers : Seq(Data), asked : Seq(Data)]

Plain(k, rv) == [kind |-> k, rv |-> rv, covers |-> <<>>, asked |-> <<>>]

Answer(k, rv, covers, asked) ==
  IF rv = "result" THEN [kind |-> k, rv |-> rv, covers |-> covers, asked |-> asked]
                   ELSE Plain(k, rv)

Init ==
  /\ op = [k \in Kinds |-> Idle]
  /\ decrypting = FALSE
  /\ parts = [k \in Kinds |-> <<>>]
  /\ partial = [k \in Kinds |-> FALSE]
  /\ pss = FALSE
  /\ reply = Plain("digest", "ok")

-----------------------------------------------------------------------------
(* Starting an operation.                                                  *)

(* An Init that raises before it has a key leaves none to finish with.     *)
Fresh(k, o, rv) ==
  /\ op' = [op EXCEPT ![k] = o]
  /\ parts' = [parts EXCEPT ![k] = <<>>]
  /\ partial' = [partial EXCEPT ![k] = FALSE]
  /\ pss' \in IF k = "sign" THEN {FALSE, Backend = "mscapi" /\ (rv = "ok" \/ Faults)}
                           ELSE {pss}
  /\ reply' = Plain(k, rv)
  /\ UNCHANGED decrypting

DigestInit ==
  /\ ~op["digest"].active
  /\ Fresh("digest", Started, "ok")

(* Mutant of Busy: the wrong operation is asked on both platforms.         *)
BusyDecrypting(k) == decrypting

(* The operation SignInit and VerifyInit ask whether it is active: on osx  *)
(* both ask the decryption.                                                *)
Busy(k) == IF Backend = "osx" THEN decrypting ELSE op[k].active

(* Mutant of SignInit: the old operation is started again as it is.        *)
SignInitAgain(k) ==
  /\ k # "digest"
  /\ ~Busy(k)
  /\ Fresh(k, [Started EXCEPT !.data = op[k].data], "ok")

(* SignInit and VerifyInit put a new operation in the session, then start  *)
(* it.                                                                     *)
SignInit(k) ==
  /\ k # "digest"
  /\ ~Busy(k)
  /\ Fresh(k, Started, "ok")

(* The key is unknown or not of the mechanism: the new operation stays in  *)
(* the session, not active.  On osx its digest may have been started.      *)
SignInitFails(k) ==
  /\ k # "digest"
  /\ ~Busy(k)
  /\ \E alive \in {FALSE, Backend = "osx"} :
       Fresh(k, [active |-> FALSE, alive |-> alive, data |-> <<>>], "error")

(* The decryption of the session, as far as the other operations see it.   *)
DecryptInit ==
  /\ ~decrypting
  /\ decrypting' = TRUE
  /\ UNCHANGED <<op, parts, partial, pss, reply>>

DecryptEnds ==
  /\ decrypting
  /\ decrypting' = FALSE
  /\ UNCHANGED <<op, parts, partial, pss, reply>>

-----------------------------------------------------------------------------
(* Absorbing and finishing.                                                *)

Running(k) == op[k].active /\ op[k].alive

Absorb(o, d) == [o EXCEPT !.data = Append(@, d)]

Update(k, d) ==
  /\ Running(k)
  /\ Len(op[k].data) < MaxParts
  /\ op' = [op EXCEPT ![k] = Absorb(@, d)]
  /\ parts' = [parts EXCEPT ![k] = Append(@, d)]
  /\ reply' = Plain(k, "ok")
  /\ UNCHANGED <<decrypting, partial, pss>>

Outcome(rv, o) == [rv |-> rv, op |-> o]

(* Mutants of DigestFinal: the digest is not disposed of with its result,  *)
(* or is restarted when the buffer turns out too small.                    *)
DigestNotDisposed(o, buffer) ==
  CASE buffer = "null" -> {Outcome("length", o)}
    [] buffer = "small" -> {Outcome("error", o)}
    [] buffer = "enough" -> {Outcome("result", [Idle EXCEPT !.alive = TRUE])}

DigestRestarts(o, buffer) ==
  CASE buffer = "null" -> {Outcome("length", o)}
    [] buffer = "small" -> {Outcome("error", Started)}
    [] buffer = "enough" -> {Outcome("result", Idle)}

(* What CryptoDigest::Final can make of a running digest o.  A failing     *)
(* BCryptGetProperty or BCryptFinishHash disposes of the digest.  On osx a *)
(* call that asks for the length ends the operation.                       *)
DigestFinal(o, buffer) ==
  (CASE buffer = "null" -> {Outcome("length", IF Backend = "osx" THEN Idle ELSE o)}
     [] buffer = "small" -> {Outcome("error", o)}
     [] buffer = "enough" -> {Outcome("result", Idle)})
  \cup {Outcome("error", Idle) : f \in {g \in {Faults} : g /\ Backend = "mscapi"}}

(* A fault before the digest is finished keeps the operation, one while it *)
(* is being finished (mscapi) or between its end and that of the operation *)
(* (osx, EcDsaSign) wedges it, and a failing signature primitive ends it.  *)
SignFaults(k, o) ==
  {r \in {Outcome("error", o), Outcome("error", Wedged), Outcome("error", Idle)} :
     /\ Faults
     /\ r.op = o => Backend = "osx" \/ k = "sign"
     /\ r.op = Wedged => Backend = "mscapi" \/ k = "verify"}

(* Mutant of SignFinal: the result does not end the operation.             *)
SignStaysActive(o, buffer) ==
  CASE buffer = "null" -> {Outcome("length", o)}
    [] buffer = "small" -> {Outcome("error", o)}
    [] buffer = "enough" -> {Outcome("result", Started)}

(* What CryptoSign::Final, for signatures, can make of o.                  *)
SignFinal(o, buffer) ==
  (CASE buffer = "null" -> {Outcome("length", o)}
     [] buffer = "small" -> {Outcome("error", o)}
     [] buffer = "enough" -> {Outcome("result", Idle)} \cup SignFaults("sign", o))

(* For verifications: a signature of the wrong length is refused by        *)
(* EcDsaSign on osx, and simply does not verify elsewhere.                 *)
VerifyFinal(o, buffer) ==
  (CASE buffer = "null" -> {Outcome("error", o)}
     [] buffer = "small" -> {Outcome("result", Idle)} \cup SignFaults("verify", o)
                            \cup {r \in {Outcome("error", o)} : Backend = "osx"}
     [] buffer = "enough" -> {Outcome("result", Idle)} \cup SignFaults("verify", o))

Finals(k, o, buffer) ==
  CASE k = "digest" -> DigestFinal(o, buffer)
    [] k = "sign" -> SignFinal(o, buffer)
    [] k = "verify" -> VerifyFinal(o, buffer)

(* A call ends with outcome r, having absorbed fed; asked is what the      *)
(* caller meant the result to cover.                                       *)
Return(k, r, fed, asked) ==
  /\ op' = [op EXCEPT ![k] = r.op]
  /\ parts' = [parts EXCEPT ![k] = IF r.op.active THEN @ ELSE <<>>]
  /\ partial' = [partial EXCEPT ![k] = r.op.active /\ (@ \/ fed # op[k])]
  /\ reply' = Answer(k, r.rv, fed.data, asked)
  /\ UNCHANGED <<decrypting, pss>>

Final(k, buffer) ==
  /\ Running(k)
  /\ \E r \in Finals(k, op[k], buffer) : Return(k, r, op[k], parts[k])

(* Before they come to the digest signatures on mscapi tell their length,  *)
(* and RsaPSSSign::Final does not ask whether the operation is active.     *)
FinalUnasked ==
  /\ ~op["sign"].alive
  /\ op["sign"].active \/ pss
  /\ reply' = Plain("sign", "length")
  /\ UNCHANGED <<op, decrypting, parts, partial, pss>>

(* Mutants of Fed: the digest absorbs even when it is only asked for its   *)
(* length, or not at all.                                                  *)
FedAlways(k, d, buffer) == Absorb(op[k], d)

FedNoDigest(k, d, buffer) ==
  IF k = "digest" THEN op[k] ELSE Absorb(op[k], d)

(* CryptoDigest::Once absorbs its data unless it is asked for the length,  *)
(* CryptoSign::Once always.                                                *)
Fed(k, d, buffer) ==
  IF k = "digest" /\ buffer = "null" THEN op[k] ELSE Absorb(op[k], d)

Once(k, d, buffer) ==
  /\ Running(k)
  /\ Len(op[k].data) < MaxParts
  /\ \E r \in Finals(k, Fed(k, d, buffer), buffer) :
       Return(k, r, Fed(k, d, buffer), Append(parts[k], d))

-----------------------------------------------------------------------------
(* The calls a running operation answers, in one part or in several.       *)
Served(k) ==
  \/ \E d \in Data : Update(k, d)
  \/ \E buffer \in Buffers :
       Final(k, buffer) \/ \E d \in Data : Once(k, d, buffer)

DigestCall == DigestInit \/ Served("digest")

SignCall ==
  SignInit("sign") \/ SignInitFails("sign") \/ Served("sign") \/ FinalUnasked

VerifyCall == SignInit("verify") \/ SignInitFails("verify") \/ Served("verify")

DecryptCall == DecryptInit \/ DecryptEnds

Next == DigestCall \/ SignCall \/ VerifyCall \/ DecryptCall

Spec == Init /\ [][Next]_vars

(* A caller that has started an operation asks for its result, with a      *)
(* buffer that is large enough, until it gets one: the platform library    *)
(* does not fail every time.                                               *)
Answers(k) == Final(k, "enough") /\ reply'.rv = "result"

FairSpec == Spec /\ \A k \in Kinds : WF_vars(Answers(k))

-----------------------------------------------------------------------------
(* Every variable holds a value of its type, and a digest operation is     *)
(* active exactly as long as it exists.                                    *)
TypeOK ==
  /\ op \in [Kinds -> Operation]
  /\ decrypting \in BOOLEAN
  /\ parts \in [Kinds -> Seq(Data)]
  /\ partial \in [Kinds -> BOOLEAN]
  /\ pss \in BOOLEAN
  /\ reply \in Reply
  /\ op["digest"].active = op["digest"].alive

(* A running operation has absorbed what the caller passed to Update, part *)
(* by part, unless one of its single-part calls absorbed data and did not  *)
(* finish.                                                                 *)
AbsorbedIsPassed ==
  \A k \in Kinds : Running(k) /\ ~partial[k] => op[k].data = parts[k]

(* A result of an operation none of whose calls had to be repeated covers  *)
(* exactly the data of the caller.                                         *)
FirstResultCovers ==
  [][\A k \in Kinds :
       reply'.kind = k /\ reply'.rv = "result" /\ op[k].active /\ ~partial[k]
         => reply'.covers = reply'.asked]_vars

(* "C_Sign signs (encrypts with private key) data in a single part, where  *)
(* the signature is (will be) an appendix to the data" (pkcs11.cpp:958):   *)
(* also when the caller first asks for the length, as its parameter        *)
(* pulSignatureLen "gets signature length" invites it to.                  *)
ResultCoversData == reply.rv = "result" => reply.covers = reply.asked

(* A call that only tells a length leaves the operation as it was, a       *)
(* single-part digest included, so the caller can come back with a buffer  *)
(* ("C_DigestFinal finishes a multiple-part message-digesting operation",  *)
(* pkcs11.cpp:915).                                                        *)
LengthOnly(k) ==
  Final(k, "null") \/ (k = "digest" /\ \E d \in Data : Once(k, d, "null"))

LengthKeepsOperation ==
  [][\A k \in Kinds : LengthOnly(k) /\ reply'.rv = "length" => op'[k] = op[k]]_vars

(* What the caller has passed to an operation is only dropped by a call    *)
(* that answers for that operation, with the result or an error: neither   *)
(* another start nor a request for the length throws it away.              *)
DroppedWithAnswer ==
  [][\A k \in Kinds :
       parts[k] # <<>> /\ parts'[k] = <<>>
         => reply'.kind = k /\ reply'.rv \in {"result", "error"}]_vars

(* A caller that asks for the result of an operation gets rid of the       *)
(* operation, unless it is wedged: its digest is gone and it stays active  *)
(* for ever, so that no other can be started.                              *)
OperationEnds ==
  \A k \in Kinds : Running(k) ~> (~op[k].active \/ op[k] = Wedged)

(* Each operation keeps the promise of module Stream, as long as none of   *)
(* its single-part calls has absorbed data without finishing.  Its reply   *)
(* is that of the last call, if the call was for this operation.           *)
Single == {<<d>> : d \in Data}
Intact(k) == Running(k) /\ ~partial[k]
Answered(k) == reply.kind = k /\ reply.rv = "result"
Asked(k) == IF Answered(k) THEN reply.asked ELSE parts[k]
Absorbed(k) == IF Answered(k) THEN reply.covers ELSE op[k].data
Told(k) == IF reply.kind = k THEN reply.rv ELSE "other"

Digests ==
  INSTANCE Stream WITH Parts <- Single, open <- Intact("digest"), given <- Asked("digest"),
                       passed <- Absorbed("digest"), reply <- Told("digest")

Signatures ==
  INSTANCE Stream WITH Parts <- Single, open <- Intact("sign"), given <- Asked("sign"),
                       passed <- Absorbed("sign"), reply <- Told("sign")

Verifications ==
  INSTANCE Stream WITH Parts <- Single, open <- Intact("verify"), given <- Asked("verify"),
                       passed <- Absorbed("verify"), reply <- Told("verify")

(* One call breaks it with CKR_OK: a C_Sign that only asks for the length  *)
(* has its data absorbed, and absorbs it again when it is repeated.        *)
AskedInOnce == \E d \in Data : Once("sign", d, "null")

AbsorbedSpec ==
  /\ Digests!Spec
  /\ Signatures!Init /\ [][Signatures!Next \/ AskedInOnce]_(Signatures!vars)
  /\ Verifications!Spec
=============================================================================
