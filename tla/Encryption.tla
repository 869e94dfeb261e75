------------------------------ MODULE Encryption ------------------------------
(***************************************************************************)
(* One of the two members of a session that encrypt and decrypt            *)
(* (src/src/core/crypto_encrypt.cpp, mscapi/aes.cpp, crypto_encrypt.cpp,   *)
(* osx/crypto/aes.cpp).                                                    *)
(*                                                                         *)
(* The caller cuts its message into parts as it likes; the cipher takes    *)
(* whole blocks.  What is left over waits in a buffer, and a decryption    *)
(* that has to remove a padding holds its last block back.  The cipher     *)
(* itself is left out: `out' is the sequence of input bytes that have gone *)
(* through it.                                                             *)
(*                                                                         *)
(* A refused call changes nothing and is a stuttering step.  Calls whose   *)
(* behaviour the language does not define are not steps: Update and Final  *)
(* of an operation whose Init raised, and Once with a NULL buffer, which   *)
(* writes at NULL plus an offset.                                          *)
(***************************************************************************)
EXTENDS Naturals, Sequences

CONSTANTS
  Backend,    \* the platform library the build is linked with
  Bytes,      \* what messages are made of
  BlockSize,  \* block length of the cipher
  Faults,     \* whether calls to the platform library may fail
  MaxPart,    \* bound: bytes in one part
  MaxBytes    \* bound: bytes one operation is given

ASSUME BackendAssumption == Backend \in {"mscapi", "osx"}
ASSUME BlockSizeAssumption == BlockSize \in Nat \ {0}
ASSUME FaultsAssumption == Faults \in BOOLEAN
ASSUME BoundsAssumption == MaxPart \in Nat /\ MaxBytes \in Nat

(* BLOCK: CKM_AES_ECB and CKM_AES_CBC; PAD: CKM_AES_CBC_PAD.               *)
Blockwise == {"BLOCK", "PAD"}
Mechanisms == Blockwise \cup {"GCM"} \cup {m \in {"OAEP"} : Backend = "mscapi"}

(* The output buffer, against the size the call asks for.  "null": no      *)
(* buffer, with a length that would do.                                    *)
Buffers == {"null", "small", "enough"}

Parts == UNION {[1..n -> Bytes] : n \in 0..MaxPart}

VARIABLES
  type,     \* "encrypt" or "decrypt": which member of the session this is
  op,       \* the operation in it
  given,    \* the parts of the calls of this operation that succeeded
  spoiled,  \* a call of this operation changed it and did not succeed
  reply     \* what the last call returned

vars == <<type, op, given, spoiled, reply>>

(* mech "none": no Init has succeeded.                                     *)
Operation == [mech : Mechanisms \cup {"none"}, active : BOOLEAN,
              buffer : Seq(Bytes), out : Seq(Bytes)]

NoOperation == [mech |-> "none", active |-> FALSE, buffer |-> <<>>, out |-> <<>>]

Init ==
  /\ type \in {"encrypt", "decrypt"}
  /\ op = NoOperation
  /\ given = <<>>
  /\ spoiled = FALSE
  /\ reply = "ok"

-----------------------------------------------------------------------------
(* Starting.  The session puts a new operation in place of the old one.    *)

(* Mutant of Begin: a running operation is replaced as well.               *)
BeginAnyway(o, rv) ==
  /\ op' = o
  /\ given' = <<>>
  /\ spoiled' = FALSE
  /\ reply' = rv
  /\ UNCHANGED type

Begin(o, rv) ==
  /\ ~op.active
  /\ op' = o
  /\ given' = <<>>
  /\ spoiled' = FALSE
  /\ reply' = rv
  /\ UNCHANGED type

(* Mutant of EncryptInit: the buffer of the old operation is kept.         *)
InitKeepsBuffer(m) ==
  Begin([NoOperation EXCEPT !.mech = m, !.active = TRUE, !.buffer = op.buffer], "ok")

EncryptInit(m) == Begin([NoOperation EXCEPT !.mech = m, !.active = TRUE], "ok")

(* Mutant of EncryptInitFails: the old operation is not replaced first.    *)
FailsInOldOperation == Begin([op EXCEPT !.mech = "none"], "error")

(* The key or the parameters do not suit the mechanism.                    *)
EncryptInitFails == Begin(NoOperation, "error")

-----------------------------------------------------------------------------
(* Blocks.                                                                 *)

Outcome(rv, o) == [rv |-> rv, op |-> o]

(* Mutants of Kept: the last block of a decryption is not held back, or a  *)
(* block too little of every part is.                                      *)
KeptRemainder(o, n) == n % BlockSize

KeptNothing(o, n) == 0

(* How many of n bytes wait for the next call.                             *)
Kept(o, n) ==
  IF n % BlockSize = 0 /\ n > 0 /\ o.mech = "PAD" /\ type = "decrypt"
  THEN BlockSize
  ELSE n % BlockSize

(* On mscapi an operation without padding takes whole blocks only, and one *)
(* that holds back a block raises when there is none.                      *)
Accepts(o, part) ==
  Backend = "mscapi" =>
    /\ o.mech = "BLOCK" => Len(part) % BlockSize = 0
    /\ o.mech = "PAD" /\ type = "decrypt" => o.buffer \o part # <<>>

(* The first n bytes of data, and the others.                              *)
Front(data, n) == SubSeq(data, 1, n)
Back(data, n) == SubSeq(data, n + 1, Len(data))

(* The operation after its cipher has taken all the blocks it can.         *)
Fed(o, part) ==
  LET data == o.buffer \o part
      n == Len(data) - Kept(o, Len(data))
  IN  [o EXCEPT !.buffer = Back(data, n), !.out = @ \o Front(data, n)]

(* When the cipher does not run, mscapi has already moved its blocks out   *)
(* of the buffer; CommonCrypto does both or nothing.                       *)
NotRun(o, part) ==
  IF Backend = "mscapi" THEN [o EXCEPT !.buffer = Fed(o, part).buffer] ELSE o

(* Without a block for the cipher there is nothing to write, to measure or *)
(* to fail.                                                                *)
Updates(o, part, buffer) ==
  IF Fed(o, part).out = o.out THEN {Outcome("ok", Fed(o, part))}
  ELSE (CASE buffer = "null" -> {Outcome("length", NotRun(o, part))}
          [] buffer = "small" -> {Outcome("error", NotRun(o, part))}
          [] buffer = "enough" -> {Outcome("ok", Fed(o, part))})
       \cup {r \in {Outcome("error", NotRun(o, part))} : Faults}

(* What is left over can be the last input of the cipher.                  *)
Complete(o) ==
  IF o.mech = "PAD" /\ type = "encrypt" THEN TRUE ELSE Len(o.buffer) % BlockSize = 0

LastWrites(o) == o.mech = "PAD" /\ (type = "encrypt" \/ o.buffer # <<>>)

(* A decryption on mscapi with nothing left over makes no last call.       *)
LastRuns(o) == Backend = "osx" \/ type = "encrypt" \/ o.buffer # <<>>

(* On mscapi the buffer keeps its bytes after the end.                     *)
Finished(o) ==
  [o EXCEPT !.active = FALSE, !.out = @ \o o.buffer,
            !.buffer = IF Backend = "mscapi" THEN @ ELSE <<>>]

(* Mutant of Finals: the last block is left in the buffer.                 *)
FinalForgets(o, buffer) ==
  IF ~Complete(o) THEN {Outcome("error", o)}
  ELSE {Outcome("result", [o EXCEPT !.active = FALSE])}

(* On mscapi a final call that only asks for the length ends the           *)
(* operation.                                                              *)
Finals(o, buffer) ==
  IF ~Complete(o) THEN {Outcome("error", o)}
  ELSE (IF ~LastWrites(o) \/ buffer = "enough" THEN {Outcome("result", Finished(o))}
        ELSE IF buffer = "small" THEN {Outcome("error", o)}
        ELSE {Outcome("length", [o EXCEPT !.active = FALSE])})
       \cup {r \in {Outcome("error", o)} : Faults /\ LastRuns(o)}

-----------------------------------------------------------------------------
(* Calls.                                                                  *)

Succeeds(rv) == rv \in {"ok", "result"}

(* A call with input part ends with outcome r.                             *)
Return(r, part) ==
  /\ op' = r.op
  /\ given' = IF Succeeds(r.rv) THEN given \o part ELSE given
  /\ spoiled' = (spoiled \/ (~Succeeds(r.rv) /\ <<r.op.buffer, r.op.out>> # <<op.buffer, op.out>>))
  /\ reply' = r.rv
  /\ UNCHANGED type

InBounds(part) ==
  /\ Len(given) + Len(part) <= MaxBytes
  /\ Len(op.out) + Len(op.buffer) + Len(part) <= MaxBytes

(* On osx the functions of the base class refuse an operation that is not  *)
(* active and a NULL buffer; mscapi does not call them.                    *)
Callable(buffer) ==
  /\ op.mech \in Blockwise
  /\ Backend = "osx" => op.active /\ buffer # "null"

Update(part, buffer) ==
  /\ Callable(buffer)
  /\ InBounds(part)
  /\ Accepts(op, part)
  /\ \E r \in Updates(op, part, buffer) : Return(r, part)

Final(buffer) ==
  /\ Callable(buffer)
  /\ InBounds(<<>>)
  /\ Len(op.out) + 2 * Len(op.buffer) <= MaxBytes
  /\ \E r \in Finals(op, buffer) : Return(r, <<>>)

(* CryptoEncrypt::Once is an Update and a Final that write one behind the  *)
(* other; the buffer may be too small for both, or for the last only.      *)
Once(part, first, last) ==
  /\ Callable(first) /\ first # "null" /\ last # "null"
  /\ InBounds(part)
  /\ Accepts(op, part)
  /\ \E u \in Updates(op, part, first) :
       IF u.rv = "ok"
       THEN \E r \in Finals(u.op, last) : Return(r, part)
       ELSE Return(u, part)

Whole(data) == [op EXCEPT !.active = FALSE, !.out = @ \o data]

Ended == [op EXCEPT !.active = FALSE]

(* The osx classes of CKM_AES_GCM, like those of mscapi, do not look at    *)
(* active.                                                                 *)
GcmOnce(data, buffer) ==
  /\ op.mech = "GCM"
  /\ InBounds(data)
  /\ \/ buffer = "null" /\ Return(Outcome("length", op), data)
     \/ buffer = "small" /\ Return(Outcome("error", op), data)
     \/ buffer = "enough" /\ Return(Outcome("result", Whole(data)), data)
     \/ Faults /\ Return(Outcome("error", Ended), data)

(* A call that only asks for the length ends the operation; of the         *)
(* failures of NCryptEncrypt and NCryptDecrypt only some do.               *)
OaepOnce(data, buffer) ==
  /\ op.mech = "OAEP" /\ op.active
  /\ InBounds(data)
  /\ \/ buffer = "null" /\ Return(Outcome("length", Ended), data)
     \/ buffer = "small" /\ Return(Outcome("error", op), data)
     \/ buffer = "enough" /\ Return(Outcome("result", Whole(data)), data)
     \/ Faults /\ \E o \in {op, Ended} : Return(Outcome("error", o), data)

(* The multiple-part functions are always refused, but this one ends the   *)
(* operation.                                                              *)
OaepFinal ==
  /\ op.mech = "OAEP"
  /\ Return(Outcome("error", Ended), <<>>)

-----------------------------------------------------------------------------
Next ==
  \/ \E m \in Mechanisms : EncryptInit(m)
  \/ EncryptInitFails
  \/ OaepFinal
  \/ \E buffer \in Buffers :
       \/ Final(buffer)
       \/ \E part \in Parts :
            \/ Update(part, buffer)
            \/ GcmOnce(part, buffer)
            \/ OaepOnce(part, buffer)
            \/ \E last \in Buffers : Once(part, buffer, last)

Spec == Init /\ [][Next]_vars

-----------------------------------------------------------------------------
(* Every variable holds a value of its type, and a failed Init leaves      *)
(* nothing of the operation before it.                                     *)
TypeOK ==
  /\ type \in {"encrypt", "decrypt"}
  /\ op \in Operation
  /\ given \in Seq(Bytes)
  /\ spoiled \in BOOLEAN
  /\ reply \in {"ok", "length", "error", "result"}
  /\ op.mech = "none" => op = NoOperation

(* However the caller cuts its message, what has gone through the cipher   *)
(* and what waits are the message, every byte once and in order, as long   *)
(* as no call that failed has changed the operation.                       *)
StreamKept == op.active /\ ~spoiled => op.out \o op.buffer = given

(* The cipher of a running operation has only been given whole blocks, and *)
(* less than a block waits, or one block of a decryption.  This holds even *)
(* when failed calls have lost bytes.                                      *)
WholeBlocks ==
  op.active /\ op.mech \in Blockwise =>
    /\ Len(op.out) % BlockSize = 0
    /\ Len(op.buffer) < BlockSize
         \/ (Len(op.buffer) = BlockSize /\ type = "decrypt" /\ op.mech = "PAD")

(* A running decryption that has to remove a padding has something to      *)
(* remove it from, as soon as it has been given anything.                  *)
LastBlockHeld ==
  op.active /\ op.mech = "PAD" /\ type = "decrypt" /\ given # <<>>
    => op.buffer # <<>>

(* When an operation ends with a result, everything its caller has given   *)
(* has gone through the cipher.                                            *)
ResultCovers ==
  [][reply' = "result" /\ op.active /\ ~spoiled => op'.out = given']_vars

(* "C_EncryptUpdate continues a multiple-part encryption operation"        *)
(* (pkcs11.cpp:691): also after a call that only told a length or was      *)
(* answered with CKR_BUFFER_TOO_SMALL, which its caller has to repeat.     *)
StreamKeptOnRetry == op.active => op.out \o op.buffer = given

(* "C_EncryptFinal finishes a multiple-part encryption operation"          *)
(* (pkcs11.cpp:718): a call that does not fail and leaves the operation    *)
(* over has put through all its caller has given, also when the caller has *)
(* only asked for the length of the "last c-text".                         *)
FinishDelivers ==
  [][op.active /\ ~op'.active /\ ~spoiled /\ reply' # "error" => op'.out = given']_vars

(* Both members of a session keep the promise of module Stream: the cipher *)
(* gets the message of the caller, bytes held back or not, as long as no   *)
(* call that failed has changed the operation.                             *)
Pipe == INSTANCE Stream WITH open <- op.active /\ ~spoiled, passed <- op.out

(* The calls that break it with CKR_OK: asked for a length, mscapi takes   *)
(* bytes out of the buffer of Update and ends an operation in Final and in *)
(* RsaOAEPEncrypt::Once.                                                   *)
AskedToDeath ==
  /\ Backend = "mscapi" /\ reply' = "length"
  /\ Final("null") \/ \E part \in Parts : Update(part, "null") \/ OaepOnce(part, "null")

PipeSpec == Pipe!Init /\ [][Pipe!Next \/ AskedToDeath]_(Pipe!vars)
=============================================================================
