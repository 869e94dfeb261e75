-------------------------- MODULE EncryptionProofs --------------------------
(***************************************************************************)
(* Proofs about module Encryption.  Cutting data in two and putting the    *)
(* pieces together again gives the data back, wherever it is cut: hence    *)
(* feeding an operation moves bytes from one sequence to the other and     *)
(* neither loses nor reorders any.                                         *)
(***************************************************************************)
EXTENDS Encryption, SequenceTheorems, TLAPS

(* Kept never keeps more than there is, and something if a padding may be  *)
(* at its end.                                                             *)
LEMMA KeptBounds ==
  ASSUME NEW o, NEW n \in Nat
  PROVE  /\ Kept(o, n) \in 0..n
         /\ n > 0 /\ o.mech = "PAD" /\ type = "decrypt" => Kept(o, n) > 0
<1>1. BlockSize \in Nat /\ BlockSize > 0
  BY BlockSizeAssumption
<1>2. n % BlockSize \in 0..n
  BY <1>1, SMTT(30)
<1>3. n % BlockSize = 0 /\ n > 0 => BlockSize <= n
  BY <1>1, SMTT(30)
<1> QED
  BY <1>1, <1>2, <1>3 DEF Kept

(* Facts of SequenceTheorems about sequences of bytes.                     *)
LEMMA Associative ==
  ASSUME NEW s \in Seq(Bytes), NEW t \in Seq(Bytes), NEW u \in Seq(Bytes)
  PROVE  (s \o t) \o u = s \o (t \o u)
OBVIOUS

LEMMA Adjacent ==
  ASSUME NEW s \in Seq(Bytes), NEW m \in 1..(Len(s) + 1),
         NEW k \in (m - 1)..Len(s), NEW n \in k..Len(s)
  PROVE  SubSeq(s, m, k) \o SubSeq(s, k + 1, n) = SubSeq(s, m, n)
  BY ConcatAdjacentSubSeq, Zenon

(* Front and Back cut a sequence in two.                                   *)
LEMMA CutAndJoin ==
  ASSUME NEW data \in Seq(Bytes), NEW n \in 0..Len(data)
  PROVE  /\ Front(data, n) \in Seq(Bytes)
         /\ Back(data, n) \in Seq(Bytes)
         /\ Front(data, n) \o Back(data, n) = data
<1>1. Front(data, n) \in Seq(Bytes)
  <2>1. \A i \in 1..n : data[i] \in Bytes
    BY ElementOfSeq
  <2> QED
    BY <2>1, SubSeqProperties DEF Front
<1>2. Back(data, n) \in Seq(Bytes)
  <2>1. \A i \in (n + 1)..Len(data) : data[i] \in Bytes
    BY ElementOfSeq
  <2> QED
    BY <2>1, SubSeqProperties, LenProperties DEF Back
<1>3. Front(data, n) \o Back(data, n) = SubSeq(data, 1, Len(data))
  <2>1. /\ 1 \in 1..(Len(data) + 1)
        /\ n \in (1 - 1)..Len(data)
        /\ Len(data) \in n..Len(data)
    OBVIOUS
  <2> QED
    BY <2>1, Adjacent, Zenon DEF Front, Back
<1> QED
  BY <1>1, <1>2, <1>3, SubSeqFull

(* Feeding an operation keeps the stream, and holds a block back that may  *)
(* end in a padding.                                                       *)
LEMMA FedMoves ==
  ASSUME NEW o \in Operation, NEW part \in Seq(Bytes)
  PROVE  /\ Fed(o, part) \in Operation
         /\ Fed(o, part).mech = o.mech
         /\ (Fed(o, part).active => o.active)
         /\ Fed(o, part).out \o Fed(o, part).buffer = (o.out \o o.buffer) \o part
         /\ o.mech = "PAD" /\ type = "decrypt" /\ o.buffer \o part # <<>>
              => Fed(o, part).buffer # <<>>
<1> DEFINE data == o.buffer \o part
           n == Len(data) - Kept(o, Len(data))
<1>1. o.buffer \in Seq(Bytes) /\ o.out \in Seq(Bytes)
  BY DEF Operation
<1>2. data \in Seq(Bytes) /\ Len(data) \in Nat
  BY <1>1
<1>3. Kept(o, Len(data)) \in 0..Len(data)
  BY <1>2, KeptBounds
<1>4. n \in 0..Len(data)
  BY <1>2, <1>3
<1>5. /\ Front(data, n) \in Seq(Bytes)
      /\ Back(data, n) \in Seq(Bytes)
      /\ Front(data, n) \o Back(data, n) = data
  BY <1>2, <1>4, CutAndJoin
<1>6. Fed(o, part) = [o EXCEPT !.buffer = Back(data, n), !.out = o.out \o Front(data, n)]
  BY DEF Fed
<1>7. o.mech = "PAD" /\ type = "decrypt" /\ data # <<>> => Back(data, n) # <<>>
  <2> SUFFICES ASSUME o.mech = "PAD", type = "decrypt", data # <<>>
               PROVE  Back(data, n) # <<>>
    OBVIOUS
  <2>1. Len(data) > 0
    BY <1>2, EmptySeq
  <2>2. Kept(o, Len(data)) > 0
    BY <1>2, <2>1, KeptBounds
  <2>3. n < Len(data)
    BY <1>2, <1>3, <2>2
  <2>4. Front(data, n) # data
    BY <1>2, <1>4, <2>3 DEF Front
  <2> HIDE DEF data, n
  <2> QED
    BY <1>5, <2>4, ConcatEmptySeq
<1>8. (o.out \o Front(data, n)) \o Back(data, n) = (o.out \o o.buffer) \o part
  <2>1. (o.out \o Front(data, n)) \o Back(data, n) = o.out \o data
    <3>1. (o.out \o Front(data, n)) \o Back(data, n) = o.out \o (Front(data, n) \o Back(data, n))
      <4> HIDE DEF data, n
      <4> QED
        BY <1>1, <1>5, Associative
    <3> QED
      BY <1>5, <3>1
  <2>2. (o.out \o o.buffer) \o part = o.out \o (o.buffer \o part)
    BY <1>1, Associative, Zenon
  <2> QED
    BY <2>1, <2>2, Zenon
<1>9. o.out \o Front(data, n) \in Seq(Bytes)
  BY <1>1, <1>5, ConcatProperties
<1> HIDE DEF data, n
<1>10. Fed(o, part).buffer = Back(data, n) /\ Fed(o, part).out = o.out \o Front(data, n)
  BY <1>6 DEF Operation
<1>11. data = o.buffer \o part
  BY DEF data
<1> QED
  BY <1>5, <1>6, <1>7, <1>8, <1>9, <1>10, <1>11 DEF Operation

-----------------------------------------------------------------------------
(* An operation that is not fed part by part has nothing in its buffer.    *)
WholeUnbuffered == op.mech \notin Blockwise => op.buffer = <<>>

Inv == TypeOK /\ StreamKept /\ LastBlockHeld /\ WholeUnbuffered

Replies == {"ok", "length", "error", "result"}

(* What an outcome r of a call on a running operation with input part has  *)
(* to be, for the stream to be kept.                                       *)
Fair(r, part) ==
  /\ r.rv \in Replies
  /\ r.op \in Operation
  /\ r.op.mech = op.mech
  /\ r.op.active => op.active
  /\ Succeeds(r.rv) => r.op.out \o r.op.buffer = (op.out \o op.buffer) \o part \/ ~r.op.active
  /\ r.op.mech = "PAD" /\ type = "decrypt" /\ r.op.active =>
       r.op.buffer # <<>> \/ (op.buffer = <<>> /\ (Succeeds(r.rv) => part = <<>>))
  /\ r.op.mech \notin Blockwise => r.op.buffer = <<>>

LEMMA ReturnInv ==
  ASSUME Inv, NEW part \in Seq(Bytes), NEW r, op.mech # "none",
         Fair(r, part), Return(r, part)
  PROVE  Inv'
<1>0. given \in Seq(Bytes) /\ spoiled \in BOOLEAN
  BY DEF Inv, TypeOK
<1>1. TypeOK'
  <2>1. given' \in Seq(Bytes)
    BY <1>0 DEF Return
  <2>2. spoiled' \in BOOLEAN
    BY <1>0 DEF Return
  <2>3. op' \in Operation /\ reply' \in Replies /\ op'.mech # "none"
    BY DEF Return, Fair
  <2> QED
    BY <2>1, <2>2, <2>3 DEF Return, Replies, Inv, TypeOK
<1>2. StreamKept'
  <2> SUFFICES ASSUME r.op.active, ~spoiled'
               PROVE  r.op.out \o r.op.buffer = given'
    BY DEF StreamKept, Return
  <2>1. op.active /\ ~spoiled
    BY <1>0 DEF Return, Fair
  <2>2. op.out \o op.buffer = given
    BY <2>1 DEF Inv, StreamKept
  <2>3. CASE Succeeds(r.rv)
    BY <2>2, <2>3 DEF Return, Fair
  <2>4. CASE ~Succeeds(r.rv)
    <3>1. <<r.op.buffer, r.op.out>> = <<op.buffer, op.out>>
      BY <1>0, <2>4 DEF Return
    <3> QED
      BY <2>2, <2>4, <3>1 DEF Return
  <2> QED
    BY <2>3, <2>4
<1>3. LastBlockHeld'
  <2> SUFFICES ASSUME r.op.active, r.op.mech = "PAD", type = "decrypt",
                      given' # <<>>, r.op.buffer = <<>>
               PROVE  FALSE
    BY DEF LastBlockHeld, Return
  <2>1. op.buffer = <<>> /\ (Succeeds(r.rv) => part = <<>>)
    BY DEF Fair
  <2>2. given = <<>>
    BY <2>1 DEF Fair, Inv, LastBlockHeld
  <2>3. given' = <<>>
    BY <2>1, <2>2 DEF Return
  <2> QED
    BY <2>3
<1>4. WholeUnbuffered'
  BY DEF Return, Fair, WholeUnbuffered
<1> QED
  BY <1>1, <1>2, <1>3, <1>4 DEF Inv

LEMMA PartsAreSequences == Parts \subseteq Seq(Bytes)
BY DEF Parts

(* What an Update makes of an operation.                                   *)
LEMMA UpdateOutcome ==
  ASSUME NEW o \in Operation, NEW part \in Seq(Bytes), NEW buffer \in Buffers,
         NEW r \in Updates(o, part, buffer)
  PROVE  /\ r.rv \in {"ok", "length", "error"}
         /\ r.rv = "ok" => r.op = Fed(o, part)
         /\ r.rv # "ok" => r.op = NotRun(o, part)
  BY DEF Updates, Outcome, Buffers

(* What a Final makes of an operation.                                     *)
LEMMA FinalOutcome ==
  ASSUME NEW o \in Operation, NEW buffer \in Buffers, NEW r \in Finals(o, buffer)
  PROVE  \/ r = Outcome("result", Finished(o))
         \/ r = Outcome("error", o)
         \/ r = Outcome("length", [o EXCEPT !.active = FALSE])
  BY DEF Finals

LEMMA FinishedCovers ==
  ASSUME NEW o \in Operation
  PROVE  /\ Finished(o) \in Operation
         /\ Finished(o).mech = o.mech
         /\ ~Finished(o).active
         /\ Finished(o).out = o.out \o o.buffer
<1>1. o.out \in Seq(Bytes) /\ o.buffer \in Seq(Bytes) /\ <<>> \in Seq(Bytes)
  BY DEF Operation
<1>2. o.out \o o.buffer \in Seq(Bytes)
  BY <1>1, ConcatProperties
<1> QED
  BY <1>1, <1>2 DEF Finished, Operation

(* What a failed Update leaves.                                            *)
LEMMA NotRunIsTyped ==
  ASSUME NEW o \in Operation, NEW part \in Seq(Bytes)
  PROVE  /\ NotRun(o, part) \in Operation
         /\ NotRun(o, part).mech = o.mech
         /\ (NotRun(o, part).active => o.active)
         /\ NotRun(o, part).buffer \in {o.buffer, Fed(o, part).buffer}
         /\ Backend = "mscapi" => NotRun(o, part).buffer = Fed(o, part).buffer
<1>1. Fed(o, part) \in Operation
  BY FedMoves
<1>2. Fed(o, part).buffer \in Seq(Bytes)
  BY <1>1 DEF Operation
<1> HIDE DEF Fed
<1> QED
  BY <1>2 DEF NotRun, Operation

LEMMA UpdateFair ==
  ASSUME Inv, NEW part \in Seq(Bytes), NEW buffer \in Buffers,
         op.mech \in Blockwise, Accepts(op, part),
         NEW r \in Updates(op, part, buffer)
  PROVE  Fair(r, part)
<1>0. op \in Operation /\ op.buffer \in Seq(Bytes)
  BY DEF Inv, TypeOK, Operation
<1>1. op.mech = "PAD" /\ type = "decrypt" /\ ~(op.buffer = <<>> /\ part = <<>>)
        => Fed(op, part).buffer # <<>>
  <2>1. ~(op.buffer = <<>> /\ part = <<>>) => op.buffer \o part # <<>>
    BY <1>0, ConcatEqualIffEmpty
  <2> QED
    BY <1>0, <2>1, FedMoves
<1>2. op.mech = "PAD" /\ type = "decrypt" /\ Backend = "mscapi"
        => ~(op.buffer = <<>> /\ part = <<>>)
  BY <1>0, ConcatEmptySeq DEF Accepts
<1>3. CASE r.rv = "ok"
  <2>1. r.op = Fed(op, part)
    BY <1>0, <1>3, UpdateOutcome
  <2>2. /\ Fed(op, part) \in Operation
        /\ Fed(op, part).mech = op.mech
        /\ (Fed(op, part).active => op.active)
        /\ Fed(op, part).out \o Fed(op, part).buffer = (op.out \o op.buffer) \o part
    BY <1>0, FedMoves
  <2>3. /\ r.op \in Operation
        /\ r.op.mech = op.mech
        /\ (r.op.active => op.active)
        /\ r.op.out \o r.op.buffer = (op.out \o op.buffer) \o part
    BY <2>1, <2>2, Zenon
  <2>4. op.mech = "PAD" /\ type = "decrypt" /\ ~(op.buffer = <<>> /\ part = <<>>)
          => r.op.buffer # <<>>
    BY <1>1, <2>1
  <2> QED
    BY <1>3, <2>3, <2>4 DEF Fair, Replies
<1>4. CASE r.rv # "ok"
  <2>1. r.op = NotRun(op, part) /\ r.rv \in {"length", "error"}
    BY <1>0, <1>4, UpdateOutcome
  <2>2. r.op.mech = "PAD" /\ type = "decrypt" =>
          r.op.buffer # <<>> \/ op.buffer = <<>>
    BY <1>0, <1>1, <1>2, <2>1, NotRunIsTyped DEF NotRun
  <2>3. /\ NotRun(op, part) \in Operation
        /\ NotRun(op, part).mech = op.mech
        /\ (NotRun(op, part).active => op.active)
    BY <1>0, NotRunIsTyped
  <2>4. /\ r.op \in Operation
        /\ r.op.mech = op.mech
        /\ (r.op.active => op.active)
    BY <2>1, <2>3, Zenon
  <2> QED
    BY <2>1, <2>2, <2>4 DEF Fair, Replies, Succeeds
<1> QED
  BY <1>3, <1>4

(* What a Final makes of the operation, or of the operation its Update has *)
(* just fed.                                                               *)
LEMMA FinalFair ==
  ASSUME Inv, NEW part \in Seq(Bytes), NEW buffer \in Buffers,
         op.mech \in Blockwise,
         NEW o \in Operation, o.mech = op.mech, o.active => op.active,
         o.mech = "PAD" /\ type = "decrypt" => o.buffer # <<>> \/ op.buffer = <<>>,
         NEW r \in Finals(o, buffer)
  PROVE  Fair(r, part)
<1>1. CASE r = Outcome("result", Finished(o))
  BY <1>1, FinishedCovers DEF Fair, Outcome, Replies
<1>2. CASE r = Outcome("error", o)
  BY <1>2 DEF Fair, Outcome, Replies, Succeeds
<1>3. CASE r = Outcome("length", [o EXCEPT !.active = FALSE])
  <2>1. /\ [o EXCEPT !.active = FALSE] \in Operation
        /\ [o EXCEPT !.active = FALSE].mech = o.mech
        /\ ~[o EXCEPT !.active = FALSE].active
    BY DEF Operation
  <2>2. r.rv = "length" /\ r.op = [o EXCEPT !.active = FALSE]
    BY <1>3 DEF Outcome
  <2> QED
    BY <2>1, <2>2 DEF Fair, Replies, Succeeds
<1> QED
  BY <1>1, <1>2, <1>3, FinalOutcome

-----------------------------------------------------------------------------
(* A result covers what the caller has given.                              *)
Covered == reply' = "result" /\ op.active /\ ~spoiled => op'.out = given'

LEMMA UpdateStep ==
  ASSUME Inv, NEW part \in Parts, NEW buffer \in Buffers, Update(part, buffer)
  PROVE  Inv' /\ Covered
<1>1. PICK r \in Updates(op, part, buffer) : Return(r, part)
  BY DEF Update
<1>2. part \in Seq(Bytes)
  BY PartsAreSequences
<1>3. Fair(r, part)
  BY <1>2, UpdateFair DEF Update, Callable
<1>4. op.mech # "none"
  BY DEF Update, Callable, Blockwise
<1>5. r.rv # "result"
  BY <1>2, UpdateOutcome DEF Inv, TypeOK
<1> QED
  BY <1>1, <1>2, <1>3, <1>4, <1>5, ReturnInv DEF Return, Covered

LEMMA FinalStep ==
  ASSUME Inv, NEW buffer \in Buffers, Final(buffer)
  PROVE  Inv' /\ Covered
<1>1. PICK r \in Finals(op, buffer) : Return(r, <<>>)
  BY DEF Final
<1>2. op \in Operation /\ <<>> \in Seq(Bytes) /\ given \in Seq(Bytes)
  BY DEF Inv, TypeOK
<1>3. op.mech \in Blockwise /\ op.mech # "none"
  BY DEF Final, Callable, Blockwise
<1>4. Fair(r, <<>>)
  BY <1>2, <1>3, FinalFair
<1>5. Covered
  <2> SUFFICES ASSUME r.rv = "result", op.active, ~spoiled
               PROVE  r.op.out = given \o <<>>
    BY <1>1 DEF Covered, Return, Succeeds
  <2>1. r = Outcome("result", Finished(op))
    BY <1>2, FinalOutcome DEF Outcome
  <2>2. r.op.out = op.out \o op.buffer
    BY <1>2, <2>1, FinishedCovers DEF Outcome
  <2>3. op.out \o op.buffer = given
    BY DEF Inv, StreamKept
  <2> QED
    BY <1>2, <2>2, <2>3, ConcatEmptySeq
<1> QED
  BY <1>1, <1>2, <1>3, <1>4, <1>5, ReturnInv

LEMMA OnceStep ==
  ASSUME Inv, NEW part \in Parts, NEW first \in Buffers, NEW last \in Buffers,
         Once(part, first, last)
  PROVE  Inv' /\ Covered
<1>1. PICK u \in Updates(op, part, first) :
        IF u.rv = "ok" THEN \E r \in Finals(u.op, last) : Return(r, part)
                       ELSE Return(u, part)
  BY DEF Once
<1>2. op \in Operation /\ part \in Seq(Bytes) /\ op.mech \in Blockwise
      /\ op.mech # "none" /\ Accepts(op, part)
  BY PartsAreSequences DEF Once, Callable, Blockwise, Inv, TypeOK
<1>3. Fair(u, part)
  BY <1>2, UpdateFair
<1>4. CASE u.rv # "ok"
  <2>1. Return(u, part)
    BY <1>1, <1>4
  <2>2. u.rv # "result"
    BY <1>2, UpdateOutcome
  <2> QED
    BY <1>2, <1>3, <2>1, <2>2, ReturnInv DEF Return, Covered
<1>5. CASE u.rv = "ok"
  <2>1. PICK r \in Finals(u.op, last) : Return(r, part)
    BY <1>1, <1>5
  <2>2. u.op = Fed(op, part)
    BY <1>2, <1>5, UpdateOutcome
  <2>3. u.op \in Operation /\ u.op.mech = op.mech /\ (u.op.active => op.active)
    <3>1. /\ Fed(op, part) \in Operation
          /\ Fed(op, part).mech = op.mech
          /\ (Fed(op, part).active => op.active)
      BY <1>2, FedMoves
    <3> QED
      BY <2>2, <3>1, Zenon
  <2>4. u.op.mech = "PAD" /\ type = "decrypt" /\ u.op.buffer = <<>> => op.buffer = <<>>
    <3>1. op.buffer \in Seq(Bytes)
      BY <1>2 DEF Operation
    <3>2. op.buffer # <<>> => op.buffer \o part # <<>>
      BY <1>2, <3>1, ConcatEqualIffEmpty
    <3>3. op.mech = "PAD" /\ type = "decrypt" /\ op.buffer \o part # <<>>
            => Fed(op, part).buffer # <<>>
      BY <1>2, FedMoves
    <3> QED
      BY <2>2, <2>3, <3>2, <3>3
  <2>5. Fair(r, part)
    BY <1>2, <2>3, <2>4, FinalFair
  <2>6. Covered
    <3> SUFFICES ASSUME r.rv = "result", op.active, ~spoiled
                 PROVE  r.op.out = given \o part
      BY <2>1 DEF Covered, Return, Succeeds
    <3>1. r = Outcome("result", Finished(u.op))
      BY <2>3, FinalOutcome DEF Outcome
    <3>2. r.op.out = u.op.out \o u.op.buffer
      BY <2>3, <3>1, FinishedCovers DEF Outcome
    <3>3. u.op.out \o u.op.buffer = (op.out \o op.buffer) \o part
      BY <1>2, <2>2, FedMoves, Zenon
    <3> QED
      BY <3>2, <3>3 DEF Inv, StreamKept
  <2> QED
    BY <1>2, <2>1, <2>5, <2>6, ReturnInv
<1> QED
  BY <1>4, <1>5

(* An Init, successful or not.                                             *)
LEMMA BeginStep ==
  ASSUME Inv,
         (\E m \in Mechanisms : EncryptInit(m)) \/ EncryptInitFails
  PROVE  Inv' /\ Covered
<1>1. <<>> \in Seq(Bytes) /\ <<>> \o <<>> = <<>>
  BY ConcatEmptySeq
<1>2. type \in {"encrypt", "decrypt"}
  BY DEF Inv, TypeOK
<1>3. ASSUME NEW m \in Mechanisms, EncryptInit(m)
      PROVE  Inv' /\ Covered
  <2>1. /\ op' = [mech |-> m, active |-> TRUE, buffer |-> <<>>, out |-> <<>>]
        /\ given' = <<>> /\ spoiled' = FALSE /\ reply' = "ok" /\ type' = type
    BY <1>3 DEF EncryptInit, Begin, NoOperation
  <2>2. m # "none"
    BY DEF Mechanisms, Blockwise
  <2>3. op' \in Operation
    BY <1>1, <2>1 DEF Operation
  <2> QED
    BY <1>1, <1>2, <2>1, <2>2, <2>3
    DEF Inv, TypeOK, StreamKept, LastBlockHeld, WholeUnbuffered, Covered
<1>4. ASSUME EncryptInitFails
      PROVE  Inv' /\ Covered
  <2>1. /\ op' = NoOperation
        /\ given' = <<>> /\ spoiled' = FALSE /\ reply' = "error" /\ type' = type
    BY <1>4 DEF EncryptInitFails, Begin
  <2>2. op' \in Operation
    BY <1>1, <2>1 DEF Operation, NoOperation
  <2> QED
    BY <1>1, <1>2, <2>1, <2>2
    DEF Inv, TypeOK, StreamKept, LastBlockHeld, WholeUnbuffered, Covered, NoOperation
<1> QED
  BY <1>3, <1>4

(* The operations that take all their input in one call.                   *)
LEMMA WholeCall ==
  ASSUME Inv, NEW data \in Seq(Bytes), op.mech \in {"GCM", "OAEP"}
  PROVE  /\ Fair(Outcome("length", op), data)
         /\ Fair(Outcome("error", op), data)
         /\ Fair(Outcome("length", Ended), data)
         /\ Fair(Outcome("error", Ended), data)
         /\ Fair(Outcome("result", Whole(data)), data)
<1>1. op \in Operation /\ op.mech \notin Blockwise /\ op.mech # "PAD" /\ op.buffer = <<>>
  BY DEF Inv, TypeOK, WholeUnbuffered, Blockwise
<1>2. Ended \in Operation /\ Ended.mech = op.mech /\ ~Ended.active /\ Ended.buffer = <<>>
  BY <1>1 DEF Ended, Operation
<1>3. /\ Whole(data) \in Operation /\ Whole(data).mech = op.mech
      /\ ~Whole(data).active /\ Whole(data).buffer = <<>>
  <2>1. op.out \o data \in Seq(Bytes)
    BY <1>1, ConcatProperties DEF Operation
  <2> QED
    BY <1>1, <2>1 DEF Whole, Operation
<1>4. \A rv \in {"length", "error"} : Fair(Outcome(rv, op), data)
  BY <1>1 DEF Fair, Outcome, Replies, Succeeds
<1>5. \A rv \in {"length", "error"} : Fair(Outcome(rv, Ended), data)
  BY <1>1, <1>2 DEF Fair, Outcome, Replies, Succeeds
<1>6. Fair(Outcome("result", Whole(data)), data)
  BY <1>1, <1>3 DEF Fair, Outcome, Replies
<1> QED
  BY <1>4, <1>5, <1>6

(* The outcomes those calls can have.                                      *)
WholeOutcomes(data) ==
  {Outcome("length", op), Outcome("error", op), Outcome("length", Ended),
   Outcome("error", Ended), Outcome("result", Whole(data))}

LEMMA WholeStep ==
  ASSUME Inv,
         \/ OaepFinal
         \/ \E part \in Parts, buffer \in Buffers :
              GcmOnce(part, buffer) \/ OaepOnce(part, buffer)
  PROVE  Inv' /\ Covered
<1>1. op.mech \in {"GCM", "OAEP"}
  BY DEF OaepFinal, GcmOnce, OaepOnce
<1>2. \E data \in Seq(Bytes) : \E r \in WholeOutcomes(data) : Return(r, data)
  <2>1. CASE OaepFinal
    <3>1. Return(Outcome("error", Ended), <<>>)
      BY <2>1 DEF OaepFinal
    <3>2. <<>> \in Seq(Bytes) /\ Outcome("error", Ended) \in WholeOutcomes(<<>>)
      BY DEF WholeOutcomes
    <3> QED
      BY <3>1, <3>2
  <2>2. ASSUME NEW part \in Parts, NEW buffer \in Buffers,
               GcmOnce(part, buffer) \/ OaepOnce(part, buffer)
        PROVE  \E r \in WholeOutcomes(part) : Return(r, part)
    BY <2>2 DEF GcmOnce, OaepOnce, WholeOutcomes
  <2> QED
    BY <2>1, <2>2, PartsAreSequences
<1>3. PICK data \in Seq(Bytes) : \E r \in WholeOutcomes(data) : Return(r, data)
  BY <1>2
<1>4. PICK r \in WholeOutcomes(data) : Return(r, data)
  BY <1>3
<1>5. Fair(r, data)
  BY <1>1, WholeCall DEF WholeOutcomes
<1>6. Inv'
  BY <1>1, <1>4, <1>5, ReturnInv
<1>7. Covered
  <2> SUFFICES ASSUME r.rv = "result", op.active, ~spoiled
               PROVE  r.op.out = given \o data
    BY <1>4 DEF Covered, Return, Succeeds
  <2>1. r.op = Whole(data)
    BY DEF Outcome, WholeOutcomes
  <2>2. op \in Operation /\ op.buffer = <<>> /\ op.out \o op.buffer = given
    BY <1>1 DEF Inv, TypeOK, WholeUnbuffered, Blockwise, StreamKept
  <2>3. op.out = given
    BY <2>2, ConcatEmptySeq DEF Operation
  <2>4. Whole(data).out = op.out \o data
    BY <2>2 DEF Whole, Operation
  <2> QED
    BY <2>1, <2>3, <2>4
<1> QED
  BY <1>6, <1>7

-----------------------------------------------------------------------------
LEMMA InitInv == Init => Inv
<1> SUFFICES ASSUME Init PROVE Inv
  OBVIOUS
<1>1. NoOperation \in Operation /\ ~NoOperation.active /\ NoOperation.buffer = <<>>
  <2>1. <<>> \in Seq(Bytes)
    OBVIOUS
  <2> QED
    BY <2>1 DEF NoOperation, Operation
<1>2. <<>> \in Seq(Bytes)
  OBVIOUS
<1>3. /\ type \in {"encrypt", "decrypt"} /\ op = NoOperation
      /\ given = <<>> /\ spoiled = FALSE /\ reply = "ok"
  BY DEF Init
<1> HIDE DEF NoOperation, Operation
<1>4. TypeOK
  BY <1>1, <1>2, <1>3 DEF TypeOK
<1> QED
  BY <1>1, <1>3, <1>4 DEF Inv, StreamKept, LastBlockHeld, WholeUnbuffered

LEMMA NextStep == Inv /\ [Next]_vars => Inv' /\ (Next => Covered)
<1> SUFFICES ASSUME Inv, [Next]_vars
             PROVE  Inv' /\ (Next => Covered)
  OBVIOUS
<1>1. CASE Next
  BY <1>1, BeginStep, WholeStep, FinalStep, UpdateStep, OnceStep DEF Next
<1>2. CASE UNCHANGED vars /\ ~Next
  BY <1>2 DEF vars, Inv, TypeOK, StreamKept, LastBlockHeld, WholeUnbuffered
<1> QED
  BY <1>1, <1>2

LEMMA Invariance == Spec => []Inv
  BY InitInv, NextStep, PTL DEF Spec

(* Every variable keeps its type, whatever the block size, the parts and   *)
(* the failures of the platform library, and an Init that fails leaves an  *)
(* operation that is none.                                                 *)
THEOREM TypeCorrect == Spec => []TypeOK
<1>1. Inv => TypeOK
  BY DEF Inv
<1> QED
  BY <1>1, Invariance, PTL

(* For every block size and every way to cut the message, what has gone    *)
(* through the cipher and what waits in the buffer are the message, as     *)
(* long as no failed call has changed the operation.                       *)
THEOREM StreamIsKept == Spec => []StreamKept
<1>1. Inv => StreamKept
  BY DEF Inv
<1> QED
  BY <1>1, Invariance, PTL

(* A running CKM_AES_CBC_PAD decryption that has been given anything still *)
(* holds bytes to remove the padding from.                                 *)
THEOREM LastBlockIsHeld == Spec => []LastBlockHeld
<1>1. Inv => LastBlockHeld
  BY DEF Inv
<1> QED
  BY <1>1, Invariance, PTL

(* An operation that ends with a result has put everything it was given    *)
(* through the cipher.                                                     *)
THEOREM ResultsCover == Spec => ResultCovers
<1>1. Inv /\ [Next]_vars => [Covered]_vars
  BY NextStep
<1>2. Spec => [][Covered]_vars
  BY <1>1, Invariance, PTL DEF Spec
<1> QED
  BY <1>2, PTL DEF ResultCovers, Covered
-----------------------------------------------------------------------------
(* Dividing by the size of a block.                                        *)
LEMMA Division ==
  ASSUME NEW n \in Nat
  PROVE  /\ n \div BlockSize \in Nat /\ n % BlockSize \in 0..(BlockSize - 1)
         /\ n = (BlockSize * (n \div BlockSize)) + (n % BlockSize)
  BY BlockSizeAssumption, SMTT(30)

(* Sums of whole blocks, and what is left when the remainder or one block  *)
(* is taken away, are whole blocks.                                        *)
LEMMA ProductMod ==
  ASSUME NEW q \in Nat
  PROVE  (BlockSize * q) % BlockSize = 0
<1>0. BlockSize \in Nat /\ BlockSize > 0 /\ BlockSize * q \in Nat
  BY BlockSizeAssumption
<1>1. PICK n \in Nat : n = BlockSize * q
  BY <1>0
<1>2. PICK d \in Nat, r \in 0..(BlockSize - 1) : n = (BlockSize * d) + r /\ r = n % BlockSize
  <2>1. PICK d \in Nat, r \in 0..(BlockSize - 1) : d = n \div BlockSize /\ r = n % BlockSize
    BY Division
  <2> QED
    BY <2>1, Division
<1>3. BlockSize * q = BlockSize * d + r
  BY <1>1, <1>2
<1>4. BlockSize * (q - d) = r
  BY <1>0, <1>3
<1>5. PICK k \in Int : k = q - d
  BY <1>2
<1>6. CASE k >= 1
  <2>1. BlockSize * k >= BlockSize
    BY <1>0, <1>6
  <2> QED
    BY <1>0, <1>2, <1>4, <1>5, <2>1
<1>7. CASE k <= -1
  <2>1. BlockSize * k <= 0 - BlockSize
    BY <1>0, <1>7
  <2> QED
    BY <1>0, <1>2, <1>4, <1>5, <2>1
<1>8. CASE k = 0
  BY <1>0, <1>1, <1>2, <1>4, <1>5, <1>8
<1> QED
  BY <1>5, <1>6, <1>7, <1>8

LEMMA Multiple ==
  ASSUME NEW n \in Nat, n % BlockSize = 0
  PROVE  \E p \in Nat : n = BlockSize * p
<1>1. n = (BlockSize * (n \div BlockSize)) + 0 /\ n \div BlockSize \in Nat
  BY Division
<1>2. BlockSize * (n \div BlockSize) \in Nat
  BY <1>1, BlockSizeAssumption
<1>3. n = BlockSize * (n \div BlockSize)
  BY <1>1, <1>2
<1> QED
  BY <1>1, <1>3

LEMMA SumMod ==
  ASSUME NEW a \in Nat, NEW b \in Nat, a % BlockSize = 0, b % BlockSize = 0
  PROVE  (a + b) % BlockSize = 0
<1>0. BlockSize \in Nat /\ BlockSize > 0
  BY BlockSizeAssumption
<1>1. PICK p \in Nat : a = BlockSize * p
  BY Multiple
<1>2. PICK q \in Nat : b = BlockSize * q
  BY Multiple
<1>3. a + b = BlockSize * (p + q)
  BY <1>0, <1>1, <1>2
<1>4. (BlockSize * (p + q)) % BlockSize = 0
  BY ProductMod
<1> QED
  BY <1>3, <1>4

LEMMA DropMod ==
  ASSUME NEW n \in Nat
  PROVE  (n - (n % BlockSize)) % BlockSize = 0
<1>1. n - (n % BlockSize) = BlockSize * (n \div BlockSize)
  BY Division, BlockSizeAssumption
<1> QED
  BY <1>1, Division, ProductMod

LEMMA LessMod ==
  ASSUME NEW n \in Nat, n % BlockSize = 0, n > 0
  PROVE  n - BlockSize \in Nat /\ (n - BlockSize) % BlockSize = 0
<1>0. BlockSize \in Nat /\ BlockSize > 0
  BY BlockSizeAssumption
<1>1. PICK p \in Nat : n = BlockSize * p
  BY Multiple
<1>2. p > 0
  BY <1>0, <1>1
<1>3. n - BlockSize = BlockSize * (p - 1) /\ p - 1 \in Nat
  BY <1>0, <1>1, <1>2
<1>4. BlockSize * (p - 1) \in Nat
  BY <1>0, <1>3
<1> QED
  BY <1>3, <1>4, ProductMod

(* The lengths of the two pieces of a sequence that is cut.                *)
LEMMA CutLengths ==
  ASSUME NEW data \in Seq(Bytes), NEW n \in 0..Len(data)
  PROVE  Len(Front(data, n)) = n /\ Len(Back(data, n)) = Len(data) - n
<1>1. Len(data) \in Nat
  OBVIOUS
<1> QED
  BY <1>1, SubSeqProperties DEF Front, Back

(* Cutting a sequence where two were joined gives both back.               *)
LEMMA CutWhereJoined ==
  ASSUME NEW s \in Seq(Bytes), NEW t \in Seq(Bytes)
  PROVE  Front(s \o t, Len(s)) = s /\ Back(s \o t, Len(s)) = t
<1>1. /\ s \o t \in Seq(Bytes)
      /\ Len(s \o t) = Len(s) + Len(t)
      /\ \A i \in 1..Len(s) + Len(t) :
           (s \o t)[i] = IF i <= Len(s) THEN s[i] ELSE t[i - Len(s)]
  BY ConcatProperties
<1>2. Len(s) \in Nat /\ Len(t) \in Nat
  OBVIOUS
<1>3. SubSeq(s \o t, 1, Len(s)) = s
  BY <1>1, <1>2
<1>4. SubSeq(s \o t, Len(s) + 1, Len(s \o t)) = t
  BY <1>1, <1>2
<1> QED
  BY <1>3, <1>4 DEF Front, Back

(* An operation whose cipher was given whole blocks, and whose buffer      *)
(* holds no more than it has to.                                           *)
FitsBlocks(o) ==
  Len(o.buffer) < BlockSize
    \/ (Len(o.buffer) = BlockSize /\ type = "decrypt" /\ o.mech = "PAD")

LEMMA KeptFits ==
  ASSUME NEW o, NEW n \in Nat
  PROVE  /\ (n - Kept(o, n)) % BlockSize = 0
         /\ Kept(o, n) < BlockSize
              \/ (Kept(o, n) = BlockSize /\ type = "decrypt" /\ o.mech = "PAD")
<1>1. CASE n % BlockSize = 0 /\ n > 0 /\ o.mech = "PAD" /\ type = "decrypt"
  <2>1. Kept(o, n) = BlockSize
    BY <1>1 DEF Kept
  <2> QED
    BY <1>1, <2>1, LessMod
<1>2. CASE ~(n % BlockSize = 0 /\ n > 0 /\ o.mech = "PAD" /\ type = "decrypt")
  <2>1. Kept(o, n) = n % BlockSize
    BY <1>2 DEF Kept
  <2> QED
    BY <2>1, DropMod, Division, BlockSizeAssumption
<1> QED
  BY <1>1, <1>2

LEMMA FedFits ==
  ASSUME NEW o \in Operation, NEW part \in Seq(Bytes)
  PROVE  /\ FitsBlocks(Fed(o, part))
         /\ Len(o.out) % BlockSize = 0 => Len(Fed(o, part).out) % BlockSize = 0
<1>0. o.out \in Seq(Bytes) /\ o.buffer \in Seq(Bytes) /\ Len(o.out) \in Nat
  BY DEF Operation
<1>1. PICK data \in Seq(Bytes) : data = o.buffer \o part
  BY <1>0, ConcatProperties
<1>2. PICK k \in 0..Len(data) : k = Kept(o, Len(data))
  BY KeptBounds
<1>3. PICK n \in 0..Len(data) : n = Len(data) - k
  BY SMTT(30)
<1>4. /\ Fed(o, part).buffer = Back(data, n)
      /\ Fed(o, part).out = o.out \o Front(data, n)
      /\ Fed(o, part).mech = o.mech
  BY <1>1, <1>2, <1>3 DEF Fed, Operation
<1>5. Len(Front(data, n)) = n /\ Len(Back(data, n)) = k
  BY <1>3, CutLengths
<1>6. Len(Fed(o, part).out) = Len(o.out) + n
  <2>1. Front(data, n) \in Seq(Bytes)
    BY CutAndJoin
  <2>2. Len(o.out \o Front(data, n)) = Len(o.out) + Len(Front(data, n))
    BY <1>0, <2>1, ConcatProperties
  <2> QED
    BY <1>4, <1>5, <2>2
<1>7. Len(data) \in Nat /\ Len(o.out) \in Nat
  BY <1>0
<1>8. /\ n % BlockSize = 0
      /\ k < BlockSize \/ (k = BlockSize /\ type = "decrypt" /\ o.mech = "PAD")
  BY <1>2, <1>3, <1>7, KeptFits
<1>9. FitsBlocks(Fed(o, part))
  BY <1>4, <1>5, <1>8 DEF FitsBlocks
<1>10. ASSUME Len(o.out) % BlockSize = 0
       PROVE  (Len(o.out) + n) % BlockSize = 0
  <2>1. n \in Nat
    BY <1>7
  <2> QED
    BY <1>7, <1>8, <1>10, <2>1, SumMod
<1> QED
  BY <1>6, <1>9, <1>10

(* What an outcome of a call on a running blockwise operation has to be.   *)
Blocked(o) == o.active => Len(o.out) % BlockSize = 0 /\ FitsBlocks(o)

LEMMA UpdateBlocked ==
  ASSUME NEW part \in Seq(Bytes), NEW buffer \in Buffers, op \in Operation,
         Blocked(op), NEW r \in Updates(op, part, buffer)
  PROVE  Blocked(r.op)
<1>1. CASE r.rv = "ok"
  <2>1. r.op = Fed(op, part)
    BY <1>1, UpdateOutcome
  <2>2. Fed(op, part).active => op.active
    BY FedMoves
  <2>3. op.active => Len(op.out) % BlockSize = 0
    BY DEF Blocked
  <2>4. Blocked(Fed(op, part))
    BY <2>2, <2>3, FedFits DEF Blocked
  <2> QED
    BY <2>1, <2>4
<1>2. CASE r.rv # "ok"
  <2>1. r.op = NotRun(op, part)
    BY <1>2, UpdateOutcome
  <2>2. CASE Backend = "mscapi"
    <3>1. PICK s : s = Fed(op, part).buffer
      OBVIOUS
    <3>2. r.op = [op EXCEPT !.buffer = s]
      BY <2>1, <2>2, <3>1 DEF NotRun
    <3>3. r.op.out = op.out /\ r.op.buffer = s /\ r.op.mech = op.mech
          /\ r.op.active = op.active
      BY <3>2 DEF Operation
    <3>4. FitsBlocks(Fed(op, part)) /\ Fed(op, part).mech = op.mech
      BY FedFits, FedMoves
    <3> QED
      BY <3>1, <3>3, <3>4 DEF Blocked, FitsBlocks
  <2>3. CASE Backend # "mscapi"
    BY <2>1, <2>3 DEF NotRun
  <2> QED
    BY <2>2, <2>3
<1> QED
  BY <1>1, <1>2

LEMMA FinalBlocked ==
  ASSUME NEW o \in Operation, Blocked(o), NEW buffer \in Buffers,
         NEW r \in Finals(o, buffer)
  PROVE  Blocked(r.op)
<1>1. ~[o EXCEPT !.active = FALSE].active /\ ~Finished(o).active
  BY FinishedCovers DEF Operation
<1>2. r.op \in {Finished(o), o, [o EXCEPT !.active = FALSE]}
  BY FinalOutcome DEF Outcome
<1> QED
  BY <1>1, <1>2 DEF Blocked

LEMMA BlocksStep == Inv /\ WholeBlocks /\ [Next]_vars => WholeBlocks'
<1> SUFFICES ASSUME Inv, WholeBlocks, [Next]_vars, op'.active, op'.mech \in Blockwise
             PROVE  Blocked(op') /\ type' = type
  BY DEF WholeBlocks, Blocked, FitsBlocks
<1>0. op \in Operation
  BY DEF Inv, TypeOK
<1>1. op.mech \in Blockwise => Blocked(op)
  BY DEF WholeBlocks, Blocked, FitsBlocks
<1>2. ASSUME NEW r, NEW part, Return(r, part)
      PROVE  op' = r.op /\ type' = type
  BY <1>2 DEF Return
<1>3. ASSUME NEW m \in Mechanisms, EncryptInit(m)
      PROVE  Blocked(op') /\ type' = type
  <2>1. op'.out = <<>> /\ op'.buffer = <<>> /\ type' = type
    BY <1>3 DEF EncryptInit, Begin, NoOperation
  <2>2. Len(<<>>) = 0 /\ BlockSize > 0 /\ 0 % BlockSize = 0
    BY BlockSizeAssumption, ProductMod
  <2> QED
    BY <2>1, <2>2 DEF Blocked, FitsBlocks
<1>4. CASE EncryptInitFails
  BY <1>4 DEF EncryptInitFails, Begin, NoOperation
<1>5. ASSUME OaepFinal \/ \E part \in Parts, buffer \in Buffers :
               GcmOnce(part, buffer) \/ OaepOnce(part, buffer)
      PROVE  Blocked(op') /\ type' = type
  <2>1. op.mech \notin Blockwise
    BY <1>5 DEF OaepFinal, GcmOnce, OaepOnce, Blockwise
  <2>2. op'.mech = op.mech
    <3>1. Ended.mech = op.mech /\ \A part \in Parts : Whole(part).mech = op.mech
      BY <1>0 DEF Ended, Whole, Operation
    <3>2. \A o, rv : Outcome(rv, o).op = o
      BY DEF Outcome
    <3>3. op' \in {op, Ended} \cup {Whole(part) : part \in Parts}
      <4>1. CASE OaepFinal
        BY <4>1, <1>2, <3>2, Zenon DEF OaepFinal
      <4>2. ASSUME NEW part \in Parts, NEW buffer \in Buffers, GcmOnce(part, buffer)
            PROVE  op' \in {op, Ended} \cup {Whole(p) : p \in Parts}
        <5>1. \E o \in {op, Ended, Whole(part)}, rv \in {"length", "error", "result"} :
                Return(Outcome(rv, o), part)
          BY <4>2 DEF GcmOnce
        <5>2. op' \in {op, Ended, Whole(part)}
          BY <5>1, <1>2, <3>2, Zenon
        <5> QED
          BY <5>2
      <4>3. ASSUME NEW part \in Parts, NEW buffer \in Buffers, OaepOnce(part, buffer)
            PROVE  op' \in {op, Ended} \cup {Whole(p) : p \in Parts}
        <5>1. \E o \in {op, Ended, Whole(part)}, rv \in {"length", "error", "result"} :
                Return(Outcome(rv, o), part)
          BY <4>3 DEF OaepOnce
        <5>2. op' \in {op, Ended, Whole(part)}
          BY <5>1, <1>2, <3>2, Zenon
        <5> QED
          BY <5>2
      <4> QED
        BY <1>5, <4>1, <4>2, <4>3, Zenon
    <3> QED
      BY <3>1, <3>3, Zenon
  <2> QED
    BY <2>1, <2>2
<1>6. ASSUME NEW part \in Parts, NEW buffer \in Buffers, Update(part, buffer)
      PROVE  Blocked(op') /\ type' = type
  <2>1. PICK r \in Updates(op, part, buffer) : Return(r, part)
    BY <1>6 DEF Update
  <2>2. Blocked(r.op)
    BY <1>0, <1>1, <1>6, UpdateBlocked, PartsAreSequences DEF Update, Callable
  <2> QED
    BY <1>2, <2>1, <2>2
<1>7. ASSUME NEW buffer \in Buffers, Final(buffer)
      PROVE  Blocked(op') /\ type' = type
  <2>1. PICK r \in Finals(op, buffer) : Return(r, <<>>)
    BY <1>7 DEF Final
  <2>2. Blocked(r.op)
    BY <1>0, <1>1, <1>7, FinalBlocked DEF Final, Callable
  <2> QED
    BY <1>2, <2>1, <2>2
<1>8. ASSUME NEW part \in Parts, NEW first \in Buffers, NEW last \in Buffers,
             Once(part, first, last)
      PROVE  Blocked(op') /\ type' = type
  <2>1. PICK u \in Updates(op, part, first) :
          IF u.rv = "ok" THEN \E r \in Finals(u.op, last) : Return(r, part)
                         ELSE Return(u, part)
    BY <1>8 DEF Once
  <2>2. part \in Seq(Bytes) /\ Blocked(op)
    BY <1>1, <1>8, PartsAreSequences DEF Once, Callable
  <2>3. Blocked(u.op)
    BY <1>0, <2>2, UpdateBlocked
  <2>4. CASE u.rv = "ok"
    <3>1. u.op \in Operation
      BY <1>0, <2>2, <2>4, UpdateOutcome, FedMoves
    <3>2. PICK r \in Finals(u.op, last) : Return(r, part)
      BY <2>1, <2>4
    <3>3. Blocked(r.op)
      BY <2>3, <3>1, FinalBlocked
    <3> QED
      BY <1>2, <3>2, <3>3
  <2>5. CASE u.rv # "ok"
    BY <1>2, <2>1, <2>3, <2>5
  <2> QED
    BY <2>4, <2>5
<1>9. CASE UNCHANGED vars
  BY <1>1, <1>9 DEF vars
<1> QED
  BY <1>3, <1>4, <1>5, <1>6, <1>7, <1>8, <1>9 DEF Next

(* Whatever the size of a block and however the message is cut, the cipher *)
(* of a running operation gets whole blocks, and less than a block waits,  *)
(* or the one block a decryption with padding has to hold back.            *)
THEOREM BlocksAreWhole == Spec => []WholeBlocks
<1>1. Init => WholeBlocks
  BY DEF Init, NoOperation, WholeBlocks, Blockwise
<1> QED
  BY <1>1, BlocksStep, Invariance, PTL DEF Spec
-----------------------------------------------------------------------------
(* How a message is cut leaves no trace in the operation.                  *)

(* Two lengths that differ by whole blocks and are at most a block are     *)
(* equal, or are nothing and a block.                                      *)
LEMMA SameRest ==
  ASSUME NEW n \in Nat, NEW a \in 0..n, NEW b \in 0..n,
         (n - a) % BlockSize = 0, (n - b) % BlockSize = 0,
         a <= BlockSize, b <= BlockSize
  PROVE  a = b \/ (a = 0 /\ b = BlockSize) \/ (b = 0 /\ a = BlockSize)
<1>0. BlockSize \in Nat /\ BlockSize > 0
  BY BlockSizeAssumption
<1>1. n - a \in Nat /\ n - b \in Nat
  OBVIOUS
<1>2. PICK p \in Nat : n - a = BlockSize * p
  BY <1>1, Multiple
<1>3. PICK q \in Nat : n - b = BlockSize * q
  BY <1>1, Multiple
<1>4. BlockSize * (p - q) = b - a
  BY <1>0, <1>2, <1>3
<1>5. PICK k \in Int : k = p - q
  OBVIOUS
<1>6. BlockSize * k = b - a
  BY <1>4, <1>5
<1>7. CASE k > 1
  <2>1. BlockSize * k >= BlockSize * 2
    BY <1>0, <1>7
  <2> QED
    BY <1>0, <1>6, <2>1
<1>8. CASE k < -1
  <2>1. BlockSize * k <= BlockSize * (-2)
    BY <1>0, <1>8
  <2> QED
    BY <1>0, <1>6, <2>1
<1>9. CASE k \in {-1, 0, 1}
  BY <1>0, <1>6, <1>9
<1> QED
  BY <1>5, <1>7, <1>8, <1>9

(* What waits is what Kept says of the whole message.                      *)
LEMMA RestOfMessage ==
  ASSUME Inv, WholeBlocks, op.active, ~spoiled, op.mech \in Blockwise
  PROVE  /\ given = op.out \o op.buffer
         /\ Len(given) = Len(op.out) + Len(op.buffer)
         /\ Len(op.out) \in Nat /\ Len(op.buffer) \in Nat
         /\ Kept(op, Len(given)) = Len(op.buffer)
<1>0. BlockSize \in Nat /\ BlockSize > 0
  BY BlockSizeAssumption
<1>1. op.out \in Seq(Bytes) /\ op.buffer \in Seq(Bytes) /\ given \in Seq(Bytes)
  BY DEF Inv, TypeOK, Operation
<1>2. given = op.out \o op.buffer
  BY DEF Inv, StreamKept
<1>3. /\ Len(given) = Len(op.out) + Len(op.buffer)
      /\ Len(op.out) \in Nat /\ Len(op.buffer) \in Nat
  <2>1. Len(op.out \o op.buffer) = Len(op.out) + Len(op.buffer)
    BY <1>1, ConcatProperties
  <2>2. Len(op.out) \in Nat /\ Len(op.buffer) \in Nat
    BY <1>1
  <2> QED
    BY <1>2, <2>1, <2>2
<1>4. PICK n \in Nat : n = Len(given)
  <2>1. Len(given) \in Nat
    BY <1>1
  <2> QED
    BY <2>1
<1>5. PICK a \in Nat : a = Len(op.out)
  BY <1>3
<1>6. PICK b \in Nat : b = Len(op.buffer)
  BY <1>3
<1>7. n = a + b /\ a % BlockSize = 0
  BY <1>3, <1>4, <1>5, <1>6 DEF WholeBlocks
<1>8. b < BlockSize \/ (b = BlockSize /\ type = "decrypt" /\ op.mech = "PAD")
  BY <1>4, <1>5, <1>6 DEF WholeBlocks
<1>9. PICK k : k = Kept(op, n)
  OBVIOUS
<1>10. k \in 0..n /\ (n - k) % BlockSize = 0 /\ k <= BlockSize
  BY <1>0, <1>9, KeptBounds, KeptFits
<1>11. n - b = a /\ b \in 0..n
  BY <1>7
<1>12. b = k \/ (b = 0 /\ k = BlockSize) \/ (k = 0 /\ b = BlockSize)
  BY <1>0, <1>7, <1>8, <1>10, <1>11, SameRest
<1>13. ~(b = 0 /\ k = BlockSize)
  <2> SUFFICES ASSUME b = 0, k = BlockSize PROVE FALSE
    OBVIOUS
  <2>1. op.mech = "PAD" /\ type = "decrypt" /\ n > 0
    BY <1>0, <1>9, <1>10, KeptFits
  <2>2. given # <<>>
    BY <1>4, <2>1
  <2>3. op.buffer # <<>>
    BY <2>1, <2>2 DEF Inv, LastBlockHeld
  <2> QED
    BY <1>1, <1>6, <2>3, EmptySeq
<1>14. ~(k = 0 /\ b = BlockSize)
  <2> SUFFICES ASSUME k = 0, b = BlockSize PROVE FALSE
    OBVIOUS
  <2>1. op.mech = "PAD" /\ type = "decrypt" /\ n > 0
    BY <1>0, <1>7, <1>8
  <2>2. n % BlockSize = 0
    BY <1>10
  <2>3. k = BlockSize
    BY <1>9, <2>1, <2>2 DEF Kept
  <2> QED
    BY <1>0, <2>3
<1> QED
  BY <1>2, <1>3, <1>4, <1>6, <1>9, <1>12, <1>13, <1>14

(* An operation stands where one call with the whole message would have    *)
(* brought it: the same bytes have gone through the cipher, and the same   *)
(* wait, however the message has been cut and whatever calls were refused, *)
(* as long as none of them has lost bytes.                                 *)
OneCallWouldDo ==
  op.active /\ ~spoiled /\ op.mech \in Blockwise
    => op = Fed([NoOperation EXCEPT !.mech = op.mech, !.active = TRUE], given)

THEOREM CutsLeaveNoTrace == Spec => []OneCallWouldDo
<1>1. ASSUME Inv, WholeBlocks, op.active, ~spoiled, op.mech \in Blockwise
      PROVE  op = Fed([NoOperation EXCEPT !.mech = op.mech, !.active = TRUE], given)
  <2>1. PICK o : o = [NoOperation EXCEPT !.mech = op.mech, !.active = TRUE]
    OBVIOUS
  <2>2. /\ o.mech = op.mech /\ o.active /\ o.buffer = <<>> /\ o.out = <<>>
        /\ o = [mech |-> op.mech, active |-> TRUE, buffer |-> <<>>, out |-> <<>>]
    BY <2>1 DEF NoOperation
  <2>3. PICK a : a = Len(op.out)
    OBVIOUS
  <2>4. /\ given = op.out \o op.buffer /\ a \in Nat
        /\ Len(given) - Kept(o, Len(given)) = a
    <3>1. /\ given = op.out \o op.buffer
          /\ Len(given) = Len(op.out) + Len(op.buffer)
          /\ Len(op.out) \in Nat /\ Len(op.buffer) \in Nat
          /\ Kept(op, Len(given)) = Len(op.buffer)
      BY <1>1, RestOfMessage
    <3>2. Kept(o, Len(given)) = Kept(op, Len(given))
      BY <2>2 DEF Kept
    <3>3. PICK m \in Nat : m = Len(op.buffer)
      BY <3>1
    <3>4. a \in Nat /\ Len(given) = a + m /\ Kept(o, Len(given)) = m
      BY <2>3, <3>1, <3>2, <3>3
    <3>5. (a + m) - m = a
      BY <3>4
    <3>6. Len(given) - Kept(o, Len(given)) = a
      BY <3>4, <3>5, Zenon
    <3> QED
      BY <3>1, <3>4, <3>6
  <2>5. op.out \in Seq(Bytes) /\ op.buffer \in Seq(Bytes) /\ given \in Seq(Bytes)
    BY <1>1 DEF Inv, TypeOK, Operation
  <2>6. Front(given, a) = op.out /\ Back(given, a) = op.buffer
    BY <2>3, <2>4, <2>5, CutWhereJoined
  <2>7. o.buffer \o given = given /\ o.out \o Front(given, a) = Front(given, a)
    BY <2>2, <2>5, <2>6
  <2>8. Fed(o, given) = [o EXCEPT !.buffer = op.buffer, !.out = op.out]
    BY <2>4, <2>6, <2>7 DEF Fed
  <2>9. op = [mech |-> op.mech, active |-> TRUE, buffer |-> op.buffer, out |-> op.out]
    BY <1>1 DEF Inv, TypeOK, Operation
  <2> QED
    BY <2>1, <2>2, <2>8, <2>9
<1>2. Inv /\ WholeBlocks => OneCallWouldDo
  BY <1>1 DEF OneCallWouldDo
<1> QED
  BY <1>2, BlocksAreWhole, Invariance, PTL

-----------------------------------------------------------------------------
(* The finding about StreamKeptOnRetry, bounded: the steps of a caller who *)
(* uses the functions for messages in parts, with buffers in bs.           *)
Parted(bs) ==
  \/ \E m \in Mechanisms : EncryptInit(m)
  \/ EncryptInitFails
  \/ OaepFinal
  \/ \E buffer \in bs :
       \/ Final(buffer)
       \/ \E part \in Parts :
            Update(part, buffer) \/ GcmOnce(part, buffer) \/ OaepOnce(part, buffer)

LEMMA QuietReturn ==
  ASSUME ~spoiled, NEW part, NEW r, Return(r, part),
         Succeeds(r.rv) \/ (r.op.buffer = op.buffer /\ r.op.out = op.out)
  PROVE  ~spoiled'
BY DEF Return

LEMMA QuietStep ==
  ASSUME Inv, ~spoiled, NEW bs \in SUBSET Buffers, Parted(bs),
         Backend = "osx" \/ (Faults = FALSE /\ bs = {"enough"})
  PROVE  ~spoiled'
<1>0. op \in Operation
  BY DEF Inv, TypeOK
<1>1. CASE EncryptInitFails \/ \E m \in Mechanisms : EncryptInit(m)
  BY <1>1 DEF EncryptInitFails, EncryptInit, Begin
<1>2. ASSUME NEW r, NEW part, Return(r, part), r.op.buffer = op.buffer, r.op.out = op.out
      PROVE  ~spoiled'
  BY <1>2, QuietReturn
<1>3. Ended.buffer = op.buffer /\ Ended.out = op.out
  BY <1>0 DEF Ended, Operation
<1>4. CASE OaepFinal
  BY <1>2, <1>3, <1>4 DEF OaepFinal, Outcome
<1>5. ASSUME NEW part \in Parts, NEW buffer \in Buffers,
             GcmOnce(part, buffer) \/ OaepOnce(part, buffer)
      PROVE  ~spoiled'
  <2>1. PICK r \in WholeOutcomes(part) : Return(r, part)
    BY <1>5 DEF GcmOnce, OaepOnce, WholeOutcomes
  <2>2. Succeeds(r.rv) \/ (r.op.buffer = op.buffer /\ r.op.out = op.out)
    BY <1>3, <2>1 DEF WholeOutcomes, Outcome, Succeeds
  <2> QED
    BY <2>1, <2>2, QuietReturn
<1>6. ASSUME NEW buffer \in Buffers, Final(buffer)
      PROVE  ~spoiled'
  <2>1. PICK r \in Finals(op, buffer) : Return(r, <<>>)
    BY <1>6 DEF Final
  <2>2. [op EXCEPT !.active = FALSE].buffer = op.buffer /\ [op EXCEPT !.active = FALSE].out = op.out
    BY <1>0 DEF Operation
  <2>3. CASE r = Outcome("result", Finished(op))
    BY <2>1, <2>3, QuietReturn DEF Outcome, Succeeds
  <2>4. CASE r = Outcome("error", op)
    BY <2>1, <2>4, QuietReturn DEF Outcome
  <2>5. CASE r = Outcome("length", [op EXCEPT !.active = FALSE])
    BY <2>1, <2>2, <2>5, QuietReturn DEF Outcome
  <2> QED
    BY <1>0, <2>1, <2>3, <2>4, <2>5, FinalOutcome
<1>7. ASSUME NEW buffer \in bs, NEW part \in Parts, Update(part, buffer)
      PROVE  ~spoiled'
  <2>1. PICK r \in Updates(op, part, buffer) : Return(r, part)
    BY <1>7 DEF Update
  <2>2. part \in Seq(Bytes)
    BY PartsAreSequences
  <2>3. CASE Backend = "osx"
    <3>1. NotRun(op, part) = op
      BY <2>3 DEF NotRun
    <3>2. Succeeds(r.rv) \/ r.op = op
      BY <1>0, <2>1, <2>2, <3>1, UpdateOutcome DEF Succeeds
    <3> QED
      BY <2>1, <3>2, QuietReturn
  <2>4. CASE Faults = FALSE /\ buffer = "enough"
    <3>1. r.rv = "ok"
      BY <2>4 DEF Updates, Outcome
    <3> QED
      BY <2>1, <3>1, QuietReturn DEF Succeeds
  <2> QED
    BY <2>3, <2>4
<1> QED
  BY <1>1, <1>4, <1>5, <1>6, <1>7 DEF Parted

LEMMA Unspoiled ==
  /\ Init => ~spoiled
  /\ Inv /\ ~spoiled => StreamKeptOnRetry
BY DEF Init, Inv, StreamKept, StreamKeptOnRetry

(* On macOS a call that told a length, found its buffer too small or       *)
(* failed can be repeated, as CCCryptorUpdate does all or nothing: what    *)
(* Windows loses there is not lost.                                        *)
THEOREM RetriesAreSafe ==
  ASSUME Backend = "osx"
  PROVE  Spec /\ [][Parted(Buffers)]_vars => []StreamKeptOnRetry
<1>1. Buffers \in SUBSET Buffers
  BY DEF Buffers
<1>2. Inv /\ ~spoiled /\ [Parted(Buffers)]_vars => ~spoiled'
  BY <1>1, QuietStep DEF vars
<1> QED
  BY <1>2, Unspoiled, Invariance, PTL DEF Spec

(* On Windows too such a caller loses no byte when its buffers are always  *)
(* large enough, if no call to the platform library fails.                 *)
THEOREM RoomIsSafe ==
  ASSUME Faults = FALSE
  PROVE  Spec /\ [][Parted({"enough"})]_vars => []StreamKeptOnRetry
<1>1. {"enough"} \in SUBSET Buffers
  BY DEF Buffers
<1>2. Inv /\ ~spoiled /\ [Parted({"enough"})]_vars => ~spoiled'
  BY <1>1, QuietStep DEF vars
<1> QED
  BY <1>2, Unspoiled, Invariance, PTL DEF Spec

-----------------------------------------------------------------------------
(* Encryption implements Stream: an outcome of a call is a step of Stream  *)
(* if it starts nothing, ends what it has a result of, and only adds to    *)
(* what has gone through the cipher.                                       *)
Steady(r) ==
  /\ r.rv \in Replies
  /\ r.op.active => op.active
  /\ r.rv = "result" => ~r.op.active
  /\ r.rv = "ok" =>
       /\ op.active => r.op.active
       /\ \E s \in Seq(Bytes) : r.op.out = op.out \o s

LEMMA PrefixOfConcat ==
  ASSUME NEW s \in Seq(Bytes), NEW t \in Seq(Bytes)
  PROVE  Pipe!IsPrefix(s, s \o t)
<1>1. /\ s \o t \in Seq(Bytes)
      /\ Len(s \o t) = Len(s) + Len(t)
      /\ \A i \in 1..Len(s) + Len(t) :
           (s \o t)[i] = IF i <= Len(s) THEN s[i] ELSE t[i - Len(s)]
  BY ConcatProperties
<1>2. Len(s) \in Nat /\ Len(t) \in Nat
  OBVIOUS
<1>3. SubSeq(s, 1, Len(s)) = SubSeq(s \o t, 1, Len(s))
  BY <1>1, <1>2
<1> QED
  BY <1>1, <1>2, <1>3 DEF Pipe!IsPrefix

LEMMA ReturnPipe ==
  ASSUME Inv, Inv', Covered, NEW part \in Parts, NEW r, Steady(r), Return(r, part),
         r.rv = "length" => r.op = op
  PROVE  Pipe!Next
<1>1. /\ op' = r.op /\ reply' = r.rv
      /\ spoiled' = (spoiled \/ (~Succeeds(r.rv) /\ <<r.op.buffer, r.op.out>> # <<op.buffer, op.out>>))
      /\ given' = IF Succeeds(r.rv) THEN given \o part ELSE given
  BY DEF Return
<1>2. CASE ~(op.active /\ ~spoiled)
  <2>1. ~(op'.active /\ ~spoiled')
    BY <1>1, <1>2 DEF Steady
  <2> QED
    BY <1>2, <2>1 DEF Pipe!Next, Pipe!Over
<1>3. CASE op.active /\ ~spoiled
  <2>1. CASE r.rv = "ok"
    <3>1. op'.active /\ ~spoiled' /\ given' = given \o part /\ reply' = "ok"
      BY <1>1, <1>3, <2>1 DEF Steady, Succeeds
    <3>2. Pipe!IsPrefix(op.out, op'.out)
      <4>1. PICK s \in Seq(Bytes) : r.op.out = op.out \o s
        BY <2>1 DEF Steady
      <4>2. op.out \in Seq(Bytes)
        BY DEF Inv, TypeOK, Operation
      <4> QED
        BY <1>1, <4>1, <4>2, PrefixOfConcat
    <3>3. Pipe!IsPrefix(op'.out, given')
      <4>1. given' = op'.out \o op'.buffer
        BY <3>1 DEF Inv, StreamKept
      <4>2. op'.out \in Seq(Bytes) /\ op'.buffer \in Seq(Bytes)
        BY DEF Inv, TypeOK, Operation
      <4> QED
        BY <4>1, <4>2, PrefixOfConcat
    <3> QED
      BY <1>3, <3>1, <3>2, <3>3 DEF Pipe!Next, Pipe!Continue, Pipe!Takes
  <2>2. CASE r.rv = "result"
    <3>1. ~op'.active /\ given' = given \o part /\ reply' = "result"
      BY <1>1, <2>2 DEF Steady, Succeeds
    <3>2. op'.out = given'
      BY <1>3, <3>1 DEF Covered
    <3> QED
      BY <1>3, <3>1, <3>2 DEF Pipe!Next, Pipe!Finish, Pipe!Takes
  <2>3. CASE r.rv \in {"length", "error"}
    <3>1. given' = given /\ reply' = r.rv
      BY <1>1, <2>3 DEF Succeeds
    <3>2. CASE op'.active /\ ~spoiled'
      <4>1. op'.out = op.out
        BY <1>1, <2>3, <3>2 DEF Succeeds
      <4> QED
        BY <1>3, <2>3, <3>1, <3>2, <4>1 DEF Pipe!Next, Pipe!Refuse
    <3>3. CASE ~(op'.active /\ ~spoiled')
      <4>1. r.rv # "length"
        BY <1>1, <1>3, <3>3
      <4> QED
        BY <1>3, <2>3, <3>1, <3>3, <4>1 DEF Pipe!Next, Pipe!Break
    <3> QED
      BY <3>2, <3>3
  <2> QED
    BY <2>1, <2>2, <2>3 DEF Steady, Replies
<1> QED
  BY <1>2, <1>3

(* The outcomes of the calls are of that kind.                             *)
LEMMA UpdateSteady ==
  ASSUME NEW o \in Operation, NEW part \in Seq(Bytes), NEW buffer \in Buffers,
         NEW r \in Updates(o, part, buffer), o = op
  PROVE  Steady(r)
<1>1. CASE r.rv = "ok"
  <2>1. r.op = Fed(op, part)
    BY <1>1, UpdateOutcome
  <2>2. Fed(op, part).active = op.active
    BY DEF Fed, Operation
  <2>3. PICK s \in Seq(Bytes) : Fed(op, part).out = op.out \o s
    <3> DEFINE data == op.buffer \o part
               n == Len(data) - Kept(op, Len(data))
    <3>1. data \in Seq(Bytes) /\ Len(data) \in Nat
      BY DEF Operation
    <3>2. n \in 0..Len(data)
      BY <3>1, KeptBounds
    <3>3. Front(data, n) \in Seq(Bytes)
      BY <3>1, <3>2, CutAndJoin
    <3>4. Fed(op, part).out = op.out \o Front(data, n)
      BY DEF Fed, Operation
    <3> QED
      BY <3>3, <3>4
  <2> QED
    BY <1>1, <2>1, <2>2, <2>3 DEF Steady, Replies
<1>2. CASE r.rv # "ok"
  <2>1. r.op = NotRun(op, part) /\ r.rv \in {"length", "error"}
    BY <1>2, UpdateOutcome
  <2>2. NotRun(op, part).active => op.active
    BY NotRunIsTyped
  <2> QED
    BY <2>1, <2>2 DEF Steady, Replies
<1> QED
  BY <1>1, <1>2

LEMMA FinalSteady ==
  ASSUME NEW o \in Operation, o.active => op.active, NEW buffer \in Buffers,
         NEW r \in Finals(o, buffer)
  PROVE  Steady(r)
<1>1. ~[o EXCEPT !.active = FALSE].active
  BY DEF Operation
<1>2. CASE r = Outcome("result", Finished(o))
  BY <1>2, FinishedCovers DEF Steady, Outcome, Replies
<1>3. CASE r = Outcome("error", o)
  BY <1>3 DEF Steady, Outcome, Replies
<1>4. CASE r = Outcome("length", [o EXCEPT !.active = FALSE])
  BY <1>1, <1>4 DEF Steady, Outcome, Replies
<1> QED
  BY <1>2, <1>3, <1>4, FinalOutcome

LEMMA WholeSteady ==
  ASSUME NEW data, op \in Operation, NEW r \in WholeOutcomes(data)
  PROVE  Steady(r)
<1>1. ~Ended.active /\ ~Whole(data).active
  BY DEF Ended, Whole, Operation
<1> QED
  BY <1>1 DEF Steady, WholeOutcomes, Outcome, Replies

LEMMA NothingIsAPart == <<>> \in Parts
<1>1. 0 \in 0..MaxPart
  BY BoundsAssumption
<1>2. <<>> \in [1..0 -> Bytes]
  OBVIOUS
<1> QED
  BY <1>1, <1>2 DEF Parts

(* A call with a buffer is not told a length.                              *)
LEMMA NotAsked ==
  ASSUME NEW o, NEW part, NEW buffer \in Buffers, buffer # "null"
  PROVE  /\ \A r \in Updates(o, part, buffer) : r.rv # "length"
         /\ \A r \in Finals(o, buffer) : r.rv # "length"
<1>1. buffer \in {"small", "enough"}
  BY DEF Buffers
<1>2. ASSUME NEW r \in Updates(o, part, buffer)
      PROVE  r.rv # "length"
  BY <1>1, <1>2 DEF Updates, Outcome
<1>3. ASSUME NEW r \in Finals(o, buffer)
      PROVE  r.rv # "length"
  BY <1>1, <1>3 DEF Finals, Outcome
<1> QED
  BY <1>2, <1>3

(* Every call is a step of Stream, or one of the length questions of       *)
(* mscapi: an Init starts an operation, the others have steady outcomes.   *)
LEMMA PipeStep == Inv /\ Inv' /\ Next => Pipe!Next \/ AskedToDeath
<1> DEFINE Goal == Pipe!Next \/ AskedToDeath
<1> SUFFICES ASSUME Inv, Inv', Next PROVE Goal
  OBVIOUS
<1>0. Covered /\ op \in Operation
  BY NextStep DEF Inv, TypeOK
<1>1. ASSUME NEW m \in Mechanisms, EncryptInit(m)
      PROVE  Goal
  <2>1. /\ ~op.active /\ op'.active /\ op'.out = <<>>
        /\ given' = <<>> /\ ~spoiled' /\ reply' = "ok"
    BY <1>1 DEF EncryptInit, Begin, NoOperation
  <2> QED
    BY <2>1 DEF Pipe!Next, Pipe!Start
<1>2. CASE EncryptInitFails
  <2>1. ~op.active /\ ~op'.active
    BY <1>2 DEF EncryptInitFails, Begin, NoOperation
  <2> QED
    BY <2>1 DEF Pipe!Next, Pipe!Over
<1>3. ASSUME NEW part \in Parts, NEW r, Steady(r), Return(r, part),
             r.rv = "length" => r.op = op
      PROVE  Goal
  BY <1>0, <1>3, ReturnPipe
<1>4. CASE OaepFinal
  <2>1. Return(Outcome("error", Ended), <<>>)
    BY <1>4 DEF OaepFinal
  <2>2. Steady(Outcome("error", Ended))
    BY <1>0, WholeSteady DEF WholeOutcomes
  <2>3. Outcome("error", Ended).rv # "length"
    BY DEF Outcome
  <2> QED
    BY <1>3, <2>1, <2>2, <2>3, NothingIsAPart
<1>5. ASSUME NEW buffer \in Buffers, Final(buffer)
      PROVE  Goal
  <2>1. PICK r \in Finals(op, buffer) : Return(r, <<>>)
    BY <1>5 DEF Final
  <2>2. Steady(r)
    BY <1>0, FinalSteady
  <2>3. CASE r.rv # "length"
    BY <1>3, <2>1, <2>2, <2>3, NothingIsAPart
  <2>4. CASE r.rv = "length"
    <3>1. buffer = "null"
      BY <2>4, NotAsked
    <3>2. Backend = "mscapi"
      BY <1>5, <3>1, BackendAssumption DEF Final, Callable
    <3> QED
      BY <1>5, <2>1, <2>4, <3>1, <3>2 DEF AskedToDeath, Return
  <2> QED
    BY <2>3, <2>4
<1>6. ASSUME NEW part \in Parts, NEW buffer \in Buffers, Update(part, buffer)
      PROVE  Goal
  <2>1. PICK r \in Updates(op, part, buffer) : Return(r, part)
    BY <1>6 DEF Update
  <2>2. Steady(r)
    BY <1>0, UpdateSteady, PartsAreSequences
  <2>3. CASE r.rv # "length"
    BY <1>3, <2>1, <2>2, <2>3
  <2>4. CASE r.rv = "length"
    <3>1. buffer = "null"
      BY <2>4, NotAsked
    <3>2. Backend = "mscapi"
      BY <1>6, <3>1, BackendAssumption DEF Update, Callable
    <3> QED
      BY <1>6, <2>1, <2>4, <3>1, <3>2 DEF AskedToDeath, Return
  <2> QED
    BY <2>3, <2>4
<1>7. ASSUME NEW part \in Parts, NEW buffer \in Buffers, GcmOnce(part, buffer)
      PROVE  Goal
  <2>1. PICK r \in WholeOutcomes(part) :
          Return(r, part) /\ (r.rv = "length" => r.op = op)
    BY <1>7 DEF GcmOnce, WholeOutcomes, Outcome
  <2> QED
    BY <1>0, <1>3, <2>1, WholeSteady
<1>8. ASSUME NEW part \in Parts, NEW buffer \in Buffers, OaepOnce(part, buffer)
      PROVE  Goal
  <2>1. CASE buffer = "null" /\ Return(Outcome("length", Ended), part)
    <3>1. Backend = "mscapi"
      BY <1>0, <1>8 DEF OaepOnce, Operation, Mechanisms, Blockwise
    <3>2. reply' = "length"
      BY <2>1 DEF Return, Outcome
    <3> QED
      BY <1>8, <2>1, <3>1, <3>2 DEF AskedToDeath
  <2>2. CASE ~(buffer = "null" /\ Return(Outcome("length", Ended), part))
    <3>1. PICK r \in WholeOutcomes(part) : Return(r, part) /\ r.rv # "length"
      BY <1>8, <2>2 DEF OaepOnce, WholeOutcomes, Outcome
    <3> QED
      BY <1>0, <1>3, <3>1, WholeSteady
  <2> QED
    BY <2>1, <2>2
<1>9. ASSUME NEW part \in Parts, NEW first \in Buffers, NEW last \in Buffers,
             Once(part, first, last)
      PROVE  Goal
  <2>1. PICK u \in Updates(op, part, first) :
          IF u.rv = "ok" THEN \E r \in Finals(u.op, last) : Return(r, part)
                         ELSE Return(u, part)
    BY <1>9 DEF Once
  <2>2. part \in Seq(Bytes) /\ first # "null" /\ last # "null"
    BY <1>9, PartsAreSequences DEF Once
  <2>3. Steady(u)
    BY <1>0, <2>2, UpdateSteady
  <2>4. CASE u.rv = "ok"
    <3>1. u.op = Fed(op, part)
      BY <1>0, <2>2, <2>4, UpdateOutcome
    <3>2. Fed(op, part) \in Operation
      BY <1>0, <2>2, FedMoves
    <3>3. u.op \in Operation /\ (u.op.active => op.active)
      BY <2>3, <3>1, <3>2 DEF Steady
    <3>4. PICK r \in Finals(u.op, last) : Return(r, part)
      BY <2>1, <2>4
    <3>5. r.rv # "length" /\ Steady(r)
      BY <2>2, <3>3, NotAsked, FinalSteady
    <3> QED
      BY <1>3, <3>4, <3>5
  <2>5. CASE u.rv # "ok"
    <3>1. u.rv # "length" /\ Return(u, part)
      BY <2>1, <2>2, <2>5, NotAsked
    <3> QED
      BY <1>3, <2>3, <3>1
  <2> QED
    BY <2>4, <2>5
<1> QED
  BY <1>1, <1>2, <1>4, <1>5, <1>6, <1>7, <1>8, <1>9 DEF Next

LEMMA PipeInit == Init => Pipe!Init
BY DEF Init, NoOperation, Pipe!Init

LEMMA PipeStutter == UNCHANGED vars => UNCHANGED Pipe!vars
BY DEF vars, Pipe!vars

(* For every cipher, block size and way to cut the message, bytes go       *)
(* through in order and are not taken back, a result is of all of them,    *)
(* and an operation is neither started over nor broken off without its     *)
(* caller being told: but for the length questions of AskedToDeath.        *)
THEOREM ImplementsStream == Spec => PipeSpec
<1>1. Inv /\ Inv' /\ [Next]_vars => [Pipe!Next \/ AskedToDeath]_Pipe!vars
  BY PipeStep, PipeStutter
<1> QED
  BY <1>1, PipeInit, Invariance, PTL DEF Spec, PipeSpec

(* On macOS encryption and decryption keep the promise of Stream without   *)
(* an exception: the base class refuses a call without a buffer.           *)
THEOREM MacKeepsPromise ==
  ASSUME Backend = "osx"
  PROVE  Spec => Pipe!Spec
<1>1. ~AskedToDeath
  BY DEF AskedToDeath
<1>2. Inv /\ Inv' /\ [Next]_vars => [Pipe!Next]_Pipe!vars
  BY <1>1, PipeStep, PipeStutter
<1> QED
  BY <1>2, PipeInit, Invariance, PTL DEF Spec, Pipe!Spec

(* On Windows too they keep it for a caller that gives every call a        *)
(* buffer, as large or small as it likes, whatever fails.                  *)
THEOREM BuffersKeepPromise == Spec /\ [][~AskedToDeath]_vars => Pipe!Spec
<1>1. Inv /\ Inv' /\ [Next]_vars /\ [~AskedToDeath]_vars => [Pipe!Next]_Pipe!vars
  BY PipeStep, PipeStutter
<1> QED
  BY <1>1, PipeInit, Invariance, PTL DEF Spec, Pipe!Spec
=============================================================================
