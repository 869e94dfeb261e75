-------------------------- MODULE OperationsProofs --------------------------
(***************************************************************************)
(* Proofs about module Operations.  What an operation has absorbed is what *)
(* its caller has passed because every outcome of a Final leaves one of    *)
(* three things: the operation it was given, an idle one, or a wedged one, *)
(* and a result leaves only an idle one.                                   *)
(***************************************************************************)
EXTENDS Operations, SequenceTheorems, TLAPS

(* What the outcome r of a Final of operation o may be.                    *)
Fair(k, o, buffer, r) ==
  /\ r.rv \in {"length", "error", "result"}
  /\ r.op \in {o, Idle, Wedged}
  /\ k = "digest" => r.op \in {o, Idle}
  /\ r.rv = "result" => r.op = Idle /\ ~(k = "digest" /\ buffer = "null")

(* Every outcome of CryptoDigest::Final and CryptoSign::Final is fair, on  *)
(* both platforms and with failing platform calls.                         *)
LEMMA OutcomesAreFair ==
  ASSUME NEW k \in Kinds, NEW o, NEW buffer \in Buffers,
         NEW r \in Finals(k, o, buffer)
  PROVE  Fair(k, o, buffer, r)
<1>1. CASE k = "digest"
  <2>1. r \in DigestFinal(o, buffer)
    BY <1>1 DEF Finals
  <2>2. \/ r \in {Outcome("length", IF Backend = "osx" THEN Idle ELSE o)} /\ buffer = "null"
        \/ r \in {Outcome("error", o)}
        \/ r = Outcome("result", Idle) /\ buffer = "enough"
        \/ r = Outcome("error", Idle)
    BY <2>1 DEF DigestFinal, Buffers
  <2> QED
    BY <1>1, <2>2 DEF Fair, Outcome
<1>2. CASE k # "digest"
  <2>1. \/ r \in SignFinal(o, buffer)
        \/ r \in VerifyFinal(o, buffer)
    BY <1>2 DEF Finals, Kinds
  <2>2. \/ r \in {Outcome("length", o), Outcome("error", o)}
        \/ r = Outcome("result", Idle)
        \/ r \in SignFaults("sign", o) \cup SignFaults("verify", o)
    BY <2>1 DEF SignFinal, VerifyFinal, Buffers
  <2>3. \/ r \in {Outcome("length", o), Outcome("error", o)}
        \/ r = Outcome("result", Idle)
        \/ r \in {Outcome("error", Wedged), Outcome("error", Idle)}
    BY <2>2 DEF SignFaults
  <2> QED
    BY <1>2, <2>3 DEF Fair, Outcome
<1> QED
  BY <1>1, <1>2

(* Feeding an operation is never the identity.                             *)
LEMMA AbsorbChanges ==
  ASSUME NEW o \in Operation, NEW d \in Data
  PROVE  /\ Absorb(o, d) \in Operation
         /\ Absorb(o, d) # o
         /\ Absorb(o, d).data = Append(o.data, d)
         /\ Absorb(o, d).active = o.active
         /\ Absorb(o, d).alive = o.alive
<1>1. o.data \in Seq(Data)
  BY DEF Operation
<1>2. Append(o.data, d) \in Seq(Data) /\ Append(o.data, d) # o.data
  BY <1>1
<1> QED
  BY <1>2 DEF Absorb, Operation

LEMMA FedIsTyped ==
  ASSUME NEW k \in Kinds, NEW d \in Data, NEW buffer \in Buffers, op[k] \in Operation
  PROVE  /\ Fed(k, d, buffer) \in Operation
         /\ Fed(k, d, buffer).active = op[k].active
         /\ Fed(k, d, buffer).alive = op[k].alive
         /\ Fed(k, d, buffer) \in {op[k], Absorb(op[k], d)}
         /\ ~(k = "digest" /\ buffer = "null") => Fed(k, d, buffer) = Absorb(op[k], d)
  BY AbsorbChanges DEF Fed

LEMMA ConstantOperations ==
  /\ Idle \in Operation /\ Started \in Operation /\ Wedged \in Operation
  /\ ~Idle.active /\ ~Idle.alive /\ Started.active /\ Started.alive
  /\ Started.data = <<>> /\ ~Wedged.alive
  /\ Idle.active = Idle.alive
  BY DEF Idle, Started, Wedged, Operation

-----------------------------------------------------------------------------
(* A result ends the operation it is the result of: until another call is  *)
(* answered, that operation is idle.                                       *)
ResultEnds == reply.rv = "result" => ~op[reply.kind].active

Inv == TypeOK /\ AbsorbedIsPassed /\ ResultEnds

LEMMA InitInv == Init => Inv
<1> SUFFICES ASSUME Init PROVE Inv
  OBVIOUS
<1>1. TypeOK
  <2>1. op \in [Kinds -> Operation]
    BY ConstantOperations DEF Init
  <2>4. op["digest"] = Idle
    BY DEF Init, Kinds
  <2>5. op["digest"].active = op["digest"].alive
    BY <2>4, ConstantOperations
  <2>2. <<>> \in Seq(Data)
    OBVIOUS
  <2>3. parts \in [Kinds -> Seq(Data)] /\ partial \in [Kinds -> BOOLEAN]
    BY <2>2 DEF Init
  <2>6. reply \in Reply
    BY <2>2 DEF Init, Plain, Reply, Kinds
  <2> QED
    BY <2>1, <2>3, <2>5, <2>6 DEF Init, TypeOK
<1>2. AbsorbedIsPassed
  BY ConstantOperations DEF Init, AbsorbedIsPassed, Running
<1>3. ResultEnds
  BY DEF Init, ResultEnds, Plain
<1> QED
  BY <1>1, <1>2, <1>3 DEF Inv

LEMMA PlainIsReply ==
  ASSUME NEW k \in Kinds, NEW rv \in {"ok", "length", "error"}
  PROVE  Plain(k, rv) \in Reply /\ Plain(k, rv).kind = k /\ Plain(k, rv).rv # "result"
  BY DEF Plain, Reply

(* Starting an operation, successfully or not.                             *)
LEMMA FreshInv ==
  ASSUME Inv, NEW k \in Kinds, NEW o \in Operation,
         NEW rv \in {"ok", "length", "error"}, Fresh(k, o, rv),
         o.data = <<>>,
         k = "digest" => o.active = o.alive
  PROVE  Inv'
<1>1. TypeOK'
  <2>1. op' \in [Kinds -> Operation]
    BY DEF Fresh, Inv, TypeOK
  <2>2. parts' \in [Kinds -> Seq(Data)] /\ partial' \in [Kinds -> BOOLEAN]
    BY DEF Fresh, Inv, TypeOK
  <2>3. reply' \in Reply
    BY PlainIsReply DEF Fresh
  <2>4. op'["digest"].active = op'["digest"].alive
    BY DEF Fresh, Inv, TypeOK, Kinds
  <2>5. pss' \in BOOLEAN
    BY FaultsAssumption DEF Fresh, Inv, TypeOK
  <2> QED
    BY <2>1, <2>2, <2>3, <2>4, <2>5 DEF Fresh, Inv, TypeOK
<1>2. AbsorbedIsPassed'
  <2> SUFFICES ASSUME NEW j \in Kinds, Running(j)', ~partial'[j]
               PROVE  op'[j].data = parts'[j]
    BY DEF AbsorbedIsPassed
  <2>1. CASE j = k
    BY <2>1 DEF Fresh, Inv, TypeOK
  <2>2. CASE j # k
    BY <2>2 DEF Fresh, Inv, TypeOK, AbsorbedIsPassed, Running
  <2> QED
    BY <2>1, <2>2
<1>3. ResultEnds'
  BY PlainIsReply DEF Fresh, ResultEnds
<1> QED
  BY <1>1, <1>2, <1>3 DEF Inv

LEMMA UpdateInv ==
  ASSUME Inv, NEW k \in Kinds, NEW d \in Data, Update(k, d)
  PROVE  Inv'
<1>0. op[k] \in Operation
  BY DEF Inv, TypeOK
<1>1. TypeOK'
  <2>1. op' \in [Kinds -> Operation]
    BY <1>0, AbsorbChanges DEF Update, Inv, TypeOK
  <2>2. parts' \in [Kinds -> Seq(Data)]
    BY DEF Update, Inv, TypeOK
  <2>3. reply' \in Reply
    BY PlainIsReply DEF Update
  <2>4. op'["digest"].active = op'["digest"].alive
    BY <1>0, AbsorbChanges DEF Update, Inv, TypeOK, Kinds
  <2> QED
    BY <2>1, <2>2, <2>3, <2>4 DEF Update, Inv, TypeOK
<1>2. AbsorbedIsPassed'
  <2> SUFFICES ASSUME NEW j \in Kinds, Running(j)', ~partial'[j]
               PROVE  op'[j].data = parts'[j]
    BY DEF AbsorbedIsPassed
  <2>1. CASE j = k
    <3>1. Running(k) /\ ~partial[k]
      BY <2>1 DEF Update, Inv, TypeOK
    <3>2. op[k].data = parts[k]
      BY <3>1 DEF Inv, AbsorbedIsPassed
    <3>3. op'[j] = Absorb(op[k], d) /\ parts'[j] = Append(parts[k], d)
      BY <2>1 DEF Update, Inv, TypeOK
    <3>4. Absorb(op[k], d).data = Append(op[k].data, d)
      BY <1>0, AbsorbChanges
    <3> QED
      BY <3>2, <3>3, <3>4
  <2>2. CASE j # k
    BY <2>2 DEF Update, Inv, TypeOK, AbsorbedIsPassed, Running
  <2> QED
    BY <2>1, <2>2
<1>3. ResultEnds'
  BY PlainIsReply DEF Update, ResultEnds
<1> QED
  BY <1>1, <1>2, <1>3 DEF Inv

-----------------------------------------------------------------------------
(* A call that ends with a fair outcome, having absorbed fed.              *)
LEMMA ReturnInv ==
  ASSUME Inv, NEW k \in Kinds, Running(k),
         NEW fed \in Operation, fed.active = op[k].active, fed.alive = op[k].alive,
         NEW asked \in Seq(Data), NEW buffer \in Buffers,
         NEW r, Fair(k, fed, buffer, r), Return(k, r, fed, asked)
  PROVE  Inv'
<1>0. op[k] \in Operation /\ r.op \in Operation
  BY ConstantOperations DEF Fair, Inv, TypeOK
<1>1. TypeOK'
  <2>1. op' \in [Kinds -> Operation]
    BY <1>0 DEF Return, Inv, TypeOK
  <2>2. parts' \in [Kinds -> Seq(Data)]
    BY DEF Return, Inv, TypeOK
  <2>3. partial' \in [Kinds -> BOOLEAN]
    <3>1. (r.op.active /\ (partial[k] \/ fed # op[k])) \in BOOLEAN
      BY <1>0 DEF Operation, Inv, TypeOK
    <3> QED
      BY <3>1 DEF Return, Inv, TypeOK
  <2>4. reply' \in Reply
    <3>1. CASE r.rv = "result"
      BY <3>1 DEF Return, Answer, Reply, Operation
    <3>2. CASE r.rv # "result"
      BY <3>2, PlainIsReply DEF Return, Answer, Fair
    <3> QED
      BY <3>1, <3>2
  <2>5. op'["digest"].active = op'["digest"].alive
    <3>1. CASE k = "digest"
      <4>1. fed.active = fed.alive
        BY <3>1 DEF Inv, TypeOK
      <4>2. r.op \in {fed, Idle}
        BY <3>1 DEF Fair
      <4>3. r.op.active = r.op.alive
        BY <4>1, <4>2, ConstantOperations
      <4>4. op'["digest"] = r.op
        BY <3>1 DEF Return, Inv, TypeOK
      <4> QED
        BY <4>3, <4>4
    <3>2. CASE k # "digest"
      BY <3>2 DEF Return, Inv, TypeOK, Kinds
    <3> QED
      BY <3>1, <3>2
  <2> QED
    BY <2>1, <2>2, <2>3, <2>4, <2>5 DEF Return, Inv, TypeOK
<1>2. AbsorbedIsPassed'
  <2> SUFFICES ASSUME NEW j \in Kinds, Running(j)', ~partial'[j]
               PROVE  op'[j].data = parts'[j]
    BY DEF AbsorbedIsPassed
  <2>1. CASE j = k
    <3>1. op'[k] = r.op /\ r.op.active /\ r.op.alive
      BY <2>1 DEF Return, Inv, TypeOK, Running
    <3>2. r.op = fed
      BY <3>1, ConstantOperations DEF Fair
    <3>3. ~partial[k] /\ fed = op[k]
      BY <2>1, <3>1 DEF Return, Inv, TypeOK
    <3>4. parts'[k] = parts[k]
      BY <3>1 DEF Return, Inv, TypeOK
    <3> QED
      BY <2>1, <3>1, <3>2, <3>3, <3>4 DEF Inv, AbsorbedIsPassed
  <2>2. CASE j # k
    BY <2>2 DEF Return, Inv, TypeOK, AbsorbedIsPassed, Running
  <2> QED
    BY <2>1, <2>2
<1>3. ResultEnds'
  <2>1. CASE r.rv = "result"
    BY <2>1, ConstantOperations DEF Return, Answer, Fair, ResultEnds, Inv, TypeOK
  <2>2. CASE r.rv # "result"
    BY <2>2, PlainIsReply DEF Return, Answer, Fair, ResultEnds
  <2> QED
    BY <2>1, <2>2
<1> QED
  BY <1>1, <1>2, <1>3 DEF Inv

LEMMA FinalInv ==
  ASSUME Inv, NEW k \in Kinds, NEW buffer \in Buffers, Final(k, buffer)
  PROVE  Inv'
<1>1. PICK r \in Finals(k, op[k], buffer) : Return(k, r, op[k], parts[k])
  BY DEF Final
<1>2. Fair(k, op[k], buffer, r)
  BY OutcomesAreFair
<1>3. Running(k) /\ op[k] \in Operation /\ parts[k] \in Seq(Data)
  BY DEF Final, Inv, TypeOK
<1> QED
  BY <1>1, <1>2, <1>3, ReturnInv

LEMMA OnceInv ==
  ASSUME Inv, NEW k \in Kinds, NEW d \in Data, NEW buffer \in Buffers,
         Once(k, d, buffer)
  PROVE  Inv'
<1> DEFINE fed == Fed(k, d, buffer)
<1>1. PICK r \in Finals(k, fed, buffer) : Return(k, r, fed, Append(parts[k], d))
  BY DEF Once
<1>2. Fair(k, fed, buffer, r)
  BY OutcomesAreFair
<1>3. Running(k) /\ op[k] \in Operation /\ Append(parts[k], d) \in Seq(Data)
  BY DEF Once, Inv, TypeOK
<1>4. fed \in Operation /\ fed.active = op[k].active /\ fed.alive = op[k].alive
  BY <1>3, FedIsTyped
<1> HIDE DEF fed
<1> QED
  BY <1>1, <1>2, <1>3, <1>4, ReturnInv

(* A step is a call of one of the three operations or of the decryption.   *)
LEMMA Calls ==
  ASSUME Next
  PROVE  \/ DigestInit \/ DecryptInit \/ DecryptEnds \/ FinalUnasked
         \/ \E k \in Kinds :
              \/ SignInit(k) \/ SignInitFails(k)
              \/ \E d \in Data : Update(k, d)
              \/ \E buffer \in Buffers :
                   Final(k, buffer) \/ \E d \in Data : Once(k, d, buffer)
<1>1. {"digest", "sign", "verify"} = Kinds
  BY DEF Kinds
<1>2. ASSUME NEW k \in Kinds, Served(k)
      PROVE  \/ \E d \in Data : Update(k, d)
             \/ \E buffer \in Buffers :
                  Final(k, buffer) \/ \E d \in Data : Once(k, d, buffer)
  BY <1>2 DEF Served
<1>3. CASE DigestCall
  BY <1>1, <1>2, <1>3 DEF DigestCall
<1>4. CASE SignCall
  BY <1>1, <1>2, <1>4 DEF SignCall
<1>5. CASE VerifyCall
  BY <1>1, <1>2, <1>5 DEF VerifyCall
<1>6. CASE DecryptCall
  BY <1>6 DEF DecryptCall
<1> QED
  BY <1>3, <1>4, <1>5, <1>6 DEF Next

LEMMA NextInv == Inv /\ [Next]_vars => Inv'
<1> SUFFICES ASSUME Inv, [Next]_vars PROVE Inv'
  OBVIOUS
<1>1. CASE DigestInit
  BY <1>1, FreshInv, ConstantOperations DEF DigestInit, Kinds
<1>2. CASE DecryptInit \/ DecryptEnds
  BY <1>2 DEF DecryptInit, DecryptEnds, Inv, TypeOK, AbsorbedIsPassed,
              ResultEnds, Running
<1>9. CASE FinalUnasked
  <2>1. reply' \in Reply /\ reply'.rv # "result"
    BY <1>9, PlainIsReply DEF FinalUnasked, Kinds
  <2> QED
    BY <1>9, <2>1 DEF FinalUnasked, Inv, TypeOK, AbsorbedIsPassed, ResultEnds, Running
<1>3. ASSUME NEW k \in Kinds, SignInit(k) PROVE Inv'
  BY <1>3, FreshInv, ConstantOperations DEF SignInit
<1>4. ASSUME NEW k \in Kinds, SignInitFails(k) PROVE Inv'
  <2>1. PICK alive \in {FALSE, Backend = "osx"} :
          Fresh(k, [active |-> FALSE, alive |-> alive, data |-> <<>>], "error")
    BY <1>4 DEF SignInitFails
  <2>2. /\ [active |-> FALSE, alive |-> alive, data |-> <<>>] \in Operation
        /\ [active |-> FALSE, alive |-> alive, data |-> <<>>].data = <<>>
    <3>1. alive \in BOOLEAN
      OBVIOUS
    <3>2. <<>> \in Seq(Data)
      OBVIOUS
    <3> QED
      BY <3>1, <3>2 DEF Operation
  <2> QED
    BY <1>4, <2>1, <2>2, FreshInv DEF SignInitFails
<1>5. ASSUME NEW k \in Kinds, NEW d \in Data, Update(k, d) PROVE Inv'
  BY <1>5, UpdateInv
<1>6. ASSUME NEW k \in Kinds, NEW buffer \in Buffers, Final(k, buffer) PROVE Inv'
  BY <1>6, FinalInv
<1>7. ASSUME NEW k \in Kinds, NEW buffer \in Buffers, NEW d \in Data,
             Once(k, d, buffer)
      PROVE  Inv'
  BY <1>7, OnceInv
<1>8. CASE UNCHANGED vars
  BY <1>8 DEF vars, Inv, TypeOK, AbsorbedIsPassed, ResultEnds, Running
<1> QED
  BY <1>1, <1>2, <1>3, <1>4, <1>5, <1>6, <1>7, <1>8, <1>9, Calls

(* Every variable keeps its type, and a digest operation is active exactly *)
(* as long as its hash object exists (CryptoDigest::active on mscapi).     *)
THEOREM TypeCorrect == Spec => []TypeOK
<1>1. Inv => TypeOK
  BY DEF Inv
<1> QED
  BY <1>1, InitInv, NextInv, PTL DEF Spec

(* A running operation has absorbed what its caller passed to Update, on   *)
(* both platforms and whatever the platform library does.                  *)
THEOREM AbsorbsWhatIsPassed == Spec => []AbsorbedIsPassed
<1>1. Inv => AbsorbedIsPassed
  BY DEF Inv
<1> QED
  BY <1>1, InitInv, NextInv, PTL DEF Spec

-----------------------------------------------------------------------------
Covered(k) ==
  reply'.kind = k /\ reply'.rv = "result" /\ op[k].active /\ ~partial[k]
    => reply'.covers = reply'.asked

(* A returned result covers what the caller asked for.                     *)
LEMMA ReturnCovers ==
  ASSUME Inv, NEW k \in Kinds, NEW fed, NEW asked, NEW r,
         Return(k, r, fed, asked),
         r.rv = "result" /\ ~partial[k] => fed.data = asked,
         NEW j \in Kinds
  PROVE  Covered(j)
  BY DEF Return, Answer, Plain, Covered

LEMMA NextCovers ==
  ASSUME Inv, [Next]_vars, NEW j \in Kinds
  PROVE  Covered(j)
<1>1. ASSUME NEW k \in Kinds, NEW o, NEW rv \in {"ok", "error"}, Fresh(k, o, rv)
      PROVE  Covered(j)
  BY <1>1 DEF Fresh, Plain, Covered
<1>2. CASE DigestInit
  BY <1>1, <1>2 DEF DigestInit, Kinds
<1>3. CASE DecryptInit \/ DecryptEnds \/ FinalUnasked \/ UNCHANGED vars
  BY <1>3 DEF DecryptInit, DecryptEnds, FinalUnasked, Plain, vars, Covered, Inv, ResultEnds
<1>4. ASSUME NEW k \in Kinds, SignInit(k) \/ SignInitFails(k) PROVE Covered(j)
  BY <1>1, <1>4 DEF SignInit, SignInitFails
<1>5. ASSUME NEW k \in Kinds, NEW d \in Data, Update(k, d) PROVE Covered(j)
  BY <1>5 DEF Update, Plain, Covered
<1>6. ASSUME NEW k \in Kinds, NEW buffer \in Buffers, Final(k, buffer)
      PROVE  Covered(j)
  <2>1. PICK r \in Finals(k, op[k], buffer) : Return(k, r, op[k], parts[k])
    BY <1>6 DEF Final
  <2>2. ~partial[k] => op[k].data = parts[k]
    BY <1>6 DEF Final, Inv, AbsorbedIsPassed
  <2> QED
    BY <2>1, <2>2, ReturnCovers
<1>7. ASSUME NEW k \in Kinds, NEW buffer \in Buffers, NEW d \in Data,
             Once(k, d, buffer)
      PROVE  Covered(j)
  <2> DEFINE fed == Fed(k, d, buffer)
  <2>1. PICK r \in Finals(k, fed, buffer) : Return(k, r, fed, Append(parts[k], d))
    BY <1>7 DEF Once
  <2>2. Fair(k, fed, buffer, r)
    BY OutcomesAreFair
  <2>3. op[k] \in Operation
    BY DEF Inv, TypeOK
  <2>4. r.rv = "result" => fed.data = Append(op[k].data, d)
    BY <2>2, <2>3, FedIsTyped, AbsorbChanges DEF Fair
  <2>5. ~partial[k] => op[k].data = parts[k]
    BY <1>7 DEF Once, Inv, AbsorbedIsPassed
  <2> HIDE DEF fed
  <2> QED
    BY <2>1, <2>4, <2>5, ReturnCovers
<1> QED
  BY <1>2, <1>3, <1>4, <1>5, <1>6, <1>7, Calls

(* The result of an operation none of whose calls had to be repeated       *)
(* covers exactly the data of its caller.                                  *)
THEOREM FirstResultsCover == Spec => FirstResultCovers
<1>1. Inv /\ [Next]_vars =>
        [\A k \in Kinds :
           reply'.kind = k /\ reply'.rv = "result" /\ op[k].active /\ ~partial[k]
             => reply'.covers = reply'.asked]_vars
  BY NextCovers DEF Covered
<1> QED
  BY <1>1, InitInv, NextInv, PTL DEF Spec, FirstResultCovers
-----------------------------------------------------------------------------
(* What a call that tells a length leaves; only a digest on osx is lost.   *)
LEMMA LengthOutcome ==
  ASSUME NEW k \in Kinds, NEW o, NEW buffer \in Buffers,
         NEW r \in Finals(k, o, buffer), r.rv = "length",
         Backend = "mscapi" \/ k # "digest"
  PROVE  r.op = o
<1>1. CASE k = "digest"
  <2>1. r \in DigestFinal(o, buffer)
    BY <1>1 DEF Finals
  <2>2. \/ r = Outcome("length", o) \/ r = Outcome("error", o)
        \/ r = Outcome("result", Idle) \/ r = Outcome("error", Idle)
    BY <1>1, <2>1 DEF DigestFinal, Buffers
  <2> QED
    BY <2>2 DEF Outcome
<1>2. CASE k # "digest"
  <2>1. r \in SignFinal(o, buffer) \/ r \in VerifyFinal(o, buffer)
    BY <1>2 DEF Finals, Kinds
  <2>2. r = Outcome("length", o) \/ r.rv \in {"error", "result"}
    BY <2>1 DEF SignFinal, VerifyFinal, SignFaults, Buffers, Outcome
  <2> QED
    BY <2>2 DEF Outcome
<1> QED
  BY <1>1, <1>2

(* Only a call without a buffer is told a length, and no verification.     *)
LEMMA LengthAsked ==
  ASSUME NEW k \in Kinds, NEW o, NEW buffer \in Buffers,
         NEW r \in Finals(k, o, buffer), r.rv = "length"
  PROVE  buffer = "null" /\ k # "verify"
<1>1. CASE k = "digest"
  <2>1. r \in DigestFinal(o, buffer)
    BY <1>1 DEF Finals
  <2>2. \/ buffer = "null" \/ r = Outcome("error", o)
        \/ r = Outcome("result", Idle) \/ r = Outcome("error", Idle)
    BY <2>1 DEF DigestFinal, Buffers
  <2> QED
    BY <1>1, <2>2 DEF Outcome
<1>2. CASE k = "sign"
  <2>1. r \in SignFinal(o, buffer)
    BY <1>2 DEF Finals
  <2>2. buffer = "null" \/ r.rv \in {"error", "result"}
    BY <2>1 DEF SignFinal, SignFaults, Buffers, Outcome
  <2> QED
    BY <1>2, <2>2
<1>3. CASE k = "verify"
  <2>1. r \in VerifyFinal(o, buffer)
    BY <1>3 DEF Finals
  <2>2. r.rv \in {"error", "result"}
    BY <2>1 DEF VerifyFinal, SignFaults, Buffers, Outcome
  <2> QED
    BY <2>2
<1> QED
  BY <1>1, <1>2, <1>3 DEF Kinds

(* On mscapi the caller can come back with a buffer: neither C_SignFinal   *)
(* nor C_Digest and C_DigestFinal change the operation when they are only  *)
(* asked for a length, whatever fails and however much was absorbed.       *)
THEOREM LengthsKeepOperations ==
  ASSUME Backend = "mscapi"
  PROVE  Spec => LengthKeepsOperation
<1>1. ASSUME Inv, NEW k \in Kinds, LengthOnly(k), reply'.rv = "length"
      PROVE  op'[k] = op[k]
  <2>0. "null" \in Buffers
    BY DEF Buffers
  <2>1. ASSUME NEW r \in Finals(k, op[k], "null"), NEW asked,
               Return(k, r, op[k], asked)
        PROVE  op'[k] = op[k]
    <3>1. reply'.rv = r.rv /\ op'[k] = r.op
      BY <1>1, <2>1 DEF Return, Answer, Plain, Inv, TypeOK
    <3> QED
      BY <1>1, <2>0, <3>1, LengthOutcome
  <2>2. CASE Final(k, "null")
    BY <2>1, <2>2 DEF Final
  <2>3. ASSUME k = "digest", NEW d \in Data, Once(k, d, "null")
        PROVE  op'[k] = op[k]
    <3>1. Fed(k, d, "null") = op[k]
      BY <2>3 DEF Fed
    <3> QED
      BY <2>1, <2>3, <3>1 DEF Once
  <2> QED
    BY <1>1, <2>2, <2>3 DEF LengthOnly
<1>2. Inv /\ [Next]_vars =>
        [\A k \in Kinds : LengthOnly(k) /\ reply'.rv = "length" => op'[k] = op[k]]_vars
  BY <1>1
<1> QED
  BY <1>2, InitInv, NextInv, PTL DEF Spec, LengthKeepsOperation

(* For signatures that holds on both platforms.                            *)
THEOREM SignatureLengthsKeep ==
  Spec => [][Final("sign", "null") /\ reply'.rv = "length" => op'["sign"] = op["sign"]]_vars
<1>1. ASSUME Inv, Final("sign", "null"), reply'.rv = "length"
      PROVE  op'["sign"] = op["sign"]
  <2>1. "sign" \in Kinds /\ "null" \in Buffers
    BY DEF Kinds, Buffers
  <2>2. PICK r \in Finals("sign", op["sign"], "null") :
          Return("sign", r, op["sign"], parts["sign"])
    BY <1>1 DEF Final
  <2>3. reply'.rv = r.rv /\ op'["sign"] = r.op
    BY <1>1, <2>1, <2>2 DEF Return, Answer, Plain, Inv, TypeOK
  <2> QED
    BY <1>1, <2>1, <2>3, LengthOutcome
<1>2. Inv /\ [Next]_vars =>
        [Final("sign", "null") /\ reply'.rv = "length" => op'["sign"] = op["sign"]]_vars
  BY <1>1
<1> QED
  BY <1>2, InitInv, NextInv, PTL DEF Spec

(* An operation that is not active holds nothing of its caller's.          *)
NothingPassed == \A k \in Kinds : ~op[k].active => parts[k] = <<>>

Dropped(k) ==
  parts[k] # <<>> /\ parts'[k] = <<>>
    => reply'.kind = k /\ reply'.rv \in {"result", "error"}

LEMMA FreshDrops ==
  ASSUME Inv, NothingPassed, NEW k \in Kinds, ~op[k].active, NEW o, NEW rv, Fresh(k, o, rv)
  PROVE  NothingPassed' /\ \A j \in Kinds : Dropped(j)
<1>1. /\ parts[k] = <<>> /\ parts'[k] = <<>>
      /\ \A j \in Kinds \ {k} : parts'[j] = parts[j] /\ op'[j] = op[j]
  BY DEF Fresh, NothingPassed, Inv, TypeOK
<1> QED
  BY <1>1 DEF NothingPassed, Dropped

LEMMA ReturnDrops ==
  ASSUME Backend = "mscapi", Inv, NothingPassed, NEW k \in Kinds, Running(k),
         NEW fed \in Operation, fed.active = op[k].active, NEW asked,
         NEW buffer \in Buffers, NEW r \in Finals(k, fed, buffer),
         Return(k, r, fed, asked)
  PROVE  NothingPassed' /\ \A j \in Kinds : Dropped(j)
<1>1. /\ op'[k] = r.op
      /\ parts'[k] = IF r.op.active THEN parts[k] ELSE <<>>
      /\ reply'.kind = k /\ reply'.rv = r.rv
      /\ \A j \in Kinds \ {k} : parts'[j] = parts[j] /\ op'[j] = op[j]
  BY DEF Return, Answer, Plain, Inv, TypeOK
<1>2. r.rv \in {"length", "error", "result"}
  BY OutcomesAreFair DEF Fair
<1>3. r.rv = "length" => r.op.active
  BY LengthOutcome DEF Running
<1> QED
  BY <1>1, <1>2, <1>3 DEF NothingPassed, Dropped

LEMMA StepDrops ==
  ASSUME Backend = "mscapi", Inv, NothingPassed, [Next]_vars
  PROVE  NothingPassed' /\ \A j \in Kinds : Dropped(j)
<1>1. CASE DigestInit
  BY <1>1, FreshDrops DEF DigestInit, Kinds
<1>2. CASE DecryptInit \/ DecryptEnds \/ FinalUnasked \/ UNCHANGED vars
  BY <1>2 DEF DecryptInit, DecryptEnds, FinalUnasked, Plain, vars, NothingPassed, Dropped
<1>3. ASSUME NEW k \in Kinds, SignInit(k) \/ SignInitFails(k)
      PROVE  NothingPassed' /\ \A j \in Kinds : Dropped(j)
  BY <1>3, FreshDrops DEF SignInit, SignInitFails, Busy
<1>4. ASSUME NEW k \in Kinds, NEW d \in Data, Update(k, d)
      PROVE  NothingPassed' /\ \A j \in Kinds : Dropped(j)
  <2>1. op[k] \in Operation /\ parts[k] \in Seq(Data) /\ op[k].active
    BY <1>4 DEF Inv, TypeOK, Update, Running
  <2>2. /\ op'[k].active /\ parts'[k] = Append(parts[k], d)
        /\ \A j \in Kinds \ {k} : parts'[j] = parts[j] /\ op'[j] = op[j]
    BY <1>4, <2>1, AbsorbChanges DEF Update, Inv, TypeOK
  <2>3. Append(parts[k], d) # <<>>
    BY <2>1
  <2> QED
    BY <2>2, <2>3 DEF NothingPassed, Dropped
<1>5. ASSUME NEW k \in Kinds, NEW buffer \in Buffers, Final(k, buffer)
      PROVE  NothingPassed' /\ \A j \in Kinds : Dropped(j)
  <2>1. op[k] \in Operation
    BY DEF Inv, TypeOK
  <2> QED
    BY <1>5, <2>1, ReturnDrops DEF Final
<1>6. ASSUME NEW k \in Kinds, NEW buffer \in Buffers, NEW d \in Data,
             Once(k, d, buffer)
      PROVE  NothingPassed' /\ \A j \in Kinds : Dropped(j)
  <2>1. op[k] \in Operation
    BY DEF Inv, TypeOK
  <2>2. Fed(k, d, buffer) \in Operation /\ Fed(k, d, buffer).active = op[k].active
    BY <2>1, FedIsTyped
  <2> QED
    BY <1>6, <2>2, ReturnDrops DEF Once
<1> QED
  BY <1>1, <1>2, <1>3, <1>4, <1>5, <1>6, Calls

(* On mscapi what the caller has passed to an operation is only thrown     *)
(* away by a call that answers for that operation: no second start, no     *)
(* call of another operation and no request for a length loses it.         *)
THEOREM DropsAreAnswered ==
  ASSUME Backend = "mscapi"
  PROVE  Spec => DroppedWithAnswer
<1>1. Init => NothingPassed
  BY DEF Init, NothingPassed
<1>2. Inv /\ NothingPassed /\ [Next]_vars => NothingPassed'
  BY StepDrops
<1>3. Inv /\ NothingPassed /\ [Next]_vars =>
        [\A k \in Kinds :
           parts[k] # <<>> /\ parts'[k] = <<>>
             => reply'.kind = k /\ reply'.rv \in {"result", "error"}]_vars
  BY StepDrops DEF Dropped
<1> QED
  BY <1>1, <1>2, <1>3, InitInv, NextInv, PTL DEF Spec, DroppedWithAnswer
-----------------------------------------------------------------------------
(* Each operation implements Stream.  A step is examined once, for an      *)
(* operation of any kind k: it is one of the steps of Stream on what the   *)
(* mapping makes of that operation.                                        *)
IsStart(k) ==
  /\ ~Intact(k) /\ Intact(k)'
  /\ Asked(k)' = <<>> /\ Absorbed(k)' = <<>> /\ Told(k)' = "ok"

IsContinue(k) ==
  /\ Intact(k) /\ Intact(k)'
  /\ \E part \in Single : Asked(k)' = Asked(k) \o part
  /\ Digests!IsPrefix(Absorbed(k), Absorbed(k)')
  /\ Digests!IsPrefix(Absorbed(k)', Asked(k)')
  /\ Told(k)' = "ok"

IsFinish(k) ==
  /\ Intact(k) /\ ~Intact(k)'
  /\ \E part \in Single \cup {<<>>} : Asked(k)' = Asked(k) \o part
  /\ Absorbed(k)' = Asked(k)'
  /\ Told(k)' = "result"

IsRefuse(k) ==
  /\ Intact(k) /\ Intact(k)'
  /\ Asked(k)' = Asked(k) /\ Absorbed(k)' = Absorbed(k)
  /\ Told(k)' \notin {"ok", "result"}

IsBreak(k) == Intact(k) /\ ~Intact(k)' /\ Told(k)' = "error"

IsOver(k) == ~Intact(k) /\ ~Intact(k)'

Promised(k) ==
  IsStart(k) \/ IsContinue(k) \/ IsFinish(k) \/ IsRefuse(k) \/ IsBreak(k) \/ IsOver(k)

(* Of an operation about which something is promised, nothing has been     *)
(* answered yet.                                                           *)
LEMMA IntactView ==
  ASSUME Inv, NEW k \in Kinds, Intact(k)
  PROVE  /\ ~Answered(k) /\ Asked(k) = parts[k] /\ Absorbed(k) = op[k].data
         /\ op[k].data = parts[k] /\ parts[k] \in Seq(Data)
<1>1. ~Answered(k)
  BY DEF Inv, ResultEnds, Intact, Running, Answered
<1>2. op[k].data = parts[k]
  BY DEF Inv, AbsorbedIsPassed, Intact
<1> QED
  BY <1>1, <1>2 DEF Asked, Absorbed, Inv, TypeOK

LEMMA PrefixOfConcat ==
  ASSUME NEW s \in Seq(Data), NEW t \in Seq(Data)
  PROVE  Digests!IsPrefix(s, s \o t)
<1>1. /\ s \o t \in Seq(Data)
      /\ Len(s \o t) = Len(s) + Len(t)
      /\ \A i \in 1..Len(s) + Len(t) :
           (s \o t)[i] = IF i <= Len(s) THEN s[i] ELSE t[i - Len(s)]
  BY ConcatProperties
<1>2. Len(s) \in Nat /\ Len(t) \in Nat
  OBVIOUS
<1>3. SubSeq(s, 1, Len(s)) = SubSeq(s \o t, 1, Len(s))
  BY <1>1, <1>2
<1> QED
  BY <1>1, <1>2, <1>3 DEF Digests!IsPrefix

(* A step of another operation.                                            *)
LEMMA OtherStep ==
  ASSUME Inv, NEW j \in Kinds, op'[j] = op[j], parts'[j] = parts[j],
         partial'[j] = partial[j], reply'.kind # j
  PROVE  Promised(j)
<1>1. Intact(j)' = Intact(j)
  BY DEF Intact, Running
<1>2. CASE Intact(j)
  <2>1. Asked(j)' = Asked(j) /\ Absorbed(j)' = Absorbed(j)
    BY <1>1, <1>2, IntactView DEF Asked, Absorbed, Answered
  <2>2. Told(j)' = "other"
    BY DEF Told
  <2> QED
    BY <1>1, <1>2, <2>1, <2>2 DEF Promised, IsRefuse
<1>3. CASE ~Intact(j)
  BY <1>1, <1>3 DEF Promised, IsOver
<1> QED
  BY <1>2, <1>3

(* An Init of an operation that is not active.                             *)
LEMMA FreshStep ==
  ASSUME Inv, NEW k \in Kinds, ~op[k].active, NEW o, NEW rv, Fresh(k, o, rv),
         \/ o = Started /\ rv = "ok"
         \/ ~o.active /\ rv = "error",
         NEW j \in Kinds
  PROVE  Promised(j)
<1>1. CASE j # k
  BY <1>1, OtherStep DEF Fresh, Plain, Inv, TypeOK
<1>2. CASE j = k
  <2>1. /\ op'[k] = o /\ parts'[k] = <<>> /\ partial'[k] = FALSE
        /\ reply'.kind = k /\ reply'.rv = rv
    BY DEF Fresh, Plain, Inv, TypeOK
  <2>2. ~Intact(k)
    BY DEF Intact, Running
  <2>3. CASE o = Started /\ rv = "ok"
    <3>1. Intact(k)'
      BY <2>1, <2>3, ConstantOperations DEF Intact, Running
    <3>2. Asked(k)' = <<>> /\ Absorbed(k)' = <<>> /\ Told(k)' = "ok"
      BY <2>1, <2>3, ConstantOperations DEF Asked, Absorbed, Answered, Told
    <3> QED
      BY <1>2, <2>2, <3>1, <3>2 DEF Promised, IsStart
  <2>4. CASE ~o.active
    BY <1>2, <2>1, <2>2, <2>4 DEF Promised, IsOver, Intact, Running
  <2> QED
    BY <2>3, <2>4
<1> QED
  BY <1>1, <1>2

LEMMA UpdateStep ==
  ASSUME Inv, NEW k \in Kinds, NEW d \in Data, Update(k, d), NEW j \in Kinds
  PROVE  Promised(j)
<1>1. CASE j # k
  BY <1>1, OtherStep DEF Update, Plain, Inv, TypeOK
<1>2. CASE j = k
  <2>0. op[k] \in Operation
    BY DEF Inv, TypeOK
  <2>1. /\ op'[k] = Absorb(op[k], d) /\ parts'[k] = Append(parts[k], d)
        /\ partial'[k] = partial[k] /\ reply'.kind = k /\ reply'.rv = "ok"
    BY DEF Update, Plain, Inv, TypeOK
  <2>2. /\ op'[k].active = op[k].active /\ op'[k].alive = op[k].alive
        /\ op'[k].data = Append(op[k].data, d)
    BY <2>0, <2>1, AbsorbChanges
  <2>3. Intact(k)' = Intact(k)
    BY <2>1, <2>2 DEF Intact, Running
  <2>4. CASE Intact(k)
    <3>1. /\ Asked(k) = parts[k] /\ Absorbed(k) = op[k].data
          /\ op[k].data = parts[k] /\ parts[k] \in Seq(Data)
      BY <2>4, IntactView
    <3>2. /\ Asked(k)' = Append(parts[k], d) /\ Absorbed(k)' = Append(parts[k], d)
          /\ Told(k)' = "ok"
      BY <2>1, <2>2, <3>1 DEF Asked, Absorbed, Answered, Told
    <3>3. <<d>> \in Single /\ <<d>> \in Seq(Data) /\ <<>> \in Seq(Data)
      BY DEF Single
    <3>4. Append(parts[k], d) = parts[k] \o <<d>> /\ Append(parts[k], d) \in Seq(Data)
      BY <3>1
    <3>5. Digests!IsPrefix(parts[k], Append(parts[k], d))
      BY <3>1, <3>3, <3>4, PrefixOfConcat
    <3>6. Digests!IsPrefix(Append(parts[k], d), Append(parts[k], d))
      BY <3>3, <3>4, PrefixOfConcat, ConcatEmptySeq
    <3> QED
      BY <1>2, <2>3, <2>4, <3>1, <3>2, <3>3, <3>4, <3>5, <3>6 DEF Promised, IsContinue
  <2>5. CASE ~Intact(k)
    BY <1>2, <2>3, <2>5 DEF Promised, IsOver
  <2> QED
    BY <2>4, <2>5
<1> QED
  BY <1>1, <1>2

(* A call that ends with a fair outcome, having absorbed fed.              *)
LEMMA ReturnStep ==
  ASSUME Inv, NEW k \in Kinds, Running(k),
         NEW fed, NEW asked, NEW buffer, NEW r,
         Fair(k, fed, buffer, r), Return(k, r, fed, asked),
         r.rv = "result" /\ ~partial[k] => fed.data = asked,
         \E part \in Single \cup {<<>>} : asked = parts[k] \o part,
         NEW j \in Kinds,
         j = k /\ r.rv = "length" => r.op = op[k] /\ fed = op[k]
  PROVE  Promised(j)
<1>1. CASE j # k
  BY <1>1, OtherStep DEF Return, Answer, Plain, Inv, TypeOK
<1>2. CASE j = k
  <2>1. /\ op'[k] = r.op
        /\ parts'[k] = IF r.op.active THEN parts[k] ELSE <<>>
        /\ partial'[k] = (r.op.active /\ (partial[k] \/ fed # op[k]))
        /\ reply'.kind = k /\ reply'.rv = r.rv
    BY DEF Return, Answer, Plain, Inv, TypeOK
  <2>2. CASE ~Intact(k)
    <3>1. ~Intact(k)'
      BY <2>1, <2>2 DEF Intact, Running
    <3> QED
      BY <1>2, <2>2, <3>1 DEF Promised, IsOver
  <2>3. CASE Intact(k) /\ r.rv = "result"
    <3>1. ~Intact(k)'
      BY <2>1, <2>3, ConstantOperations DEF Fair, Intact, Running
    <3>2. reply'.covers = fed.data /\ reply'.asked = asked
      BY <2>3 DEF Return, Answer
    <3>3. Asked(k)' = asked /\ Absorbed(k)' = asked /\ Told(k)' = "result"
      BY <2>1, <2>3, <3>2 DEF Asked, Absorbed, Answered, Told, Intact
    <3>4. Asked(k) = parts[k]
      BY <2>3, IntactView
    <3> QED
      BY <1>2, <2>3, <3>1, <3>3, <3>4 DEF Promised, IsFinish
  <2>4. CASE Intact(k) /\ r.rv \in {"length", "error"}
    <3>1. Told(k)' = r.rv /\ ~Answered(k)'
      BY <2>1, <2>4 DEF Told, Answered
    <3>2. CASE Intact(k)'
      <4>1. r.op.active /\ r.op.alive /\ fed = op[k]
        BY <2>1, <3>2 DEF Intact, Running
      <4>2. op'[k] = op[k] /\ parts'[k] = parts[k]
        BY <2>1, <4>1, ConstantOperations DEF Fair
      <4>3. Asked(k)' = Asked(k) /\ Absorbed(k)' = Absorbed(k)
        BY <2>4, <3>1, <4>2, IntactView DEF Asked, Absorbed
      <4> QED
        BY <1>2, <2>4, <3>1, <3>2, <4>3 DEF Promised, IsRefuse
    <3>3. CASE ~Intact(k)'
      <4>1. r.rv # "length"
        BY <1>2, <2>1, <2>4, <3>3 DEF Intact, Running
      <4> QED
        BY <1>2, <2>4, <3>1, <3>3, <4>1 DEF Promised, IsBreak
    <3> QED
      BY <3>2, <3>3
  <2> QED
    BY <2>2, <2>3, <2>4 DEF Fair
<1> QED
  BY <1>1, <1>2

(* The step starts no signature or verification over that is active.       *)
InOrder == \A k \in Kinds : SignInit(k) \/ SignInitFails(k) => ~op[k].active

(* The step asks a digest on osx for its length, which ends it.            *)
DigestAsked == Backend = "osx" /\ LengthOnly("digest")

(* Only on osx a step may be out of order: SignInit asks the wrong         *)
(* operation whether it is active.  Digests do not depend on it.           *)
LEMMA PromisedStep ==
  ASSUME Inv, Next, NEW j \in Kinds, InOrder \/ j = "digest",
         j = "digest" => ~DigestAsked,
         j = "sign" => ~AskedInOnce
  PROVE  Promised(j) \/ UNCHANGED <<op, parts, partial, reply>>
<1>1. CASE DigestInit
  BY <1>1, FreshStep DEF DigestInit, Kinds
<1>2. CASE DecryptInit \/ DecryptEnds
  BY <1>2 DEF DecryptInit, DecryptEnds
<1>8. CASE FinalUnasked
  <2>1. CASE j = "sign"
    BY <1>8, <2>1 DEF FinalUnasked, Promised, IsOver, Intact, Running
  <2>2. CASE j # "sign"
    BY <1>8, <2>2, OtherStep DEF FinalUnasked, Plain
  <2> QED
    BY <2>1, <2>2
<1>3. ASSUME NEW k \in Kinds, SignInit(k) PROVE Promised(j)
  <2>1. CASE j = "digest"
    BY <1>3, <2>1, OtherStep DEF SignInit, Fresh, Plain, Inv, TypeOK
  <2>2. CASE InOrder
    BY <1>3, <2>2, FreshStep DEF SignInit, InOrder
  <2> QED
    BY <2>1, <2>2
<1>4. ASSUME NEW k \in Kinds, SignInitFails(k) PROVE Promised(j)
  <2>1. CASE j = "digest"
    <3>1. PICK alive \in {FALSE, Backend = "osx"} :
            Fresh(k, [active |-> FALSE, alive |-> alive, data |-> <<>>], "error")
      BY <1>4 DEF SignInitFails
    <3>2. k # j
      BY <1>4, <2>1 DEF SignInitFails
    <3> QED
      BY <3>1, <3>2, OtherStep DEF Fresh, Plain, Inv, TypeOK
  <2>2. CASE InOrder
    BY <1>4, <2>2, FreshStep DEF SignInitFails, InOrder
  <2> QED
    BY <2>1, <2>2
<1>5. ASSUME NEW k \in Kinds, NEW d \in Data, Update(k, d) PROVE Promised(j)
  BY <1>5, UpdateStep
<1>6. ASSUME NEW k \in Kinds, NEW buffer \in Buffers, Final(k, buffer)
      PROVE  Promised(j)
  <2>1. PICK r \in Finals(k, op[k], buffer) : Return(k, r, op[k], parts[k])
    BY <1>6 DEF Final
  <2>2. Running(k) /\ (~partial[k] => op[k].data = parts[k])
    BY <1>6 DEF Final, Inv, AbsorbedIsPassed
  <2>3. parts[k] = parts[k] \o <<>>
    BY ConcatEmptySeq DEF Inv, TypeOK
  <2>4. Fair(k, op[k], buffer, r)
    BY OutcomesAreFair
  <2>5. j = k /\ r.rv = "length" => r.op = op[k]
    <3>1. ASSUME j = k, r.rv = "length", Backend = "osx", k = "digest"
          PROVE  FALSE
      <4>1. buffer = "null"
        BY <3>1, LengthAsked
      <4> QED
        BY <1>6, <3>1, <4>1 DEF DigestAsked, LengthOnly
    <3> QED
      BY <3>1, LengthOutcome, BackendAssumption
  <2>6. \E part \in Single \cup {<<>>} : parts[k] = parts[k] \o part
    BY <2>3
  <2>7. j = k /\ r.rv = "length" => r.op = op[k] /\ op[k] = op[k]
    BY <2>5
  <2>8. r.rv = "result" /\ ~partial[k] => op[k].data = parts[k]
    BY <2>2
  <2> QED
    BY <2>1, <2>2, <2>4, <2>6, <2>7, <2>8, ReturnStep
<1>7. ASSUME NEW k \in Kinds, NEW buffer \in Buffers, NEW d \in Data,
             Once(k, d, buffer)
      PROVE  Promised(j)
  <2> DEFINE fed == Fed(k, d, buffer)
  <2>1. PICK r \in Finals(k, fed, buffer) : Return(k, r, fed, Append(parts[k], d))
    BY <1>7 DEF Once
  <2>2. Fair(k, fed, buffer, r)
    BY OutcomesAreFair
  <2>3. op[k] \in Operation /\ parts[k] \in Seq(Data)
    BY DEF Inv, TypeOK
  <2>4. r.rv = "result" => fed.data = Append(op[k].data, d)
    BY <2>2, <2>3, FedIsTyped, AbsorbChanges DEF Fair
  <2>5. Running(k) /\ (~partial[k] => op[k].data = parts[k])
    BY <1>7 DEF Once, Inv, AbsorbedIsPassed
  <2>6. Append(parts[k], d) = parts[k] \o <<d>> /\ <<d>> \in Single
    BY <2>3 DEF Single
  <2>7. ASSUME j = k, r.rv = "length"
        PROVE  r.op = op[k] /\ fed = op[k]
    <3>1. buffer = "null" /\ k # "verify"
      BY <2>7, LengthAsked
    <3>2. k = "digest"
      BY <1>7, <2>7, <3>1 DEF AskedInOnce, Kinds
    <3>3. Backend = "mscapi"
      BY <1>7, <2>7, <3>1, <3>2, BackendAssumption DEF DigestAsked, LengthOnly
    <3>4. r.op = fed
      BY <2>7, <3>3, LengthOutcome
    <3> QED
      BY <3>1, <3>2, <3>4 DEF Fed
  <2>8. \E part \in Single \cup {<<>>} : Append(parts[k], d) = parts[k] \o part
    BY <2>6
  <2>9. r.rv = "result" /\ ~partial[k] => fed.data = Append(parts[k], d)
    BY <2>4, <2>5
  <2>10. j = k /\ r.rv = "length" => r.op = op[k] /\ fed = op[k]
    BY <2>7
  <2> HIDE DEF fed
  <2> QED
    BY <2>1, <2>2, <2>5, <2>8, <2>9, <2>10, ReturnStep
<1> QED
  BY <1>1, <1>2, <1>3, <1>4, <1>5, <1>6, <1>7, <1>8, Calls

(* The three operations are operations of Stream of their kind.            *)
LEMMA DigestStep ==
  ASSUME Inv, [Next]_vars, [~DigestAsked]_vars
  PROVE  [Digests!Next]_Digests!vars
<1>1. CASE Next /\ ~DigestAsked
  <2>1. "digest" \in Kinds
    BY DEF Kinds
  <2>2. CASE Promised("digest")
    BY <2>2 DEF Promised, IsStart, IsContinue, IsFinish, IsRefuse, IsBreak, IsOver,
       Digests!IsPrefix, Digests!Next, Digests!Start, Digests!Continue,
       Digests!Finish, Digests!Refuse, Digests!Break, Digests!Over, Digests!Takes
  <2>3. CASE UNCHANGED <<op, parts, partial, reply>>
    BY <2>3 DEF Digests!vars, Intact, Running, Asked, Absorbed, Answered, Told
  <2> QED
    BY <1>1, <2>1, <2>2, <2>3, PromisedStep
<1>2. CASE UNCHANGED vars
  BY <1>2 DEF vars, Digests!vars, Intact, Running, Asked, Absorbed, Answered, Told
<1> QED
  BY <1>1, <1>2

LEMMA SignatureStep ==
  ASSUME Inv, [Next]_vars, [InOrder]_vars
  PROVE  /\ [Signatures!Next \/ AskedInOnce]_Signatures!vars
         /\ [~AskedInOnce]_vars => [Signatures!Next]_Signatures!vars
<1>1. CASE Next /\ InOrder /\ ~AskedInOnce
  <2>1. "sign" \in Kinds
    BY DEF Kinds
  <2>2. CASE Promised("sign")
    BY <2>2 DEF Promised, IsStart, IsContinue, IsFinish, IsRefuse, IsBreak, IsOver,
       Digests!IsPrefix, Signatures!IsPrefix, Signatures!Next, Signatures!Start,
       Signatures!Continue, Signatures!Finish, Signatures!Refuse, Signatures!Break,
       Signatures!Over, Signatures!Takes
  <2>3. CASE UNCHANGED <<op, parts, partial, reply>>
    BY <2>3 DEF Signatures!vars, Intact, Running, Asked, Absorbed, Answered, Told
  <2> QED
    BY <1>1, <2>1, <2>2, <2>3, PromisedStep
<1>2. CASE UNCHANGED vars
  BY <1>2 DEF vars, Signatures!vars, Intact, Running, Asked, Absorbed, Answered, Told
<1> QED
  BY <1>1, <1>2

LEMMA VerificationStep ==
  ASSUME Inv, [Next]_vars, [InOrder]_vars
  PROVE  [Verifications!Next]_Verifications!vars
<1>1. CASE Next /\ InOrder
  <2>1. "verify" \in Kinds
    BY DEF Kinds
  <2>2. CASE Promised("verify")
    BY <2>2 DEF Promised, IsStart, IsContinue, IsFinish, IsRefuse, IsBreak, IsOver,
       Digests!IsPrefix, Verifications!IsPrefix, Verifications!Next, Verifications!Start,
       Verifications!Continue, Verifications!Finish, Verifications!Refuse,
       Verifications!Break, Verifications!Over, Verifications!Takes
  <2>3. CASE UNCHANGED <<op, parts, partial, reply>>
    BY <2>3 DEF Verifications!vars, Intact, Running, Asked, Absorbed, Answered, Told
  <2> QED
    BY <1>1, <2>1, <2>2, <2>3, PromisedStep
<1>2. CASE UNCHANGED vars
  BY <1>2 DEF vars, Verifications!vars, Intact, Running, Asked, Absorbed, Answered, Told
<1> QED
  BY <1>1, <1>2

LEMMA NothingPromised ==
  Init => Digests!Init /\ Signatures!Init /\ Verifications!Init
BY ConstantOperations DEF Init, Kinds, Intact, Running,
   Digests!Init, Signatures!Init, Verifications!Init

(* A digest that is not asked for its length on osx keeps the promise of   *)
(* Stream: data is absorbed in order, a result is of all of it, and the    *)
(* digest is neither started over nor broken off except by a call that     *)
(* fails, whatever the platform library does.                              *)
THEOREM DigestsImplementStream == Spec /\ [][~DigestAsked]_vars => Digests!Spec
<1>1. Inv /\ [Next]_vars /\ [~DigestAsked]_vars => [Digests!Next]_Digests!vars
  BY DigestStep
<1> QED
  BY <1>1, NothingPromised, InitInv, NextInv, PTL DEF Spec, Digests!Spec

(* On both platforms all operations keep it of a caller who does not do    *)
(* that, starts no operation over that is active, and does not ask C_Sign  *)
(* for a length while passing data.                                        *)
Careful == InOrder /\ ~DigestAsked /\ ~AskedInOnce

THEOREM CarefulCallersGetStream ==
  Spec /\ [][Careful]_vars => Digests!Spec /\ Signatures!Spec /\ Verifications!Spec
<1>1. Inv /\ [Next]_vars /\ [Careful]_vars =>
        /\ [Digests!Next]_Digests!vars
        /\ [Signatures!Next]_Signatures!vars
        /\ [Verifications!Next]_Verifications!vars
  BY DigestStep, SignatureStep, VerificationStep DEF Careful
<1> QED
  BY <1>1, NothingPromised, InitInv, NextInv, PTL
  DEF Spec, Digests!Spec, Signatures!Spec, Verifications!Spec

(* On mscapi they keep it of every caller, but for that one C_Sign: a      *)
(* second start is refused, and no other question for a length ends an     *)
(* operation or makes it absorb anything.                                  *)
THEOREM ImplementsStream ==
  ASSUME Backend = "mscapi"
  PROVE  Spec => AbsorbedSpec
<1>1. [Next]_vars => [InOrder]_vars /\ [~DigestAsked]_vars
  BY DEF InOrder, SignInit, SignInitFails, Busy, DigestAsked
<1>2. Inv /\ [Next]_vars =>
        /\ [Digests!Next]_Digests!vars
        /\ [Signatures!Next \/ AskedInOnce]_Signatures!vars
        /\ [Verifications!Next]_Verifications!vars
  BY <1>1, DigestStep, SignatureStep, VerificationStep
<1> QED
  BY <1>2, NothingPromised, InitInv, NextInv, PTL
  DEF Spec, AbsorbedSpec, Digests!Spec, Verifications!Spec

-----------------------------------------------------------------------------
(* The end of an operation, when no call to the platform library fails.    *)

LEMMA FaultlessOutcomes ==
  ASSUME Faults = FALSE, NEW k \in Kinds, NEW o, NEW buffer \in Buffers,
         NEW r \in Finals(k, o, buffer)
  PROVE  /\ r.op \in {o, Idle}
         /\ buffer = "enough" => r.rv = "result" /\ r.op = Idle
<1>1. CASE k = "digest"
  <2>1. r \in DigestFinal(o, buffer)
    BY <1>1 DEF Finals
  <2>2. \/ buffer = "null" /\ r = Outcome("length", IF Backend = "osx" THEN Idle ELSE o)
        \/ buffer = "small" /\ r = Outcome("error", o)
        \/ r = Outcome("result", Idle)
    BY <2>1 DEF DigestFinal, Buffers
  <2> QED
    BY <2>2 DEF Outcome
<1>2. CASE k # "digest"
  <2>1. SignFaults("sign", o) = {} /\ SignFaults("verify", o) = {}
    BY DEF SignFaults
  <2>2. r \in SignFinal(o, buffer) \/ r \in VerifyFinal(o, buffer)
    BY <1>2 DEF Finals, Kinds
  <2>3. \/ buffer # "enough" /\ r \in {Outcome("length", o), Outcome("error", o)}
        \/ r = Outcome("result", Idle)
    BY <2>1, <2>2 DEF SignFinal, VerifyFinal, Buffers
  <2> QED
    BY <2>3 DEF Outcome
<1> QED
  BY <1>1, <1>2

(* An active operation has a digest to finish: it is not wedged.           *)
NeverWedged == \A k \in Kinds : op[k].active => op[k].alive

LEMMA ReturnUnwedged ==
  ASSUME Inv, NeverWedged, NEW k \in Kinds, NEW r, NEW fed, NEW asked,
         Return(k, r, fed, asked), r.op \in {fed, Idle},
         fed.active => fed.alive
  PROVE  NeverWedged'
<1>1. op' = [op EXCEPT ![k] = r.op] /\ op \in [Kinds -> Operation]
  BY DEF Return, Inv, TypeOK
<1>2. r.op.active => r.op.alive
  BY ConstantOperations
<1> QED
  BY <1>1, <1>2 DEF NeverWedged

LEMMA UnwedgedStep ==
  ASSUME Faults = FALSE, Inv, NeverWedged, [Next]_vars
  PROVE  NeverWedged'
<1>1. ASSUME NEW k \in Kinds, NEW o, NEW rv, Fresh(k, o, rv), o.active => o.alive
      PROVE  NeverWedged'
  BY <1>1 DEF Fresh, NeverWedged, Inv, TypeOK
<1>2. CASE DigestInit
  BY <1>1, <1>2, ConstantOperations DEF DigestInit, Kinds
<1>3. CASE DecryptInit \/ DecryptEnds \/ FinalUnasked \/ UNCHANGED vars
  BY <1>3 DEF DecryptInit, DecryptEnds, FinalUnasked, Plain, vars, NeverWedged
<1>4. ASSUME NEW k \in Kinds, SignInit(k) \/ SignInitFails(k) PROVE NeverWedged'
  BY <1>1, <1>4, ConstantOperations DEF SignInit, SignInitFails
<1>5. ASSUME NEW k \in Kinds, NEW d \in Data, Update(k, d) PROVE NeverWedged'
  <2>1. op[k] \in Operation
    BY DEF Inv, TypeOK
  <2>2. Absorb(op[k], d).active = op[k].active /\ Absorb(op[k], d).alive = op[k].alive
    BY <2>1, AbsorbChanges
  <2> QED
    BY <1>5, <2>2 DEF Update, NeverWedged, Inv, TypeOK
<1>6. ASSUME NEW k \in Kinds, NEW buffer \in Buffers, Final(k, buffer)
      PROVE  NeverWedged'
  <2>1. PICK r \in Finals(k, op[k], buffer) : Return(k, r, op[k], parts[k])
    BY <1>6 DEF Final
  <2> QED
    BY <2>1, FaultlessOutcomes, ReturnUnwedged DEF NeverWedged
<1>7. ASSUME NEW k \in Kinds, NEW buffer \in Buffers, NEW d \in Data,
             Once(k, d, buffer)
      PROVE  NeverWedged'
  <2>1. PICK r \in Finals(k, Fed(k, d, buffer), buffer) :
          Return(k, r, Fed(k, d, buffer), Append(parts[k], d))
    BY <1>7 DEF Once
  <2>2. op[k] \in Operation
    BY DEF Inv, TypeOK
  <2>3. Fed(k, d, buffer).active = op[k].active /\ Fed(k, d, buffer).alive = op[k].alive
    BY <2>2, FedIsTyped
  <2> QED
    BY <2>1, <2>3, FaultlessOutcomes, ReturnUnwedged DEF NeverWedged
<1> QED
  BY <1>2, <1>3, <1>4, <1>5, <1>6, <1>7, Calls

(* As long as no call to the platform library fails, no operation is left  *)
(* active without its digest, so its caller can always ask for the result, *)
THEOREM NothingIsWedged ==
  ASSUME Faults = FALSE
  PROVE  Spec => []NeverWedged
<1>1. Init => NeverWedged
  BY ConstantOperations DEF Init, NeverWedged
<1>2. Inv /\ NeverWedged /\ [Next]_vars => NeverWedged'
  BY UnwedgedStep
<1> QED
  BY <1>1, <1>2, InitInv, NextInv, PTL DEF Spec

(* and a caller that asks for it with a large enough buffer gets it, which *)
(* ends the operation: the safety half of OperationEnds.                   *)
FinalsEnd ==
  [][\A k \in Kinds :
       Final(k, "enough") => reply'.rv = "result" /\ ~op'[k].active]_vars

THEOREM FinalsEndOperations ==
  ASSUME Faults = FALSE
  PROVE  Spec => FinalsEnd
<1>1. ASSUME Inv, NEW k \in Kinds, Final(k, "enough")
      PROVE  reply'.rv = "result" /\ ~op'[k].active
  <2>1. PICK r \in Finals(k, op[k], "enough") : Return(k, r, op[k], parts[k])
    BY <1>1 DEF Final
  <2>2. r.rv = "result" /\ r.op = Idle
    BY <2>1, FaultlessOutcomes DEF Buffers
  <2> QED
    BY <1>1, <2>1, <2>2, ConstantOperations DEF Return, Answer, Inv, TypeOK
<1>2. Inv /\ [Next]_vars =>
        [\A k \in Kinds :
           Final(k, "enough") => reply'.rv = "result" /\ ~op'[k].active]_vars
  BY <1>1
<1> QED
  BY <1>2, InitInv, NextInv, PTL DEF Spec, FinalsEnd

-----------------------------------------------------------------------------
(* Which callers get a result of exactly their data.                       *)

NothingRepeated == \A k \in Kinds : ~partial[k]

(* A new result is one of an operation that was active.                    *)
LEMMA ResultsAreOfOperations ==
  ASSUME Inv, [Next]_vars, reply'.rv = "result"
  PROVE  reply' = reply \/ (reply'.kind \in Kinds /\ op[reply'.kind].active)
<1>1. ASSUME NEW k \in Kinds, NEW o, NEW rv \in {"ok", "error"}, Fresh(k, o, rv)
      PROVE  FALSE
  BY <1>1 DEF Fresh, Plain
<1>2. CASE DigestInit
  BY <1>1, <1>2 DEF DigestInit, Kinds
<1>3. CASE DecryptInit \/ DecryptEnds \/ FinalUnasked \/ UNCHANGED vars
  BY <1>3 DEF DecryptInit, DecryptEnds, FinalUnasked, Plain, vars
<1>4. ASSUME NEW k \in Kinds, SignInit(k) \/ SignInitFails(k) PROVE FALSE
  BY <1>1, <1>4 DEF SignInit, SignInitFails
<1>5. ASSUME NEW k \in Kinds, NEW d \in Data, Update(k, d) PROVE FALSE
  BY <1>5 DEF Update, Plain
<1>6. ASSUME NEW k \in Kinds, NEW buffer \in Buffers,
             Final(k, buffer) \/ \E d \in Data : Once(k, d, buffer)
      PROVE  reply'.kind \in Kinds /\ op[reply'.kind].active
  <2>1. Running(k) /\ reply'.kind = k
    BY <1>6 DEF Final, Once, Return, Answer, Plain
  <2> QED
    BY <2>1 DEF Running
<1> QED
  BY <1>2, <1>3, <1>4, <1>5, <1>6, Calls

LEMMA CoveredStep ==
  ASSUME Inv, [Next]_vars, NothingRepeated, ResultCoversData
  PROVE  ResultCoversData'
<1> SUFFICES ASSUME reply'.rv = "result" PROVE reply'.covers = reply'.asked
  BY DEF ResultCoversData
<1>1. CASE reply' = reply
  BY <1>1 DEF ResultCoversData
<1>2. CASE reply'.kind \in Kinds /\ op[reply'.kind].active
  BY <1>2, NextCovers DEF Covered, NothingRepeated
<1> QED
  BY <1>1, <1>2, ResultsAreOfOperations

(* The calls of a caller who passes its data to Update and asks for the    *)
(* result with Final, as often as it likes.                                *)
Parted ==
  \/ DigestInit \/ DecryptCall \/ FinalUnasked
  \/ \E k \in Kinds :
       \/ SignInit(k) \/ SignInitFails(k)
       \/ \E d \in Data : Update(k, d)
       \/ \E buffer \in Buffers : Final(k, buffer)

(* The calls of a caller who uses the single-part functions as well, with  *)
(* a buffer that is large enough, or, for a digest, to ask for the length. *)
Roomy ==
  \/ Parted
  \/ \E k \in Kinds, d \in Data : Once(k, d, "enough")
  \/ \E d \in Data : Once("digest", d, "null")

LEMMA PartedStep ==
  ASSUME Inv, NothingRepeated, [Parted]_vars
  PROVE  NothingRepeated'
<1>1. ASSUME NEW k \in Kinds, NEW o, NEW rv, Fresh(k, o, rv)
      PROVE  NothingRepeated'
  BY <1>1 DEF Fresh, NothingRepeated, Inv, TypeOK
<1>2. CASE DigestInit
  BY <1>1, <1>2 DEF DigestInit, Kinds
<1>3. CASE DecryptCall \/ FinalUnasked \/ UNCHANGED vars
  BY <1>3 DEF DecryptCall, DecryptInit, DecryptEnds, FinalUnasked, vars, NothingRepeated
<1>4. ASSUME NEW k \in Kinds, SignInit(k) \/ SignInitFails(k)
      PROVE  NothingRepeated'
  BY <1>1, <1>4 DEF SignInit, SignInitFails
<1>5. ASSUME NEW k \in Kinds, NEW d \in Data, Update(k, d) PROVE NothingRepeated'
  BY <1>5 DEF Update, NothingRepeated
<1>6. ASSUME NEW k \in Kinds, NEW buffer \in Buffers, Final(k, buffer)
      PROVE  NothingRepeated'
  <2>1. PICK r \in Finals(k, op[k], buffer) : Return(k, r, op[k], parts[k])
    BY <1>6 DEF Final
  <2> QED
    BY <2>1 DEF Return, NothingRepeated, Inv, TypeOK
<1> QED
  BY <1>2, <1>3, <1>4, <1>5, <1>6 DEF Parted

LEMMA RoomyStep ==
  ASSUME Faults = FALSE, Inv, NothingRepeated, [Roomy]_vars
  PROVE  NothingRepeated'
<1>1. ASSUME NEW k \in Kinds, NEW d \in Data, Once(k, d, "enough")
      PROVE  NothingRepeated'
  <2>1. PICK r \in Finals(k, Fed(k, d, "enough"), "enough") :
          Return(k, r, Fed(k, d, "enough"), Append(parts[k], d))
    BY <1>1 DEF Once
  <2>2. r.op = Idle
    BY <2>1, FaultlessOutcomes DEF Buffers
  <2> QED
    BY <2>1, <2>2, ConstantOperations DEF Return, NothingRepeated, Inv, TypeOK
<1>2. ASSUME NEW d \in Data, Once("digest", d, "null")
      PROVE  NothingRepeated'
  <2>1. PICK r \in Finals("digest", Fed("digest", d, "null"), "null") :
          Return("digest", r, Fed("digest", d, "null"), Append(parts["digest"], d))
    BY <1>2 DEF Once
  <2>2. Fed("digest", d, "null") = op["digest"] /\ "digest" \in Kinds
    BY DEF Fed, Kinds
  <2> QED
    BY <2>1, <2>2 DEF Return, NothingRepeated, Inv, TypeOK
<1> QED
  BY <1>1, <1>2, PartedStep DEF Roomy

LEMMA NothingYet == Init => NothingRepeated /\ ResultCoversData
  BY DEF Init, NothingRepeated, ResultCoversData, Plain

(* The single-part functions are to blame for the results that cover more  *)
(* than the caller's data: the multiple-part functions never return one,   *)
(* on both platforms, whatever the platform library does and however often *)
(* the caller asks for the length first.                                   *)
THEOREM PartsAreCovered == Spec /\ [][Parted]_vars => []ResultCoversData
<1> QED
  BY NothingYet, PartedStep, CoveredStep, InitInv, NextInv, PTL DEF Spec

(* Nor do the single-part functions, as long as the platform library does  *)
(* not fail, when the buffer of their first call is large enough.          *)
THEOREM RoomIsCovered ==
  ASSUME Faults = FALSE
  PROVE  Spec /\ [][Roomy]_vars => []ResultCoversData
<1>1. Inv /\ NothingRepeated /\ [Roomy]_vars => NothingRepeated'
  BY RoomyStep
<1> QED
  BY <1>1, NothingYet, CoveredStep, InitInv, NextInv, PTL DEF Spec
=============================================================================
