--------------------------- MODULE CryptokiProofs ---------------------------
(***************************************************************************)
(* Theorems about Cryptoki, for every set of slots, sessions, objects,     *)
(* kinds and templates.                                                    *)
(***************************************************************************)
EXTENDS Cryptoki, SequenceTheorems, TLAPS

(* Collection::remove: the sequence without position i.                    *)
LEMMA RemoveAtProperties ==
  ASSUME NEW S, NEW seq \in Seq(S), NEW i \in 1..Len(seq)
  PROVE  /\ RemoveAt(seq, i) \in Seq(S)
         /\ Len(RemoveAt(seq, i)) = Len(seq) - 1
         /\ \A j \in 1..(Len(seq) - 1) :
              RemoveAt(seq, i)[j] = IF j < i THEN seq[j] ELSE seq[j + 1]
<1> DEFINE front == SubSeq(seq, 1, i - 1)
           back == SubSeq(seq, i + 1, Len(seq))
<1>1. Len(seq) \in Nat /\ \A j \in 1..Len(seq) : seq[j] \in S
  BY LenProperties, ElementOfSeq
<1>2. /\ front \in Seq(S)
      /\ Len(front) = i - 1
      /\ \A j \in 1..(i - 1) : front[j] = seq[j]
  <2>1. /\ front \in Seq(S)
        /\ Len(front) = IF 1 <= i - 1 THEN (i - 1) - 1 + 1 ELSE 0
        /\ \A j \in 1..((i - 1) - 1 + 1) : front[j] = seq[1 + j - 1]
    BY <1>1, SubSeqProperties
  <2> QED BY <1>1, <2>1
<1>3. /\ back \in Seq(S)
      /\ Len(back) = Len(seq) - i
      /\ \A j \in 1..(Len(seq) - i) : back[j] = seq[i + j]
  <2>1. /\ back \in Seq(S)
        /\ Len(back) = IF i + 1 <= Len(seq) THEN Len(seq) - (i + 1) + 1 ELSE 0
        /\ \A j \in 1..(Len(seq) - (i + 1) + 1) : back[j] = seq[(i + 1) + j - 1]
    BY <1>1, SubSeqProperties
  <2> QED BY <1>1, <2>1
<1>4. RemoveAt(seq, i) = front \o back
  BY DEF RemoveAt
<1> HIDE DEF front, back
<1>5. /\ front \o back \in Seq(S)
      /\ Len(front \o back) = Len(front) + Len(back)
      /\ \A j \in 1..(Len(front) + Len(back)) :
           (front \o back)[j] = IF j <= Len(front) THEN front[j] ELSE back[j - Len(front)]
  BY <1>2, <1>3, ConcatProperties
<1>6. ASSUME NEW j \in 1..(Len(seq) - 1)
      PROVE (front \o back)[j] = IF j < i THEN seq[j] ELSE seq[j + 1]
  <2>1. (front \o back)[j] = IF j <= i - 1 THEN front[j] ELSE back[j - (i - 1)]
    BY <1>1, <1>2, <1>3, <1>5
  <2>2. CASE j < i
    BY <1>1, <1>2, <2>1, <2>2
  <2>3. CASE j >= i
    <3>1. j - (i - 1) \in 1..(Len(seq) - i) /\ i + (j - (i - 1)) = j + 1
      BY <1>1, <2>3
    <3>2. PICK m \in 1..(Len(seq) - i) : m = j - (i - 1) /\ i + m = j + 1
      BY <3>1
    <3>3. back[m] = seq[j + 1]
      BY <1>3, <3>2
    <3>4. ~(j <= i - 1) /\ ~(j < i)
      BY <1>1, <2>3
    <3>5. (front \o back)[j] = back[m]
      BY <2>1, <3>2, <3>4, Zenon
    <3> QED
      BY <3>3, <3>4, <3>5, Zenon
  <2>4. j < i \/ j >= i
    BY <1>1
  <2> QED BY <2>2, <2>3, <2>4
<1> QED BY <1>1, <1>2, <1>3, <1>4, <1>5, <1>6

-----------------------------------------------------------------------------
(* What the calls that add objects have in common: they append objects no  *)
(* list holds and touch nothing else.                                      *)
Appended(h, new) ==
  /\ new \in Seq(Entry)
  /\ Addresses(new) \cap LiveObjects = {}
  /\ \A i, j \in DOMAIN new : new[i].address = new[j].address => i = j
  /\ objects' = [objects EXCEPT ![h] = @ \o new]
  /\ UNCHANGED <<initialized, sessions, find, history>>

Adds(h) == h \in LiveSessions /\ \E new \in Seq(Entry) : Appended(h, new)

LEMMA OneFresh ==
  ASSUME NEW h \in SessionIds, NEW o \in ObjectIds \ LiveObjects, NEW k \in Kinds,
         Push(h, <<Fresh(o, k)>>),
         UNCHANGED <<initialized, sessions, find, history>>,
         h \in LiveSessions
  PROVE  Adds(h)
<1> DEFINE new == <<Fresh(o, k)>>
<1>1. new \in Seq(Entry) /\ DOMAIN new = {1} /\ new[1].address = o
  BY DEF Entry, Fresh
<1>2. Appended(h, new)
  BY <1>1 DEF Appended, Addresses, Push
<1> QED BY <1>1, <1>2 DEF Adds

LEMMA TwoFresh ==
  ASSUME NEW h \in SessionIds, NEW pub \in ObjectIds \ LiveObjects,
         NEW priv \in ObjectIds \ LiveObjects, NEW k \in Kinds, NEW l \in Kinds,
         pub # priv,
         Push(h, <<Fresh(pub, k), Fresh(priv, l)>>),
         UNCHANGED <<initialized, sessions, find, history>>,
         h \in LiveSessions
  PROVE  Adds(h)
<1> DEFINE new == <<Fresh(pub, k), Fresh(priv, l)>>
<1>1. /\ new \in Seq(Entry) /\ DOMAIN new = {1, 2}
      /\ new[1].address = pub /\ new[2].address = priv
  BY DEF Entry, Fresh
<1>2. Appended(h, new)
  BY <1>1 DEF Appended, Addresses, Push
<1> QED BY <1>1, <1>2 DEF Adds

LEMMA CallsThatAdd ==
  ASSUME NEW h \in SessionIds,
         \/ CreateObject(h)
         \/ GenerateKey(h)
         \/ GenerateKeyPair(h)
         \/ \E i \in DOMAIN objects[h] : CopyObject(h, i)
  PROVE  Adds(h)
<1>1. CASE CreateObject(h)
  BY <1>1, OneFresh DEF CreateObject, Usable
<1>2. CASE GenerateKey(h)
  BY <1>2, OneFresh DEF GenerateKey, Usable
<1>3. CASE GenerateKeyPair(h)
  BY <1>3, TwoFresh DEF GenerateKeyPair, Usable
<1>4. ASSUME NEW i \in DOMAIN objects[h], CopyObject(h, i)
      PROVE  Adds(h)
  BY <1>4, OneFresh DEF CopyObject, Usable
<1> QED BY <1>1, <1>2, <1>3, <1>4

(* The lists a backend loads into a new session.                           *)
LEMMA LoadsAreFresh ==
  ASSUME NEW seq \in Loads
  PROVE  /\ seq \in Seq(Entry)
         /\ Addresses(seq) \cap LiveObjects = {}
         /\ \A i, j \in DOMAIN seq : seq[i].address = seq[j].address => i = j
<1>1. PICK n \in 0..MaxLoaded : seq \in [1..n -> Entry]
  BY DEF Loads
<1>2. n \in Nat
  BY BoundsAssumption
<1>3. seq \in Seq(Entry)
  BY <1>1, <1>2, SeqDef
<1> QED BY <1>3 DEF Loads


-----------------------------------------------------------------------------
LEMMA IdleTypes == IdleFind \in Find /\ NoHistory \in History
BY DEF IdleFind, Find, NoHistory, History

LEMMA TypeInit == Init => TypeOK
<1> SUFFICES ASSUME Init PROVE TypeOK
  OBVIOUS
<1>1. objects \in [SessionIds -> Seq(Entry)]
  BY EmptySeq DEF Init
<1>2. find \in [SessionIds -> Find] /\ history \in [SessionIds -> History]
  BY IdleTypes DEF Init
<1>3. initialized \in BOOLEAN /\ sessions \in [Slots -> SUBSET SessionIds]
  BY DEF Init
<1> QED BY <1>1, <1>2, <1>3 DEF TypeOK

(* Changing a function at one place.                                       *)
LEMMA Typed ==
  ASSUME NEW D, NEW R, NEW f \in [D -> R], NEW d \in D, NEW r \in R
  PROVE  [f EXCEPT ![d] = r] \in [D -> R]
OBVIOUS

(* TypeOK, taken apart for one session.                                    *)
LEMMA SessionTypes ==
  ASSUME TypeOK, NEW h \in SessionIds
  PROVE  /\ objects[h] \in Seq(Entry)
         /\ Len(objects[h]) \in Nat
         /\ DOMAIN objects[h] = 1..Len(objects[h])
         /\ \A i \in 1..Len(objects[h]) :
              /\ objects[h][i] \in Entry
              /\ objects[h][i].address \in ObjectIds
              /\ objects[h][i].kind \in Kinds
         /\ find[h] \in Find
         /\ find[h].active \in BOOLEAN
         /\ find[h].index \in Nat
         /\ history[h] \in History
<1>1. objects[h] \in Seq(Entry) /\ find[h] \in Find /\ history[h] \in History
  BY DEF TypeOK
<1>2. find[h].active \in BOOLEAN /\ find[h].index \in Nat
  BY <1>1 DEF Find
<1>3. \A i \in 1..Len(objects[h]) : objects[h][i] \in Entry
  BY <1>1, ElementOfSeq
<1>4. \A e \in Entry : e.address \in ObjectIds /\ e.kind \in Kinds
  BY DEF Entry
<1>5. Len(objects[h]) \in Nat /\ DOMAIN objects[h] = 1..Len(objects[h])
  BY <1>1, LenProperties
<1> QED BY <1>1, <1>2, <1>3, <1>4, <1>5

LEMMA ReleaseTypes ==
  ASSUME TypeOK, NEW hs, Release(hs)
  PROVE  /\ objects' \in [SessionIds -> Seq(Entry)]
         /\ find' \in [SessionIds -> Find]
         /\ history' \in [SessionIds -> History]
BY IdleTypes, EmptySeq DEF TypeOK, Release

LEMMA TypeStep == TypeOK /\ [Next]_vars => TypeOK'
<1> SUFFICES ASSUME TypeOK, [Next]_vars
             PROVE  TypeOK'
  OBVIOUS
<1>1. CASE Initialize \/ Finalize \/ UNCHANGED vars
  BY <1>1 DEF TypeOK, Initialize, Finalize, vars
<1>2. ASSUME NEW s \in Slots, NEW h \in SessionIds, OpenSession(s, h)
      PROVE  TypeOK'
  <2>1. objects' \in [SessionIds -> Seq(Entry)]
    BY <1>2, LoadsAreFresh DEF OpenSession, TypeOK
  <2> QED BY <1>2, <2>1, IdleTypes DEF OpenSession, TypeOK
<1>3. ASSUME NEW s \in Slots, NEW h \in SessionIds, CloseSession(s, h)
      PROVE  TypeOK'
  <2>1. Release({h})
    BY <1>3 DEF CloseSession
  <2> QED BY <1>3, <2>1, ReleaseTypes DEF CloseSession, TypeOK
<1>4. ASSUME NEW s \in Slots, CloseAllSessions(s)
      PROVE  TypeOK'
  <2>1. Release(sessions[s])
    BY <1>4 DEF CloseAllSessions
  <2> QED BY <1>4, <2>1, ReleaseTypes DEF CloseAllSessions, TypeOK
<1>5. ASSUME NEW h \in SessionIds, Adds(h)
      PROVE  TypeOK'
  <2>1. PICK new \in Seq(Entry) : Appended(h, new)
    BY <1>5 DEF Adds
  <2>2. objects[h] \o new \in Seq(Entry)
    BY ConcatProperties DEF TypeOK
  <2> QED BY <2>1, <2>2 DEF Appended, TypeOK
<1>6. ASSUME NEW h \in SessionIds, NEW i \in DOMAIN objects[h], DestroyObject(h, i)
      PROVE  TypeOK'
  <2>1. objects[h] \in Seq(Entry) /\ i \in 1..Len(objects[h])
    BY LenProperties DEF TypeOK
  <2>2. RemoveAt(objects[h], i) \in Seq(Entry)
    BY <2>1, RemoveAtProperties
  <2>3. objects' \in [SessionIds -> Seq(Entry)]
    BY <1>6, <2>2 DEF DestroyObject, TypeOK
  <2>4. history' \in [SessionIds -> History]
    <3> DEFINE new == [history[h] EXCEPT !.found = @ \ {objects[h][i].address},
                                        !.steady = @ \ {objects[h][i].address},
                                        !.shifted = find[h].active]
    <3>1. new \in History
      <4>1. history[h] \in History /\ find[h].active \in BOOLEAN
        BY SessionTypes
      <4> QED BY <4>1 DEF History
    <3>2. history' = [history EXCEPT ![h] = new]
      BY <1>6 DEF DestroyObject, TypeOK
    <3> QED BY <3>1, <3>2, Typed, Zenon DEF TypeOK
  <2> QED BY <1>6, <2>3, <2>4 DEF DestroyObject, TypeOK
<1>7. ASSUME NEW h \in SessionIds, NEW i \in DOMAIN objects[h], SetAttributeValue(h, i)
      PROVE  TypeOK'
  <2>1. PICK k \in Kinds : objects' = [objects EXCEPT ![h][i].kind = k]
    BY <1>7 DEF SetAttributeValue
  <2>2. objects[h] \in Seq(Entry) /\ i \in 1..Len(objects[h]) /\ objects[h][i] \in Entry
    BY LenProperties, ElementOfSeq DEF TypeOK
  <2>3. [objects[h][i] EXCEPT !.kind = k] \in Entry
    BY <2>2 DEF Entry
  <2>4. [objects[h] EXCEPT ![i] = [objects[h][i] EXCEPT !.kind = k]] \in Seq(Entry)
    BY <2>2, <2>3, ExceptSeq
  <2>5. objects' \in [SessionIds -> Seq(Entry)]
    BY <2>1, <2>4 DEF TypeOK
  <2>6. history' \in [SessionIds -> History]
    <3>1. history' = [history EXCEPT ![h].steady = @ \ {objects[h][i].address}]
      BY <1>7, Zenon DEF SetAttributeValue
    <3>2. history \in [SessionIds -> History] /\ history[h] \in History
      BY DEF TypeOK
    <3>3. [history[h] EXCEPT !.steady = @ \ {objects[h][i].address}] \in History
      BY <3>2 DEF History
    <3> QED
      BY <3>1, <3>2, <3>3
  <2> QED BY <1>7, <2>5, <2>6 DEF SetAttributeValue, TypeOK
<1>8. ASSUME NEW h \in SessionIds, NEW t \in Templates, FindObjectsInit(h, t)
      PROVE  TypeOK'
  <2>1. Matching(objects[h], t) \subseteq ObjectIds
    BY SessionTypes DEF Matching
  <2>2. [NoHistory EXCEPT !.steady = Matching(objects[h], t)] \in History
    BY <2>1 DEF NoHistory, History
  <2>3. [active |-> TRUE, template |-> t, index |-> 0] \in Find
    BY DEF Find
  <2> QED BY <1>8, <2>2, <2>3 DEF FindObjectsInit, TypeOK
<1>9. ASSUME NEW h \in SessionIds, NEW max \in 0..MaxBatch, FindObjects(h, max)
      PROVE  TypeOK'
  <2>1. PICK j \in Positions(h) :
          /\ find' = [find EXCEPT ![h].index = j]
          /\ history' = [history EXCEPT
               ![h].found = @ \cup {objects[h][i].address : i \in Hits(h, j)}]
    BY <1>9 DEF FindObjects
  <2>2. j \in Nat /\ \A i \in Hits(h, j) : i \in 1..Len(objects[h])
    BY SessionTypes DEF Positions, Hits
  <2>3. {objects[h][i].address : i \in Hits(h, j)} \subseteq ObjectIds
    BY <2>2, SessionTypes
  <2>4. find' \in [SessionIds -> Find]
    BY <2>1, <2>2 DEF TypeOK, Find
  <2>5. history' \in [SessionIds -> History]
    BY <2>1, <2>3 DEF TypeOK, History
  <2> QED BY <1>9, <2>4, <2>5 DEF FindObjects, TypeOK
<1>10. ASSUME NEW h \in SessionIds, NEW max \in 0..MaxBatch, FindObjectsRaises(h, max)
       PROVE  TypeOK'
  <2>1. PICK j \in (find[h].index + 1)..Len(objects[h]) :
          find' = [find EXCEPT ![h].index = j]
    BY <1>10 DEF FindObjectsRaises
  <2>2. j \in Nat
    BY SessionTypes
  <2>3. find' \in [SessionIds -> Find]
    BY <2>1, <2>2 DEF TypeOK, Find
  <2>4. history' \in [SessionIds -> History]
    <3>1. [history[h] EXCEPT !.raised = TRUE] \in History
      <4>1. history[h] \in History
        BY SessionTypes
      <4> QED BY <4>1 DEF History
    <3>2. history' = [history EXCEPT ![h] = [history[h] EXCEPT !.raised = TRUE]]
      BY <1>10 DEF FindObjectsRaises, TypeOK
    <3> QED BY <3>1, <3>2, Typed, Zenon DEF TypeOK
  <2> QED BY <1>10, <2>3, <2>4 DEF FindObjectsRaises, TypeOK
<1>11. ASSUME NEW h \in SessionIds, FindObjectsFinal(h)
       PROVE  TypeOK'
  BY <1>11, IdleTypes DEF FindObjectsFinal, TypeOK
<1> QED
  BY <1>1, <1>2, <1>3, <1>4, <1>5, <1>6, <1>7, <1>8, <1>9, <1>10, <1>11, CallsThatAdd
  DEF Next, SessionCall, ObjectCall, SearchCall

(* Every variable of the module, its slots and its sessions holds a value  *)
(* of its type.                                                            *)
THEOREM TypeCorrect == Spec => []TypeOK
BY TypeInit, TypeStep, PTL DEF Spec

-----------------------------------------------------------------------------
(* What each kind of step does to the objects of a session.                *)

LEMMA ListAfterAppend ==
  ASSUME TypeOK, NEW h \in SessionIds, NEW new \in Seq(Entry), Appended(h, new)
  PROVE  /\ \A g \in SessionIds \ {h} : objects'[g] = objects[g]
         /\ Len(new) \in Nat /\ DOMAIN new = 1..Len(new)
         /\ DOMAIN objects'[h] = 1..(Len(objects[h]) + Len(new))
         /\ \A i \in 1..Len(objects[h]) : objects'[h][i] = objects[h][i]
         /\ \A i \in (Len(objects[h]) + 1)..(Len(objects[h]) + Len(new)) :
              /\ i - Len(objects[h]) \in DOMAIN new
              /\ objects'[h][i] = new[i - Len(objects[h])]
              /\ objects'[h][i].address \notin LiveObjects
<1>1. objects[h] \in Seq(Entry) /\ Len(objects[h]) \in Nat
  BY SessionTypes
<1>2. Len(new) \in Nat /\ DOMAIN new = 1..Len(new)
  BY LenProperties
<1>3. objects'[h] = objects[h] \o new /\ \A g \in SessionIds \ {h} : objects'[g] = objects[g]
  BY DEF Appended, TypeOK
<1>4. /\ objects[h] \o new \in Seq(Entry)
      /\ Len(objects[h] \o new) = Len(objects[h]) + Len(new)
      /\ \A i \in 1..(Len(objects[h]) + Len(new)) :
           (objects[h] \o new)[i] =
             IF i <= Len(objects[h]) THEN objects[h][i] ELSE new[i - Len(objects[h])]
  BY <1>1, ConcatProperties
<1>5. DOMAIN objects'[h] = 1..(Len(objects[h]) + Len(new))
  BY <1>3, <1>4, LenProperties
<1>6. \A k \in DOMAIN new : new[k].address \notin LiveObjects
  BY DEF Appended, Addresses
<1>7. \A i \in 1..Len(objects[h]) : objects'[h][i] = objects[h][i]
  BY <1>1, <1>2, <1>3, <1>4
<1>8. ASSUME NEW i \in (Len(objects[h]) + 1)..(Len(objects[h]) + Len(new))
      PROVE  /\ i - Len(objects[h]) \in DOMAIN new
             /\ objects'[h][i] = new[i - Len(objects[h])]
  BY <1>1, <1>2, <1>3, <1>4
<1> QED BY <1>2, <1>3, <1>5, <1>6, <1>7, <1>8

LEMMA ListAfterDestroy ==
  ASSUME TypeOK, NEW h \in SessionIds, NEW i \in DOMAIN objects[h], DestroyObject(h, i)
  PROVE  /\ \A g \in SessionIds \ {h} : objects'[g] = objects[g]
         /\ Len(objects'[h]) = Len(objects[h]) - 1
         /\ DOMAIN objects'[h] = 1..(Len(objects[h]) - 1)
         /\ \A j \in 1..(Len(objects[h]) - 1) :
              objects'[h][j] = IF j < i THEN objects[h][j] ELSE objects[h][j + 1]
<1>1. objects[h] \in Seq(Entry) /\ i \in 1..Len(objects[h])
  BY SessionTypes
<1>2. /\ objects'[h] = RemoveAt(objects[h], i)
      /\ \A g \in SessionIds \ {h} : objects'[g] = objects[g]
  BY DEF DestroyObject, TypeOK
<1>3. /\ RemoveAt(objects[h], i) \in Seq(Entry)
      /\ Len(RemoveAt(objects[h], i)) = Len(objects[h]) - 1
      /\ \A j \in 1..(Len(objects[h]) - 1) :
           RemoveAt(objects[h], i)[j] = IF j < i THEN objects[h][j] ELSE objects[h][j + 1]
  BY <1>1, RemoveAtProperties
<1>4. DOMAIN RemoveAt(objects[h], i) = 1..(Len(objects[h]) - 1)
  BY <1>3, LenProperties
<1> QED BY <1>2, <1>3, <1>4

LEMMA ListAfterSet ==
  ASSUME TypeOK, NEW h \in SessionIds, NEW i \in DOMAIN objects[h], SetAttributeValue(h, i)
  PROVE  /\ \A g \in SessionIds \ {h} : objects'[g] = objects[g]
         /\ DOMAIN objects'[h] = DOMAIN objects[h]
         /\ objects'[h][i].address = objects[h][i].address
         /\ \A j \in DOMAIN objects[h] \ {i} : objects'[h][j] = objects[h][j]
<1>1. PICK k \in Kinds : objects' = [objects EXCEPT ![h][i].kind = k]
  BY DEF SetAttributeValue
<1>2. /\ objects'[h] = [objects[h] EXCEPT ![i].kind = k]
      /\ \A g \in SessionIds \ {h} : objects'[g] = objects[g]
  BY <1>1 DEF TypeOK
<1>3. objects[h][i] \in Entry /\ objects[h] \in [DOMAIN objects[h] -> Entry]
  BY SessionTypes, LenProperties
<1>4. objects'[h][i].address = objects[h][i].address
  BY <1>2, <1>3 DEF Entry
<1> QED BY <1>2, <1>3, <1>4

LEMMA LiveAddresses ==
  ASSUME TypeOK, NEW g \in SessionIds, NEW i \in DOMAIN objects[g]
  PROVE  objects[g][i].address \in LiveObjects
BY DEF LiveObjects, Addresses

(* The steps, by what they do to objects and searches.                     *)
LEMMA StepKinds ==
  ASSUME [Next]_vars
  PROVE  \/ UNCHANGED <<objects, find, history>>
         \/ \E s \in Slots, h \in SessionIds : OpenSession(s, h)
         \/ \E hs \in SUBSET LiveSessions : Release(hs)
         \/ \E h \in SessionIds : Adds(h)
         \/ \E h \in SessionIds : \E i \in DOMAIN objects[h] : DestroyObject(h, i)
         \/ \E h \in SessionIds : \E i \in DOMAIN objects[h] : SetAttributeValue(h, i)
         \/ \E h \in SessionIds : SearchCall(h)
<1>1. ASSUME NEW s \in Slots, NEW h \in SessionIds, CloseSession(s, h)
      PROVE  \E hs \in SUBSET LiveSessions : Release(hs)
  BY <1>1 DEF CloseSession, LiveSessions
<1>2. ASSUME NEW s \in Slots, CloseAllSessions(s)
      PROVE  \E hs \in SUBSET LiveSessions : Release(hs)
  BY <1>2 DEF CloseAllSessions, LiveSessions
<1>3. CASE Initialize \/ Finalize \/ UNCHANGED vars
  BY <1>3 DEF Initialize, Finalize, vars
<1> QED BY <1>1, <1>2, <1>3, CallsThatAdd DEF Next, SessionCall, ObjectCall

LEMMA SearchKeepsObjects ==
  ASSUME NEW h \in SessionIds, SearchCall(h)
  PROVE  UNCHANGED objects
BY DEF SearchCall, FindObjectsInit, FindObjects, FindObjectsRaises, FindObjectsFinal

-----------------------------------------------------------------------------
(* No session is in two slots, and no object is in two places.             *)
SessionsDistinct ==
  \A s1, s2 \in Slots : s1 # s2 => sessions[s1] \cap sessions[s2] = {}

ObjectsDistinct ==
  \A h1, h2 \in SessionIds :
    \A i \in DOMAIN objects[h1], j \in DOMAIN objects[h2] :
      objects[h1][i].address = objects[h2][j].address => h1 = h2 /\ i = j

Distinct == SessionsDistinct /\ ObjectsDistinct

LEMMA SessionsDistinctStep ==
  TypeOK /\ SessionsDistinct /\ [Next]_vars => SessionsDistinct'
<1> SUFFICES ASSUME TypeOK, SessionsDistinct, [Next]_vars
             PROVE  SessionsDistinct'
  OBVIOUS
<1>1. ASSUME NEW s \in Slots, NEW h \in SessionIds, OpenSession(s, h)
      PROVE  SessionsDistinct'
  BY <1>1 DEF OpenSession, SessionsDistinct, LiveSessions, TypeOK
<1>2. ASSUME NEW s \in Slots, NEW h \in SessionIds, CloseSession(s, h)
      PROVE  SessionsDistinct'
  BY <1>2 DEF CloseSession, SessionsDistinct, TypeOK
<1>3. ASSUME NEW s \in Slots, CloseAllSessions(s)
      PROVE  SessionsDistinct'
  BY <1>3 DEF CloseAllSessions, SessionsDistinct, TypeOK
<1>4. CASE UNCHANGED sessions
  BY <1>4 DEF SessionsDistinct
<1>5. CASE Initialize \/ Finalize \/ UNCHANGED vars
  BY <1>4, <1>5 DEF Initialize, Finalize, vars
<1>6. ASSUME NEW h \in SessionIds, ObjectCall(h) \/ SearchCall(h)
      PROVE  UNCHANGED sessions
  BY <1>6 DEF ObjectCall, SearchCall, CreateObject, CopyObject, GenerateKey,
    GenerateKeyPair, DestroyObject, SetAttributeValue, FindObjectsInit, FindObjects,
    FindObjectsRaises, FindObjectsFinal
<1> QED BY <1>1, <1>2, <1>3, <1>4, <1>5, <1>6 DEF Next, SessionCall

LEMMA ObjectsDistinctStep ==
  TypeOK /\ ObjectsDistinct /\ [Next]_vars => ObjectsDistinct'
<1> SUFFICES ASSUME TypeOK, ObjectsDistinct, [Next]_vars
             PROVE  ObjectsDistinct'
  OBVIOUS
<1> USE DEF ObjectsDistinct
<1>1. CASE UNCHANGED objects
  BY <1>1
<1>2. ASSUME NEW s \in Slots, NEW h \in SessionIds, OpenSession(s, h)
      PROVE  ObjectsDistinct'
  <2>1. PICK seq \in Loads : objects' = [objects EXCEPT ![h] = seq]
    BY <1>2 DEF OpenSession
  <2>2. /\ objects'[h] = seq
        /\ \A g \in SessionIds \ {h} : objects'[g] = objects[g]
    BY <2>1 DEF TypeOK
  <2>3. /\ \A i \in DOMAIN seq : seq[i].address \notin LiveObjects
        /\ \A i, j \in DOMAIN seq : seq[i].address = seq[j].address => i = j
    BY LoadsAreFresh DEF Addresses
  <2> QED BY <2>2, <2>3, LiveAddresses
<1>3. ASSUME NEW hs \in SUBSET LiveSessions, Release(hs)
      PROVE  ObjectsDistinct'
  <2>1. \A g \in SessionIds : objects'[g] = objects[g] \/ objects'[g] = <<>>
    BY <1>3 DEF Release
  <2> QED BY <2>1
<1>4. ASSUME NEW h \in SessionIds, Adds(h)
      PROVE  ObjectsDistinct'
  <2>1. PICK new \in Seq(Entry) : Appended(h, new)
    BY <1>4 DEF Adds
  <2> DEFINE old == 1..Len(objects[h])
             added == (Len(objects[h]) + 1)..(Len(objects[h]) + Len(new))
  <2>2. Len(objects[h]) \in Nat /\ Len(new) \in Nat /\ DOMAIN objects[h] = old
    BY <2>1, SessionTypes, ListAfterAppend
  <2>3. DOMAIN objects'[h] = old \cup added
    BY <2>1, <2>2, ListAfterAppend
  <2>4. ASSUME NEW i \in added, NEW j \in added,
               objects'[h][i].address = objects'[h][j].address
        PROVE  i = j
    <3> DEFINE m == i - Len(objects[h])
               n == j - Len(objects[h])
    <3>1. /\ m \in DOMAIN new /\ objects'[h][i] = new[m]
          /\ n \in DOMAIN new /\ objects'[h][j] = new[n]
      BY <2>1, ListAfterAppend
    <3> HIDE DEF m, n
    <3>2. m = n
      BY <2>1, <2>4, <3>1 DEF Appended
    <3> USE DEF m, n
    <3> QED BY <2>2, <3>2
  <2>5. ASSUME NEW g \in SessionIds, NEW i \in DOMAIN objects'[g], g # h \/ i \in old
        PROVE  /\ i \in DOMAIN objects[g]
               /\ objects'[g][i] = objects[g][i]
               /\ objects'[g][i].address \in LiveObjects
    BY <2>1, <2>2, <2>5, ListAfterAppend, LiveAddresses
  <2>6. \A i \in added : objects'[h][i].address \notin LiveObjects
    BY <2>1, ListAfterAppend
  <2> QED BY <2>3, <2>4, <2>5, <2>6
<1>5. ASSUME NEW h \in SessionIds, NEW i \in DOMAIN objects[h], DestroyObject(h, i)
      PROVE  ObjectsDistinct'
  <2> DEFINE from(j) == IF j < i THEN j ELSE j + 1
  <2>1. Len(objects[h]) \in Nat /\ DOMAIN objects[h] = 1..Len(objects[h])
    BY SessionTypes
  <2>2. ASSUME NEW j \in DOMAIN objects'[h]
        PROVE  from(j) \in DOMAIN objects[h] /\ objects'[h][j] = objects[h][from(j)]
    BY <1>5, <2>1, ListAfterDestroy, SMTT(30)
  <2>3. \A j, k \in DOMAIN objects'[h] : from(j) = from(k) => j = k
    BY <1>5, <2>1, ListAfterDestroy
  <2>4. \A g \in SessionIds \ {h} : objects'[g] = objects[g]
    BY <1>5, ListAfterDestroy
  <2> HIDE DEF from
  <2> QED BY <2>2, <2>3, <2>4
<1>6. ASSUME NEW h \in SessionIds, NEW i \in DOMAIN objects[h], SetAttributeValue(h, i)
      PROVE  ObjectsDistinct'
  <2>1. ASSUME NEW g \in SessionIds
        PROVE  /\ DOMAIN objects'[g] = DOMAIN objects[g]
               /\ \A j \in DOMAIN objects[g] : objects'[g][j].address = objects[g][j].address
    BY <1>6, ListAfterSet
  <2> QED BY <2>1
<1> QED BY <1>1, <1>2, <1>3, <1>4, <1>5, <1>6, StepKinds, SearchKeepsObjects

LEMMA AddressesStayUnique == Spec => []Distinct
<1>1. Init => Distinct
  BY DEF Init, Distinct, SessionsDistinct, ObjectsDistinct
<1>2. TypeOK /\ Distinct /\ [Next]_vars => Distinct'
  BY SessionsDistinctStep, ObjectsDistinctStep DEF Distinct
<1> QED BY <1>1, <1>2, TypeCorrect, PTL DEF Spec

(* A handle leads to the session and to the object it was told for,        *)
(* although the searches for them return the first hit                     *)
(* (Module::getSlotBySession, Slot::getSession, Session::GetObject).       *)
HandlesIdentify ==
  /\ \A r, s \in Slots :
       \A g \in sessions[r], h \in sessions[s] :
         HandleOf[g] = HandleOf[h] => r = s /\ g = h
  /\ \A h \in SessionIds : \A i \in DOMAIN objects[h] : Reached(h, i)

(* Where the cast to CK_ULONG keeps addresses apart, through every order   *)
(* of opening, closing, creating and destroying, handles identify.  Where  *)
(* it does not, a later object with the handle of an earlier one cannot be *)
(* reached.                                                                *)
THEOREM WideHandlesIdentify ==
  ASSUME \A g, h \in SessionIds : HandleOf[g] = HandleOf[h] => g = h,
         \A o, p \in ObjectIds : HandleOf[o] = HandleOf[p] => o = p
  PROVE  Spec => []HandlesIdentify
<1>1. TypeOK /\ Distinct => HandlesIdentify
  <2> SUFFICES ASSUME TypeOK, Distinct
               PROVE  HandlesIdentify
    OBVIOUS
  <2>1. ASSUME NEW r \in Slots, NEW s \in Slots, NEW g \in sessions[r], NEW h \in sessions[s],
               HandleOf[g] = HandleOf[h]
        PROVE  r = s /\ g = h
    <3>1. g \in SessionIds /\ h \in SessionIds
      BY DEF TypeOK
    <3>2. g = h
      BY <2>1, <3>1
    <3> QED BY <3>2 DEF Distinct, SessionsDistinct
  <2>2. ASSUME NEW h \in SessionIds, NEW i \in DOMAIN objects[h]
        PROVE  Reached(h, i)
    <3>1. Len(objects[h]) \in Nat /\ DOMAIN objects[h] = 1..Len(objects[h])
      BY SessionTypes
    <3>2. ASSUME NEW j \in 1..(i - 1)
          PROVE  HandleOf[objects[h][j].address] # HandleOf[objects[h][i].address]
      <4>1. j \in DOMAIN objects[h] /\ j # i
        BY <3>1
      <4>2. objects[h][j].address \in ObjectIds /\ objects[h][i].address \in ObjectIds
        BY <3>1, <4>1, SessionTypes
      <4>3. objects[h][j].address # objects[h][i].address
        BY <4>1 DEF Distinct, ObjectsDistinct
      <4> QED BY <4>2, <4>3
    <3> QED BY <3>2 DEF Reached
  <2> QED BY <2>1, <2>2 DEF HandlesIdentify
<1> QED BY <1>1, TypeCorrect, AddressesStayUnique, PTL

-----------------------------------------------------------------------------
(* A closed session holds nothing.                                         *)

LEMMA ClosedStep ==
  TypeOK /\ ClosedHoldNothing /\ [Next]_vars => ClosedHoldNothing'
<1> SUFFICES ASSUME TypeOK, ClosedHoldNothing, [Next]_vars,
                    NEW g \in SessionIds \ LiveSessions'
             PROVE  objects'[g] = <<>> /\ find'[g] = IdleFind
  BY DEF ClosedHoldNothing
<1>1. CASE Initialize \/ Finalize \/ UNCHANGED vars
  BY <1>1 DEF Initialize, Finalize, vars, ClosedHoldNothing, LiveSessions
<1>2. ASSUME NEW s \in Slots, NEW h \in SessionIds, OpenSession(s, h)
      PROVE  objects'[g] = <<>> /\ find'[g] = IdleFind
  <2>1. g # h /\ g \notin LiveSessions
    BY <1>2 DEF OpenSession, LiveSessions, TypeOK
  <2> QED BY <1>2, <2>1 DEF OpenSession, ClosedHoldNothing, TypeOK
<1>3. ASSUME NEW s \in Slots, NEW h \in SessionIds, CloseSession(s, h)
      PROVE  objects'[g] = <<>> /\ find'[g] = IdleFind
  <2>1. g = h \/ g \notin LiveSessions
    BY <1>3 DEF CloseSession, LiveSessions, TypeOK
  <2> QED BY <1>3, <2>1 DEF CloseSession, Release, ClosedHoldNothing
<1>4. ASSUME NEW s \in Slots, CloseAllSessions(s)
      PROVE  objects'[g] = <<>> /\ find'[g] = IdleFind
  <2>1. g \in sessions[s] \/ g \notin LiveSessions
    BY <1>4 DEF CloseAllSessions, LiveSessions, TypeOK
  <2> QED BY <1>4, <2>1 DEF CloseAllSessions, Release, ClosedHoldNothing
<1>5. ASSUME NEW h \in SessionIds, ObjectCall(h) \/ SearchCall(h)
      PROVE  objects'[g] = <<>> /\ find'[g] = IdleFind
  <2>1. h \in LiveSessions /\ UNCHANGED sessions
    BY <1>5 DEF ObjectCall, SearchCall, Usable, CreateObject, CopyObject, GenerateKey,
      GenerateKeyPair, DestroyObject, SetAttributeValue, FindObjectsInit, FindObjects,
      FindObjectsRaises, FindObjectsFinal
  <2>2. g # h /\ g \notin LiveSessions
    BY <2>1 DEF LiveSessions
  <2>3. objects'[g] = objects[g]
    <3>1. CASE Adds(h)
      BY <2>2, <3>1 DEF Adds, Appended, TypeOK
    <3>2. ASSUME NEW i \in DOMAIN objects[h], DestroyObject(h, i) \/ SetAttributeValue(h, i)
          PROVE  objects'[g] = objects[g]
      BY <2>2, <3>2, ListAfterDestroy, ListAfterSet
    <3> QED BY <1>5, <3>1, <3>2, CallsThatAdd, SearchKeepsObjects DEF ObjectCall
  <2>4. find'[g] = find[g]
    BY <1>5, <2>2 DEF ObjectCall, SearchCall, CreateObject, CopyObject, GenerateKey,
      GenerateKeyPair, DestroyObject, SetAttributeValue, FindObjectsInit, FindObjects,
      FindObjectsRaises, FindObjectsFinal, TypeOK
  <2> QED BY <2>2, <2>3, <2>4 DEF ClosedHoldNothing
<1> QED BY <1>1, <1>2, <1>3, <1>4, <1>5 DEF Next, SessionCall

(* Nothing of a closed session is left for a session built at its address. *)
THEOREM ClosedSessionsHoldNothing == Spec => []ClosedHoldNothing
<1>1. Init => ClosedHoldNothing
  BY DEF Init, ClosedHoldNothing
<1> QED BY <1>1, ClosedStep, TypeCorrect, PTL DEF Spec

-----------------------------------------------------------------------------
(* The search.  What has been reported lies behind the position, the       *)
(* objects known to have matched all along are still there and still       *)
(* match, and those the position has passed have been reported.            *)

Behind(g) ==
  \A o \in history[g].found :
    \E i \in DOMAIN objects[g] : i <= find[g].index /\ objects[g][i].address = o

SteadyHeld(g) == history[g].steady \subseteq Addresses(objects[g])

SteadyMatches(g) ==
  \A i \in DOMAIN objects[g] :
    objects[g][i].address \in history[g].steady => OutcomeAt(g, i) = "match"

Complete(g) ==
  find[g].active /\ ~history[g].raised /\ ~history[g].shifted => PassedReported(g)

SearchInv(g) == Behind(g) /\ SteadyHeld(g) /\ SteadyMatches(g) /\ Complete(g)

SearchInvariant == \A g \in SessionIds : SearchInv(g)

(* A session the step does not concern.                                    *)
LEMMA SearchUntouched ==
  ASSUME NEW g \in SessionIds, SearchInv(g),
         objects'[g] = objects[g], find'[g] = find[g], history'[g] = history[g]
  PROVE  SearchInv(g)'
BY DEF SearchInv, Behind, SteadyHeld, SteadyMatches, Complete, OutcomeAt, PassedReported

(* A session without a search.                                             *)
LEMMA SearchBlank ==
  ASSUME NEW g \in SessionIds, history'[g] = NoHistory
  PROVE  SearchInv(g)'
BY DEF SearchInv, Behind, SteadyHeld, SteadyMatches, Complete, PassedReported, NoHistory

LEMMA SearchInvAdds ==
  ASSUME TypeOK, SearchInvariant, NEW h \in SessionIds, Adds(h)
  PROVE  SearchInvariant'
<1>1. PICK new \in Seq(Entry) : Appended(h, new)
  BY DEF Adds
<1> DEFINE old == 1..Len(objects[h])
           added == (Len(objects[h]) + 1)..(Len(objects[h]) + Len(new))
<1>2. UNCHANGED <<find, history>>
  BY <1>1 DEF Appended
<1>3. /\ Len(objects[h]) \in Nat /\ Len(new) \in Nat
      /\ DOMAIN objects[h] = old /\ DOMAIN objects'[h] = old \cup added
      /\ \A i \in old : objects'[h][i] = objects[h][i]
      /\ \A i \in added : objects'[h][i].address \notin LiveObjects
  BY <1>1, SessionTypes, ListAfterAppend
<1> HIDE DEF old, added
<1>4. history[h].steady \subseteq LiveObjects /\ SearchInv(h)
  BY DEF SearchInvariant, SearchInv, SteadyHeld, LiveObjects
<1>5. SteadyHeld(h)' /\ Behind(h)'
  BY <1>2, <1>3, <1>4 DEF SearchInv, SteadyHeld, Behind, Addresses
<1>6. SteadyMatches(h)'
  BY <1>2, <1>3, <1>4 DEF SearchInv, SteadyMatches, OutcomeAt
<1>7. Complete(h)'
  BY <1>2, <1>3, <1>4 DEF SearchInv, Complete, PassedReported
<1>8. ASSUME NEW g \in SessionIds \ {h}
      PROVE  SearchInv(g)'
  BY <1>1, <1>2, ListAfterAppend, SearchUntouched DEF SearchInvariant
<1> QED BY <1>5, <1>6, <1>7, <1>8 DEF SearchInvariant, SearchInv

LEMMA SearchInvDestroy ==
  ASSUME TypeOK, SearchInvariant, NEW h \in SessionIds, NEW i \in DOMAIN objects[h],
         DestroyObject(h, i)
  PROVE  SearchInvariant'
<1> DEFINE gone == objects[h][i].address
           from(j) == IF j < i THEN j ELSE j + 1
           to(j) == IF j < i THEN j ELSE j - 1
<1>1. /\ find' = find
      /\ history'[h].found = history[h].found \ {gone}
      /\ history'[h].steady = history[h].steady \ {gone}
      /\ history'[h].shifted = find[h].active
      /\ \A g \in SessionIds \ {h} : history'[g] = history[g]
  BY DEF DestroyObject, TypeOK, History
<1>2. Len(objects[h]) \in Nat /\ DOMAIN objects[h] = 1..Len(objects[h]) /\ find[h].index \in Nat
  BY SessionTypes
<1>3. ASSUME NEW j \in DOMAIN objects'[h]
      PROVE  from(j) \in DOMAIN objects[h] /\ objects'[h][j] = objects[h][from(j)]
  <2>1. /\ j \in 1..(Len(objects[h]) - 1)
        /\ objects'[h][j] = IF j < i THEN objects[h][j] ELSE objects[h][j + 1]
    BY ListAfterDestroy
  <2>2. from(j) \in DOMAIN objects[h]
    BY <1>2, <2>1
  <2> QED BY <2>1, <2>2
<1>4. ASSUME NEW j \in DOMAIN objects[h], j # i
      PROVE  /\ to(j) \in DOMAIN objects'[h] /\ objects'[h][to(j)] = objects[h][j]
             /\ to(j) <= j /\ to(j) \in Nat /\ j \in Nat
  <2>1. to(j) \in 1..(Len(objects[h]) - 1) /\ to(j) <= j /\ j \in Nat
    BY <1>2, <1>4
  <2>2. IF to(j) < i THEN to(j) = j ELSE to(j) + 1 = j
    BY <1>2, <1>4
  <2> HIDE DEF to
  <2> QED BY <2>1, <2>2, ListAfterDestroy, SMTT(30)
<1> HIDE DEF from, to, gone
<1>5. SearchInv(h)
  BY DEF SearchInvariant
<1>6. Behind(h)'
  <2> SUFFICES ASSUME NEW o \in history'[h].found
               PROVE  \E j \in DOMAIN objects'[h] :
                        j <= find'[h].index /\ objects'[h][j].address = o
    BY DEF Behind
  <2>1. PICK j \in DOMAIN objects[h] : j <= find[h].index /\ objects[h][j].address = o
    BY <1>1, <1>5 DEF SearchInv, Behind
  <2>2. j # i
    BY <1>1, <2>1 DEF gone
  <2> QED BY <1>1, <1>2, <1>4, <2>1, <2>2
<1>7. SteadyHeld(h)'
  <2> SUFFICES ASSUME NEW o \in history'[h].steady
               PROVE  \E j \in DOMAIN objects'[h] : objects'[h][j].address = o
    BY DEF SteadyHeld, Addresses
  <2>1. PICK j \in DOMAIN objects[h] : objects[h][j].address = o
    BY <1>1, <1>5 DEF SearchInv, SteadyHeld, Addresses
  <2>2. j # i
    BY <1>1, <2>1 DEF gone
  <2> QED BY <1>4, <2>1, <2>2
<1>8. SteadyMatches(h)'
  BY <1>1, <1>3, <1>5 DEF SearchInv, SteadyMatches, OutcomeAt
<1>9. Complete(h)'
  BY <1>1 DEF Complete
<1>10. ASSUME NEW g \in SessionIds \ {h}
       PROVE  SearchInv(g)'
  BY <1>1, ListAfterDestroy, SearchUntouched DEF SearchInvariant
<1> QED BY <1>6, <1>7, <1>8, <1>9, <1>10 DEF SearchInvariant, SearchInv

LEMMA SearchInvSet ==
  ASSUME TypeOK, SearchInvariant, NEW h \in SessionIds, NEW i \in DOMAIN objects[h],
         SetAttributeValue(h, i)
  PROVE  SearchInvariant'
<1>1. /\ find' = find
      /\ history'[h].found = history[h].found
      /\ history'[h].steady = history[h].steady \ {objects[h][i].address}
      /\ history'[h].raised = history[h].raised
      /\ history'[h].shifted = history[h].shifted
      /\ \A g \in SessionIds \ {h} : history'[g] = history[g]
  BY DEF SetAttributeValue, TypeOK, History
<1>2. /\ DOMAIN objects'[h] = DOMAIN objects[h]
      /\ objects'[h][i].address = objects[h][i].address
      /\ \A j \in DOMAIN objects[h] \ {i} : objects'[h][j] = objects[h][j]
  BY ListAfterSet
<1>3. SearchInv(h)
  BY DEF SearchInvariant
<1>4. Behind(h)' /\ SteadyHeld(h)'
  BY <1>1, <1>2, <1>3 DEF SearchInv, Behind, SteadyHeld, Addresses
<1>5. SteadyMatches(h)'
  BY <1>1, <1>2, <1>3 DEF SearchInv, SteadyMatches, OutcomeAt
<1>6. Complete(h)'
  BY <1>1, <1>2, <1>3 DEF SearchInv, Complete, PassedReported
<1>7. ASSUME NEW g \in SessionIds \ {h}
      PROVE  SearchInv(g)'
  BY <1>1, ListAfterSet, SearchUntouched DEF SearchInvariant
<1> QED BY <1>4, <1>5, <1>6, <1>7 DEF SearchInvariant, SearchInv

(* The search has not moved yet; a handle designates one entry, so the     *)
(* entry behind a matching handle matches.                                 *)
LEMMA SearchInvStart ==
  ASSUME TypeOK, ObjectsDistinct, SearchInvariant, NEW h \in SessionIds,
         NEW t \in Templates, FindObjectsInit(h, t)
  PROVE  SearchInvariant'
<1>1. /\ UNCHANGED objects
      /\ find'[h].template = t /\ find'[h].index = 0
      /\ history'[h].found = {}
      /\ history'[h].steady = Matching(objects[h], t)
      /\ \A g \in SessionIds \ {h} : find'[g] = find[g] /\ history'[g] = history[g]
  BY DEF FindObjectsInit, TypeOK, NoHistory
<1>2. Behind(h)'
  BY <1>1 DEF Behind
<1>3. SteadyHeld(h)'
  BY <1>1 DEF SteadyHeld, Addresses, Matching
<1>4. SteadyMatches(h)'
  BY <1>1 DEF SteadyMatches, OutcomeAt, Matching, ObjectsDistinct
<1>5. Complete(h)'
  BY <1>1, SessionTypes DEF Complete, PassedReported
<1>6. ASSUME NEW g \in SessionIds \ {h}
      PROVE  SearchInv(g)'
  BY <1>1, SearchUntouched DEF SearchInvariant
<1> QED BY <1>2, <1>3, <1>4, <1>5, <1>6 DEF SearchInvariant, SearchInv

(* A call moves the position from find[h].index to j and reports the hits  *)
(* in between: exactly the entries there that match.                       *)
LEMMA SearchInvFind ==
  ASSUME TypeOK, SearchInvariant, NEW h \in SessionIds,
         NEW max \in 0..MaxBatch, FindObjects(h, max)
  PROVE  SearchInvariant'
<1>1. PICK j \in Positions(h) :
        /\ find' = [find EXCEPT ![h].index = j]
        /\ history' = [history EXCEPT
             ![h].found = @ \cup {objects[h][i].address : i \in Hits(h, j)}]
        /\ UNCHANGED objects
  BY DEF FindObjects
<1>2. /\ find'[h].index = j /\ find'[h].active = find[h].active
      /\ find'[h].template = find[h].template
      /\ history'[h].found = history[h].found \cup {objects[h][i].address : i \in Hits(h, j)}
      /\ history'[h].steady = history[h].steady
      /\ history'[h].raised = history[h].raised
      /\ history'[h].shifted = history[h].shifted
      /\ \A g \in SessionIds \ {h} : find'[g] = find[g] /\ history'[g] = history[g]
  BY <1>1 DEF TypeOK, Find, History
<1>3. /\ find[h].index \in Nat /\ j \in Nat /\ find[h].index <= j
      /\ DOMAIN objects[h] = 1..Len(objects[h]) /\ Len(objects[h]) \in Nat
      /\ \A i \in Hits(h, j) : i \in DOMAIN objects[h] /\ i <= j
  BY SessionTypes DEF Positions, Hits
<1>4. SearchInv(h)
  BY DEF SearchInvariant
<1>5. Behind(h)'
  BY <1>1, <1>2, <1>3, <1>4 DEF SearchInv, Behind
<1>6. SteadyHeld(h)' /\ SteadyMatches(h)'
  BY <1>1, <1>2, <1>4 DEF SearchInv, SteadyHeld, SteadyMatches, OutcomeAt
<1>7. Complete(h)'
  <2> SUFFICES ASSUME find[h].active, ~history[h].raised, ~history[h].shifted,
                      NEW i \in DOMAIN objects[h], i <= j,
                      objects[h][i].address \in history[h].steady
               PROVE  objects[h][i].address \in history'[h].found
    BY <1>1, <1>2 DEF Complete, PassedReported
  <2>1. CASE i <= find[h].index
    BY <1>2, <1>4, <2>1 DEF SearchInv, Complete, PassedReported
  <2>2. CASE i > find[h].index
    <3>1. OutcomeAt(h, i) = "match"
      BY <1>4 DEF SearchInv, SteadyMatches
    <3>2. i \in Hits(h, j)
      BY <1>3, <2>2, <3>1 DEF Hits
    <3> QED BY <1>2, <3>2
  <2> QED BY <1>3, <2>1, <2>2
<1>8. ASSUME NEW g \in SessionIds \ {h}
      PROVE  SearchInv(g)'
  BY <1>1, <1>2, SearchUntouched DEF SearchInvariant
<1> QED BY <1>5, <1>6, <1>7, <1>8 DEF SearchInvariant, SearchInv

LEMMA SearchInvRaises ==
  ASSUME TypeOK, SearchInvariant, NEW h \in SessionIds,
         NEW max \in 0..MaxBatch, FindObjectsRaises(h, max)
  PROVE  SearchInvariant'
<1>1. PICK j \in (find[h].index + 1)..Len(objects[h]) :
        /\ find' = [find EXCEPT ![h].index = j]
        /\ history' = [history EXCEPT ![h].raised = TRUE]
        /\ UNCHANGED objects
  BY DEF FindObjectsRaises
<1>2. /\ find'[h].index = j /\ find'[h].template = find[h].template
      /\ history'[h].found = history[h].found
      /\ history'[h].steady = history[h].steady
      /\ history'[h].raised
      /\ \A g \in SessionIds \ {h} : find'[g] = find[g] /\ history'[g] = history[g]
  BY <1>1 DEF TypeOK, Find, History
<1>3. /\ find[h].index \in Nat /\ find[h].index <= j /\ j \in Nat
      /\ DOMAIN objects[h] = 1..Len(objects[h]) /\ Len(objects[h]) \in Nat
  BY SessionTypes
<1>4. SearchInv(h)
  BY DEF SearchInvariant
<1>5. Behind(h)'
  BY <1>1, <1>2, <1>3, <1>4 DEF SearchInv, Behind
<1>6. SteadyHeld(h)' /\ SteadyMatches(h)' /\ Complete(h)'
  BY <1>1, <1>2, <1>4 DEF SearchInv, SteadyHeld, SteadyMatches, OutcomeAt, Complete
<1>7. ASSUME NEW g \in SessionIds \ {h}
      PROVE  SearchInv(g)'
  BY <1>1, <1>2, SearchUntouched DEF SearchInvariant
<1> QED BY <1>5, <1>6, <1>7 DEF SearchInvariant, SearchInv

LEMMA SearchInvStep ==
  TypeOK /\ ObjectsDistinct /\ SearchInvariant /\ [Next]_vars => SearchInvariant'
<1> SUFFICES ASSUME TypeOK, ObjectsDistinct, SearchInvariant, [Next]_vars
             PROVE  SearchInvariant'
  OBVIOUS
<1>1. CASE UNCHANGED <<objects, find, history>>
  BY <1>1, SearchUntouched DEF SearchInvariant
<1>2. ASSUME NEW s \in Slots, NEW h \in SessionIds, OpenSession(s, h)
      PROVE  SearchInvariant'
  <2>1. history'[h] = NoHistory
    BY <1>2 DEF OpenSession, TypeOK
  <2>2. ASSUME NEW g \in SessionIds \ {h}
        PROVE  objects'[g] = objects[g] /\ find'[g] = find[g] /\ history'[g] = history[g]
    BY <1>2 DEF OpenSession, TypeOK
  <2> QED BY <2>1, <2>2, SearchBlank, SearchUntouched DEF SearchInvariant
<1>3. ASSUME NEW hs \in SUBSET LiveSessions, Release(hs)
      PROVE  SearchInvariant'
  <2>1. ASSUME NEW g \in SessionIds
        PROVE  \/ history'[g] = NoHistory
               \/ objects'[g] = objects[g] /\ find'[g] = find[g] /\ history'[g] = history[g]
    BY <1>3 DEF Release
  <2> QED BY <2>1, SearchBlank, SearchUntouched DEF SearchInvariant
<1>4. ASSUME NEW h \in SessionIds, FindObjectsFinal(h)
      PROVE  SearchInvariant'
  <2>1. history'[h] = NoHistory
    BY <1>4 DEF FindObjectsFinal, TypeOK
  <2>2. ASSUME NEW g \in SessionIds \ {h}
        PROVE  objects'[g] = objects[g] /\ find'[g] = find[g] /\ history'[g] = history[g]
    BY <1>4 DEF FindObjectsFinal, TypeOK
  <2> QED BY <2>1, <2>2, SearchBlank, SearchUntouched DEF SearchInvariant
<1>5. ASSUME NEW h \in SessionIds, SearchCall(h)
      PROVE  SearchInvariant'
  BY <1>4, <1>5, SearchInvStart, SearchInvFind, SearchInvRaises DEF SearchCall
<1> QED BY <1>1, <1>2, <1>3, <1>5, SearchInvAdds, SearchInvDestroy, SearchInvSet, StepKinds

LEMMA SearchInvariantHolds == Spec => []SearchInvariant
<1>1. Init => SearchInvariant
  BY DEF Init, SearchInvariant, SearchInv, Behind, SteadyHeld, SteadyMatches, Complete,
    PassedReported, NoHistory, Addresses
<1>2. Distinct => ObjectsDistinct
  BY DEF Distinct
<1> QED BY <1>1, <1>2, SearchInvStep, TypeCorrect, AddressesStayUnique, PTL DEF Spec

(* Whatever is created or destroyed meanwhile, a reported object lies      *)
(* behind the position of its search.                                      *)
THEOREM ReportedStayBehind == Spec => []ReportedBehindIndex
<1>1. SearchInvariant => ReportedBehindIndex
  BY DEF SearchInvariant, SearchInv, Behind, ReportedBehindIndex
<1> QED BY <1>1, SearchInvariantHolds, PTL

(* A search that nothing disturbed has reported every match it has passed. *)
THEOREM SearchesAreComplete == Spec => []SearchComplete
<1>1. SearchInvariant => SearchComplete
  BY DEF SearchInvariant, SearchInv, Complete, SearchComplete
<1> QED BY <1>1, SearchInvariantHolds, PTL

(* No search reports an object twice, even if objects were destroyed       *)
(* between two calls.                                                      *)
THEOREM SearchesNeverRepeat == Spec => NoRepeat
<1> DEFINE Once == \A h \in SessionIds, max \in 0..MaxBatch :
                     FindObjects(h, max) =>
                       \A i \in (find[h].index + 1)..find'[h].index :
                         objects[h][i].address \notin history[h].found
<1>1. TypeOK /\ Distinct /\ SearchInvariant /\ [Next]_vars => [Once]_vars
  <2> SUFFICES ASSUME TypeOK, ObjectsDistinct, SearchInvariant,
                      NEW h \in SessionIds, NEW max \in 0..MaxBatch, FindObjects(h, max),
                      NEW i \in (find[h].index + 1)..find'[h].index,
                      objects[h][i].address \in history[h].found
               PROVE  FALSE
    BY DEF Distinct
  <2>1. find'[h].index \in Positions(h)
    BY DEF FindObjects, TypeOK, Find
  <2>2. i \in DOMAIN objects[h] /\ ~(i <= find[h].index)
    BY <2>1, SessionTypes DEF Positions
  <2>3. PICK k \in DOMAIN objects[h] :
          k <= find[h].index /\ objects[h][k].address = objects[h][i].address
    BY DEF SearchInvariant, SearchInv, Behind
  <2> QED BY <2>2, <2>3 DEF ObjectsDistinct
<1> QED BY <1>1, TypeCorrect, AddressesStayUnique, SearchInvariantHolds, PTL DEF Spec, NoRepeat

=============================================================================
