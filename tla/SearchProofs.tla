---------------------------- MODULE SearchProofs ----------------------------
(***************************************************************************)
(* Theorems about the search of a session: what one call of C_FindObjects  *)
(* returns and what a whole search promises, for every set of slots,       *)
(* sessions, objects, kinds and templates.                                 *)
(***************************************************************************)
EXTENDS CryptokiProofs, FiniteSetTheorems, WellFoundedInduction

-----------------------------------------------------------------------------
(* One call.                                                               *)

LEMMA Least ==
  ASSUME NEW S \in SUBSET Nat, S # {}
  PROVE  \E m \in S : \A n \in S : m <= n
<1>1. PICK m \in S : \A n \in S : ~(<<n, m>> \in OpToRel(<, Nat))
  BY NatLessThanWellFounded, WFMin
<1>2. \A n \in S : ~(n < m)
  BY <1>1 DEF OpToRel
<1>3. \A n \in S : m <= n
  BY <1>2
<1> QED BY <1>3

(* Where the loop can leave its index.                                     *)
LEMMA PositionsInside ==
  ASSUME TypeOK, NEW h \in SessionIds, NEW j \in Positions(h)
  PROVE  /\ j \in Nat /\ find[h].index <= j
         /\ j = find[h].index \/ j <= Len(objects[h])
         /\ Hits(h, j) \subseteq DOMAIN objects[h]
         /\ \A i \in Hits(h, j) : find[h].index < i /\ i <= j
BY SessionTypes DEF Positions, Hits

LEMMA LoopStops ==
  ASSUME TypeOK, NEW h \in SessionIds, NEW max
  PROVE  \E j \in Positions(h) : LoopEnds(h, max, j)
<1>1. find[h].index \in Nat /\ Len(objects[h]) \in Nat
  BY SessionTypes
<1>2. PICK S : S = {j \in Positions(h) : StopsAt(h, max, j)}
  OBVIOUS
<1>3. S \in SUBSET Nat
  BY <1>2, PositionsInside
<1>4. S # {}
  <2>1. CASE find[h].index >= Len(objects[h])
    <3>1. find[h].index \in S
      BY <1>2, <2>1 DEF Positions, StopsAt
    <3> QED BY <3>1
  <2>2. CASE find[h].index < Len(objects[h])
    <3>1. Len(objects[h]) \in S
      BY <1>1, <1>2, <2>2 DEF Positions, StopsAt
    <3> QED BY <3>1
  <2> QED BY <1>1, <2>1, <2>2
<1>5. PICK m \in S : \A n \in S : m <= n
  BY <1>3, <1>4, Least
<1>6. m \in Positions(h) /\ StopsAt(h, max, m) /\ m \in Nat
  BY <1>2, <1>3
<1>7. ASSUME NEW k \in (find[h].index)..(m - 1), StopsAt(h, max, k)
      PROVE  FALSE
  <2>1. /\ m <= Len(objects[h])
        /\ k \in Nat /\ find[h].index <= k /\ k < m
    BY <1>1, <1>6, PositionsInside
  <2>2. k \in Positions(h)
    <3>1. k \in (find[h].index)..Len(objects[h])
      BY <1>1, <1>6, <2>1
    <3> QED BY <3>1 DEF Positions
  <2>3. m <= k
    BY <1>2, <1>5, <1>7, <2>2
  <2> QED BY <1>6, <2>1, <2>3
<1> QED BY <1>6, <1>7 DEF LoopEnds

LEMMA LoopStopsOnce ==
  ASSUME TypeOK, NEW h \in SessionIds, NEW max,
         NEW j \in Positions(h), LoopEnds(h, max, j),
         NEW k \in Positions(h), LoopEnds(h, max, k)
  PROVE  j = k
<1>1. /\ find[h].index \in Nat
      /\ j \in Nat /\ find[h].index <= j
      /\ k \in Nat /\ find[h].index <= k
  BY SessionTypes, PositionsInside
<1>2. CASE j < k
  <2>1. j \in (find[h].index)..(k - 1)
    BY <1>1, <1>2
  <2> QED BY <2>1 DEF LoopEnds
<1>3. CASE k < j
  <2>1. k \in (find[h].index)..(j - 1)
    BY <1>1, <1>3
  <2> QED BY <2>1 DEF LoopEnds
<1> QED BY <1>1, <1>2, <1>3

(* What a call that returns CKR_OK does to its search.                     *)
LEMMA CallReports ==
  ASSUME TypeOK, NEW h \in SessionIds, NEW max \in 0..MaxBatch, FindObjects(h, max)
  PROVE  \E j \in Positions(h) :
           /\ LoopEnds(h, max, j)
           /\ j > find[h].index => OutcomeAt(h, j) # "throws"
           /\ UNCHANGED objects
           /\ find'[h].index = j /\ find'[h].active = find[h].active
           /\ history'[h].found =
                history[h].found \cup {objects[h][i].address : i \in Hits(h, j)}
           /\ history'[h].steady = history[h].steady
           /\ history'[h].raised = history[h].raised
           /\ history'[h].shifted = history[h].shifted
           /\ \A g \in SessionIds \ {h} : find'[g] = find[g] /\ history'[g] = history[g]
<1>1. PICK j \in Positions(h) :
        /\ LoopEnds(h, max, j)
        /\ j > find[h].index => OutcomeAt(h, j) # "throws"
        /\ find' = [find EXCEPT ![h].index = j]
        /\ history' = [history EXCEPT
             ![h].found = @ \cup {objects[h][i].address : i \in Hits(h, j)}]
        /\ UNCHANGED objects
  BY DEF FindObjects
<1> QED BY <1>1 DEF TypeOK, Find, History

(* A call reports as many handles as it has compared matching objects:     *)
(* none of them twice, none of them reported before.                       *)
LEMMA ReportedOncePerHit ==
  ASSUME TypeOK, ObjectsDistinct, SearchInvariant,
         NEW h \in SessionIds, NEW j \in Positions(h)
  PROVE  LET new == {objects[h][i].address : i \in Hits(h, j)}
         IN  /\ new \cap history[h].found = {}
             /\ Cardinality(new) = Cardinality(Hits(h, j))
<1> DEFINE new == {objects[h][i].address : i \in Hits(h, j)}
<1>1. /\ Hits(h, j) \subseteq DOMAIN objects[h]
      /\ \A i \in Hits(h, j) : find[h].index < i
      /\ find[h].index \in Nat
      /\ DOMAIN objects[h] = 1..Len(objects[h]) /\ Len(objects[h]) \in Nat
  BY PositionsInside, SessionTypes
<1>2. ASSUME NEW i \in Hits(h, j), objects[h][i].address \in history[h].found
      PROVE  FALSE
  <2>1. PICK k \in DOMAIN objects[h] :
          k <= find[h].index /\ objects[h][k].address = objects[h][i].address
    BY <1>2 DEF SearchInvariant, SearchInv, Behind
  <2>2. k = i
    BY <1>1, <2>1 DEF ObjectsDistinct
  <2> QED BY <1>1, <2>1, <2>2
<1>3. IsFiniteSet(Hits(h, j))
  <2>1. IsFiniteSet(1..Len(objects[h]))
    BY <1>1, FS_Interval
  <2> QED BY <1>1, <2>1, FS_Subset
<1>4. PICK f : f = [i \in Hits(h, j) |-> objects[h][i].address]
  OBVIOUS
<1>5. f \in [Hits(h, j) -> new] /\ \A n \in new : \E i \in Hits(h, j) : f[i] = n
  BY <1>4
<1>6. \A a, b \in Hits(h, j) : f[a] = f[b] => a = b
  BY <1>1, <1>4 DEF ObjectsDistinct
<1>7. ExistsBijection(Hits(h, j), new)
  <2> HIDE DEF new
  <2> QED BY <1>5, <1>6 DEF ExistsBijection, Bijection, Injection, Surjection, IsInjective
<1>8. Cardinality(new) = Cardinality(Hits(h, j))
  BY <1>3, <1>7, FS_Bijection
<1> QED BY <1>2, <1>8

-----------------------------------------------------------------------------
(* What a call can end with.  In every state of the program the loop of    *)
(* C_FindObjects stops, at one position: the call either returns CKR_OK or *)
(* raises, and it never runs past the objects of its session.              *)
CallEnds ==
  \A h \in SessionIds, max \in 0..MaxBatch :
    \E j \in Positions(h) :
      /\ LoopEnds(h, max, j)
      /\ \A k \in Positions(h) : LoopEnds(h, max, k) => k = j

THEOREM EveryCallEnds == Spec => []CallEnds
<1>1. TypeOK => CallEnds
  BY LoopStops, LoopStopsOnce DEF CallEnds
<1> QED BY <1>1, TypeCorrect, PTL

(* A call that reports fewer handles than its caller asked for, in a       *)
(* search that nothing disturbed, leaves nothing for another call.         *)
THEOREM ShortBatchesEnd == Spec => ShortMeansAll
<1> DEFINE Short ==
      \A h \in SessionIds, max \in 0..MaxBatch :
        Undisturbed(h) /\ ~(history[h].steady \subseteq history'[h].found)
                       /\ FindObjects(h, max)
          => Cardinality(history'[h].found \ history[h].found) = max
<1>1. TypeOK /\ Distinct /\ SearchInvariant /\ [Next]_vars => [Short]_vars
  <2> SUFFICES ASSUME TypeOK, ObjectsDistinct, SearchInvariant,
                      NEW h \in SessionIds, NEW max \in 0..MaxBatch,
                      Undisturbed(h), FindObjects(h, max),
                      Cardinality(history'[h].found \ history[h].found) # max
               PROVE  history[h].steady \subseteq history'[h].found
    BY DEF Distinct
  <2>1. PICK j \in Positions(h) :
          /\ LoopEnds(h, max, j)
          /\ j > find[h].index => OutcomeAt(h, j) # "throws"
          /\ UNCHANGED objects
          /\ find'[h].index = j /\ find'[h].active = find[h].active
          /\ history'[h].found =
               history[h].found \cup {objects[h][i].address : i \in Hits(h, j)}
          /\ history'[h].steady = history[h].steady
          /\ history'[h].raised = history[h].raised
          /\ history'[h].shifted = history[h].shifted
    BY CallReports
  <2> DEFINE new == {objects[h][i].address : i \in Hits(h, j)}
  <2>2. new \cap history[h].found = {} /\ Cardinality(new) = Cardinality(Hits(h, j))
    BY ReportedOncePerHit
  <2>3. history'[h].found \ history[h].found = new
    BY <2>1, <2>2
  <2>4. Cardinality(Hits(h, j)) # max
    BY <2>2, <2>3
  <2>5. j >= Len(objects[h])
    BY <2>1, <2>4 DEF LoopEnds, StopsAt
  <2>6. SearchInv(h)'
    BY SearchInvFind DEF SearchInvariant
  <2>7. PassedReported(h)'
    BY <2>1, <2>6 DEF SearchInv, Complete, Undisturbed
  <2>8. \A i \in DOMAIN objects[h] : i <= j
    BY <2>5, SessionTypes, PositionsInside
  <2> QED BY <2>1, <2>6, <2>7, <2>8 DEF PassedReported, SearchInv, SteadyHeld, Addresses
<1> QED BY <1>1, TypeCorrect, AddressesStayUnique, SearchInvariantHolds, PTL
  DEF Spec, ShortMeansAll

(* A call that asks for at least one handle moves its search on, whether   *)
(* it returns or raises, unless the objects are exhausted: the safety half *)
(* of the search's termination.                                            *)
Advances ==
  [][\A h \in SessionIds, max \in 1..MaxBatch :
       FindObjects(h, max) \/ FindObjectsRaises(h, max)
         => \/ find[h].index >= Len(objects[h])
            \/ find'[h].index > find[h].index]_vars

THEOREM SearchesAdvance == Spec => Advances
<1> DEFINE Moves ==
      \A h \in SessionIds, max \in 1..MaxBatch :
        FindObjects(h, max) \/ FindObjectsRaises(h, max)
          => \/ find[h].index >= Len(objects[h])
             \/ find'[h].index > find[h].index
<1>1. TypeOK /\ [Next]_vars => [Moves]_vars
  <2> SUFFICES ASSUME TypeOK, NEW h \in SessionIds, NEW max \in 1..MaxBatch,
                      FindObjects(h, max) \/ FindObjectsRaises(h, max),
                      ~(find[h].index >= Len(objects[h]))
               PROVE  find'[h].index > find[h].index
    OBVIOUS
  <2>1. find[h].index \in Nat /\ Len(objects[h]) \in Nat
    BY SessionTypes
  <2>2. CASE FindObjects(h, max)
    <3>1. max \in 0..MaxBatch /\ max # 0
      BY BoundsAssumption
    <3>2. PICK j \in Positions(h) : LoopEnds(h, max, j) /\ find'[h].index = j
      BY <2>2, <3>1, CallReports
    <3>3. j # find[h].index
      <4>1. ASSUME j = find[h].index PROVE Hits(h, j) = {}
        BY <2>1, <4>1 DEF Hits
      <4>2. ASSUME j = find[h].index PROVE Cardinality(Hits(h, j)) # max
        BY <3>1, <4>1, <4>2, FS_EmptySet
      <4> QED BY <2>1, <3>2, <4>2 DEF LoopEnds, StopsAt
    <3> QED BY <2>1, <3>2, <3>3, PositionsInside
  <2>3. CASE FindObjectsRaises(h, max)
    <3>1. PICK j \in (find[h].index + 1)..Len(objects[h]) :
            find' = [find EXCEPT ![h].index = j]
      BY <2>3 DEF FindObjectsRaises
    <3>2. find'[h].index = j
      BY <3>1 DEF TypeOK, Find
    <3> QED BY <2>1, <3>1, <3>2
  <2> QED BY <2>2, <2>3
<1> QED BY <1>1, TypeCorrect, PTL DEF Spec, Advances

-----------------------------------------------------------------------------
(* Every step of the program is a step of the promise of module Search, in *)
(* every session.                                                          *)

LEMMA SameSearch ==
  ASSUME NEW g \in SessionIds, Len(objects[g])' = Len(objects[g]),
         find'[g] = find[g], history'[g] = history[g]
  PROVE  Promise!Step(g)
BY DEF Promise!Step, Promise!Over, Promise!Change, Undisturbed

LEMMA EndedSearch ==
  ASSUME NEW g \in SessionIds, ~Undisturbed(g)'
  PROVE  Promise!Step(g)
BY DEF Promise!Step, Promise!Over, Promise!Drop

LEMMA BlankSearch ==
  ASSUME NEW g \in SessionIds, find'[g] = IdleFind
  PROVE  Promise!Step(g)
<1>1. ~Undisturbed(g)'
  BY DEF Undisturbed, IdleFind
<1> QED BY <1>1, EndedSearch

LEMMA PromiseAdds ==
  ASSUME TypeOK, NEW h \in SessionIds, Adds(h), NEW g \in SessionIds
  PROVE  Promise!Step(g)
<1>1. PICK new \in Seq(Entry) : Appended(h, new)
  BY DEF Adds
<1>2. UNCHANGED <<find, history>>
  BY <1>1 DEF Appended
<1>3. CASE g # h
  BY <1>1, <1>2, <1>3, ListAfterAppend, SameSearch
<1>4. CASE g = h
  <2>1. objects'[h] = objects[h] \o new
    BY <1>1 DEF Appended, TypeOK
  <2>2. Len(objects'[h]) = Len(objects[h]) + Len(new) /\ Len(new) \in Nat
    BY <2>1, SessionTypes, ConcatProperties, LenProperties
  <2>3. find[h].index >= Len(objects'[h]) => find[h].index >= Len(objects[h])
    BY <2>2, SessionTypes
  <2> QED BY <1>2, <1>4, <2>3
        DEF Promise!Step, Promise!Over, Promise!Change, Undisturbed
<1> QED BY <1>3, <1>4

LEMMA PromiseDestroys ==
  ASSUME TypeOK, NEW h \in SessionIds, NEW i \in DOMAIN objects[h], DestroyObject(h, i),
         NEW g \in SessionIds
  PROVE  Promise!Step(g)
<1>1. /\ find' = find
      /\ history'[h].shifted = find[h].active
      /\ \A f \in SessionIds \ {h} : history'[f] = history[f]
  BY DEF DestroyObject, TypeOK, History
<1>2. CASE g # h
  BY <1>1, <1>2, ListAfterDestroy, SameSearch
<1>3. CASE g = h
  <2>1. ~Undisturbed(h)'
    BY <1>1 DEF Undisturbed
  <2> QED BY <1>3, <2>1, EndedSearch
<1> QED BY <1>2, <1>3

LEMMA PromiseSets ==
  ASSUME TypeOK, NEW h \in SessionIds, NEW i \in DOMAIN objects[h],
         SetAttributeValue(h, i), NEW g \in SessionIds
  PROVE  Promise!Step(g)
<1>1. /\ find' = find
      /\ history'[h].found = history[h].found
      /\ history'[h].steady \subseteq history[h].steady
      /\ history'[h].raised = history[h].raised
      /\ history'[h].shifted = history[h].shifted
      /\ \A f \in SessionIds \ {h} : history'[f] = history[f]
  BY DEF SetAttributeValue, TypeOK, History
<1>2. CASE g # h
  BY <1>1, <1>2, ListAfterSet, SameSearch
<1>3. CASE g = h
  <2>1. Len(objects'[h]) = Len(objects[h])
    <3>1. PICK k \in Kinds : objects' = [objects EXCEPT ![h][i].kind = k]
      BY DEF SetAttributeValue
    <3>2. objects'[h] = [objects[h] EXCEPT ![i].kind = k]
      BY <3>1 DEF TypeOK
    <3>3. objects'[h] = [objects[h] EXCEPT ![i] = [objects[h][i] EXCEPT !.kind = k]]
      BY <3>2
    <3>4. [objects[h][i] EXCEPT !.kind = k] \in Entry
      BY SessionTypes DEF Entry
    <3> QED BY <3>3, <3>4, SessionTypes, ExceptSeq
  <2> QED BY <1>1, <1>3, <2>1
        DEF Promise!Step, Promise!Over, Promise!Change, Undisturbed
<1> QED BY <1>2, <1>3

(* A list that ends before its first object holds nothing that could match.*)
LEMMA PromiseBegins ==
  ASSUME TypeOK, NEW h \in SessionIds, NEW t \in Templates, FindObjectsInit(h, t),
         NEW g \in SessionIds
  PROVE  Promise!Step(g)
<1>1. /\ UNCHANGED objects
      /\ ~find[h].active
      /\ find'[h].active /\ find'[h].index = 0
      /\ history'[h].found = {}
      /\ history'[h].steady = Matching(objects[h], t)
      /\ ~history'[h].raised /\ ~history'[h].shifted
      /\ \A f \in SessionIds \ {h} : find'[f] = find[f] /\ history'[f] = history[f]
  BY DEF FindObjectsInit, TypeOK, NoHistory
<1>2. CASE g # h
  BY <1>1, <1>2, SameSearch
<1>3. CASE g = h
  <2>1. Matching(objects[h], t) \subseteq ObjectIds
    BY SessionTypes DEF Matching
  <2>2. 0 >= Len(objects[h]) => Matching(objects[h], t) = {}
    BY SessionTypes DEF Matching
  <2>3. ~Undisturbed(h) /\ Undisturbed(h)'
    BY <1>1 DEF Undisturbed
  <2>4. (history[h].steady \ history[h].found)' = Matching(objects[h], t)
    BY <1>1
  <2>5. Promise!Begin(h)
    BY <1>1, <2>1, <2>2, <2>3, <2>4 DEF Promise!Begin, Promise!Settled
  <2> QED BY <1>3, <2>5 DEF Promise!Step
<1> QED BY <1>2, <1>3

LEMMA PromiseTells ==
  ASSUME TypeOK, SearchInvariant, NEW h \in SessionIds, NEW max \in 0..MaxBatch,
         FindObjects(h, max), NEW g \in SessionIds
  PROVE  Promise!Step(g)
<1>1. PICK j \in Positions(h) :
        /\ UNCHANGED objects
        /\ find'[h].index = j /\ find'[h].active = find[h].active
        /\ history'[h].found =
             history[h].found \cup {objects[h][i].address : i \in Hits(h, j)}
        /\ history'[h].steady = history[h].steady
        /\ history'[h].raised = history[h].raised
        /\ history'[h].shifted = history[h].shifted
        /\ \A f \in SessionIds \ {h} : find'[f] = find[f] /\ history'[f] = history[f]
  BY CallReports
<1>2. CASE g # h
  BY <1>1, <1>2, SameSearch
<1>3. CASE g = h /\ ~Undisturbed(h)
  <2>1. ~Undisturbed(h)'
    BY <1>1, <1>3 DEF Undisturbed
  <2> QED BY <1>3, <2>1, EndedSearch
<1>4. CASE g = h /\ Undisturbed(h)
  <2>1. Undisturbed(h)'
    BY <1>1, <1>4 DEF Undisturbed
  <2>2. history'[h].found \subseteq ObjectIds /\ history[h].found \subseteq history'[h].found
    <3>1. history[h].found \subseteq ObjectIds
      BY SessionTypes DEF History
    <3>2. \A i \in Hits(h, j) : objects[h][i].address \in ObjectIds
      BY SessionTypes, PositionsInside
    <3> QED BY <1>1, <3>1, <3>2
  <2>3. (history[h].steady \ history[h].found)' =
          (history[h].steady \ history[h].found) \ history'[h].found
    BY <1>1, <2>2
  <2>4. ASSUME find'[h].index >= Len(objects'[h])
        PROVE  (history[h].steady \ history[h].found)' = {}
    <3>1. SearchInv(h)'
      BY SearchInvFind DEF SearchInvariant
    <3>2. PassedReported(h)'
      BY <2>1, <3>1 DEF SearchInv, Complete, Undisturbed
    <3>3. \A i \in DOMAIN objects'[h] : i <= find'[h].index
      BY <1>1, <2>4, SessionTypes, PositionsInside
    <3> QED BY <3>1, <3>2, <3>3 DEF PassedReported, SearchInv, SteadyHeld, Addresses
  <2>5. Promise!Tell(h)
    BY <1>4, <2>1, <2>2, <2>3, <2>4 DEF Promise!Tell, Promise!Settled
  <2> QED BY <1>4, <2>5 DEF Promise!Step
<1> QED BY <1>2, <1>3, <1>4

LEMMA PromiseRaises ==
  ASSUME TypeOK, NEW h \in SessionIds, NEW max \in 0..MaxBatch, FindObjectsRaises(h, max),
         NEW g \in SessionIds
  PROVE  Promise!Step(g)
<1>1. /\ UNCHANGED objects
      /\ history'[h].raised
      /\ \A f \in SessionIds \ {h} : find'[f] = find[f] /\ history'[f] = history[f]
  BY DEF FindObjectsRaises, TypeOK, History
<1>2. CASE g # h
  BY <1>1, <1>2, SameSearch
<1>3. CASE g = h
  <2>1. ~Undisturbed(h)'
    BY <1>1 DEF Undisturbed
  <2> QED BY <1>3, <2>1, EndedSearch
<1> QED BY <1>2, <1>3

LEMMA PromiseCalls ==
  ASSUME TypeOK, SearchInvariant, NEW h \in SessionIds, SearchCall(h), NEW g \in SessionIds
  PROVE  Promise!Step(g)
<1>1. CASE FindObjectsFinal(h)
  <2>1. /\ UNCHANGED objects
        /\ find'[h] = IdleFind
        /\ \A f \in SessionIds \ {h} : find'[f] = find[f] /\ history'[f] = history[f]
    BY <1>1 DEF FindObjectsFinal, TypeOK
  <2>2. CASE g = h
    BY <2>1, <2>2, BlankSearch
  <2>3. CASE g # h
    BY <2>1, <2>3, SameSearch
  <2> QED BY <2>2, <2>3
<1> QED BY <1>1, PromiseBegins, PromiseTells, PromiseRaises DEF SearchCall

LEMMA PromiseStep ==
  TypeOK /\ SearchInvariant /\ [Next]_vars => Promise!Next
<1> SUFFICES ASSUME TypeOK, SearchInvariant, [Next]_vars, NEW g \in SessionIds
             PROVE  Promise!Step(g)
  BY DEF Promise!Next
<1>1. CASE UNCHANGED <<objects, find, history>>
  BY <1>1, SameSearch
<1>2. ASSUME NEW s \in Slots, NEW h \in SessionIds, OpenSession(s, h)
      PROVE  Promise!Step(g)
  <2>1. /\ find'[h] = IdleFind
        /\ \A f \in SessionIds \ {h} :
             objects'[f] = objects[f] /\ find'[f] = find[f] /\ history'[f] = history[f]
    BY <1>2 DEF OpenSession, TypeOK
  <2>2. CASE g = h
    BY <2>1, <2>2, BlankSearch
  <2>3. CASE g # h
    BY <2>1, <2>3, SameSearch
  <2> QED BY <2>2, <2>3
<1>3. ASSUME NEW hs \in SUBSET LiveSessions, Release(hs)
      PROVE  Promise!Step(g)
  <2>1. CASE g \in hs
    BY <1>3, <2>1, BlankSearch DEF Release
  <2>2. CASE g \notin hs
    BY <1>3, <2>2, SameSearch DEF Release
  <2> QED BY <2>1, <2>2
<1> QED BY <1>1, <1>2, <1>3, PromiseAdds, PromiseDestroys, PromiseSets, PromiseCalls, StepKinds

(* Sessions keep the promise of module Search: what has matched all along  *)
(* has been told where the objects end.                                    *)
THEOREM ImplementsSearch == Spec => SearchSpec
<1>1. Init => Promise!Init
  BY DEF Init, Promise!Init, Undisturbed, IdleFind
<1>2. TypeOK /\ SearchInvariant /\ [Next]_vars => [Promise!Next]_(Promise!vars)
  BY PromiseStep
<1> QED BY <1>1, <1>2, TypeCorrect, SearchInvariantHolds, PTL
  DEF Spec, SearchSpec, Promise!Spec

(* What the promise is worth to its caller, from module Search alone: a    *)
(* search that nothing disturbed and that has come to the end has told     *)
(* everything that has matched all along.                                  *)
EndsWithAll ==
  \A h \in SessionIds :
    Undisturbed(h) /\ find[h].index >= Len(objects[h])
      => history[h].steady \subseteq history[h].found

THEOREM PromiseSuffices == SearchSpec => []EndsWithAll
<1>1. Promise!Init => EndsWithAll
  BY DEF Promise!Init, EndsWithAll
<1>2. EndsWithAll /\ [Promise!Next]_(Promise!vars) => EndsWithAll'
  <2> SUFFICES ASSUME EndsWithAll, [Promise!Next]_(Promise!vars),
                      NEW h \in SessionIds,
                      Undisturbed(h)', find'[h].index >= Len(objects'[h])
               PROVE  (history[h].steady \ history[h].found)' = {}
    BY DEF EndsWithAll
  <2>1. CASE Promise!Settled(h)
    BY <2>1 DEF Promise!Settled
  <2>2. CASE Promise!Change(h)
    <3>1. Undisturbed(h) /\ find[h].index >= Len(objects[h])
      BY <2>2 DEF Promise!Change
    <3>2. history[h].steady \ history[h].found = {}
      BY <3>1 DEF EndsWithAll
    <3> QED BY <2>2, <3>2 DEF Promise!Change
  <2>3. CASE Promise!Next
    <3>1. Promise!Step(h)
      BY <2>3 DEF Promise!Next
    <3>2. ~Promise!Drop(h) /\ ~Promise!Over(h)
      BY DEF Promise!Drop, Promise!Over
    <3> QED BY <2>1, <2>2, <3>1, <3>2 DEF Promise!Step, Promise!Begin, Promise!Tell
  <2>4. CASE UNCHANGED Promise!vars
    <3>1. /\ UNCHANGED {f \in SessionIds : Undisturbed(f)}
          /\ UNCHANGED {f \in SessionIds : find[f].index >= Len(objects[f])}
          /\ UNCHANGED [f \in SessionIds |-> history[f].steady \ history[f].found]
      BY <2>4 DEF Promise!vars
    <3>2. h \in {f \in SessionIds : Undisturbed(f)}
      BY <3>1
    <3>3. h \in {f \in SessionIds : find[f].index >= Len(objects[f])}
      BY <3>1
    <3>4. history[h].steady \ history[h].found = {}
      BY <3>2, <3>3 DEF EndsWithAll
    <3>5. [f \in SessionIds |-> history[f].steady \ history[f].found][h] = {}
      BY <3>4
    <3> QED BY <3>1, <3>5
  <2> QED BY <2>3, <2>4
<1> QED BY <1>1, <1>2, PTL DEF SearchSpec, Promise!Spec

=============================================================================
