------------------------------ MODULE Cryptoki ------------------------------
(***************************************************************************)
(* The module, its slots, their sessions, and the objects and the object   *)
(* search each session owns (src/src/core/module.cpp, slot.cpp,            *)
(* session.cpp, collection.h).                                             *)
(*                                                                         *)
(* A handle is the address of the C++ object behind it, cast to CK_ULONG:  *)
(* SessionIds and ObjectIds are the addresses the heap may hand out, again *)
(* as soon as the object at one is released, and HandleOf is the cast,     *)
(* which drops half of the address where CK_ULONG is 32 bits wide (64 bit  *)
(* builds for Windows).  A call that names an object by its handle reaches *)
(* the first one that has it; of two sessions with one handle, which is    *)
(* the first is left open.                                                 *)
(*                                                                         *)
(* The objects of a session are a vector and the search keeps a position   *)
(* in that vector, not in a snapshot of it; `history' records, beside the  *)
(* state of the program, which objects the caller of a search has been     *)
(* told, so that the properties can relate the two.                        *)
(*                                                                         *)
(* A call the program refuses changes nothing and is a stuttering step;    *)
(* the one refused call that does change something is a C_FindObjects      *)
(* that fails part way, and it is an action of its own.                    *)
(***************************************************************************)
EXTENDS Naturals, FiniteSets, SequencesExt

CONSTANTS
  Slots,       \* the slots of the module
  SessionIds,  \* addresses a session can have
  ObjectIds,   \* addresses an object can have
  HandleOf,    \* HandleOf[a]: the address a cast to CK_ULONG
  Kinds,       \* what the attributes of an object tell a search
  Templates,   \* search templates
  NoTemplate,  \* the NULL template of an idle search
  Outcome,     \* Outcome[k][t]: how an object of kind k compares with t
  Settable,    \* pairs of kinds C_SetAttributeValue can move an object between
  MaxLoaded,   \* bound: objects a backend loads into a new session
  MaxBatch     \* bound: ulMaxObjectCount of one C_FindObjects

(* "throws": Object::GetValues raises, the object lacks an attribute of    *)
(* the template or does not reveal it.                                     *)
ASSUME OutcomeAssumption ==
  Outcome \in [Kinds -> [Templates -> {"match", "differ", "throws"}]]
ASSUME HandleOfAssumption == DOMAIN HandleOf = SessionIds \cup ObjectIds
ASSUME NoTemplateAssumption == NoTemplate \notin Templates
ASSUME BoundsAssumption == MaxLoaded \in Nat /\ MaxBatch \in Nat

VARIABLES
  initialized,  \* Module::initialized
  sessions,     \* slot -> the sessions in Slot::sessions
  objects,      \* session -> Session::objects
  find,         \* session -> Session::find
  history       \* session -> what its search has told the caller

vars == <<initialized, sessions, objects, find, history>>

Entry == [address : ObjectIds, kind : Kinds]

Find == [active : BOOLEAN, template : Templates \cup {NoTemplate}, index : Nat]

(* found:   objects reported by the successful calls of this search;       *)
(* steady:  objects that have matched ever since C_FindObjectsInit;        *)
(* raised:  a C_FindObjects of this search failed;                         *)
(* shifted: an object was destroyed during this search.                    *)
History == [found : SUBSET ObjectIds, steady : SUBSET ObjectIds,
            raised : BOOLEAN, shifted : BOOLEAN]

IdleFind == [active |-> FALSE, template |-> NoTemplate, index |-> 0]
NoHistory == [found |-> {}, steady |-> {}, raised |-> FALSE, shifted |-> FALSE]

Addresses(seq) == {seq[i].address : i \in DOMAIN seq}

LiveSessions == UNION {sessions[s] : s \in Slots}
LiveObjects == UNION {Addresses(objects[h]) : h \in SessionIds}

Matching(seq, t) ==
  {seq[i].address : i \in {j \in DOMAIN seq : Outcome[seq[j].kind][t] = "match"}}

Init ==
  /\ initialized = FALSE
  /\ sessions = [s \in Slots |-> {}]
  /\ objects = [h \in SessionIds |-> <<>>]
  /\ find = [h \in SessionIds |-> IdleFind]
  /\ history = [h \in SessionIds |-> NoHistory]

-----------------------------------------------------------------------------
(* The module and its sessions.                                            *)

Initialize ==
  /\ ~initialized
  /\ initialized' = TRUE
  /\ UNCHANGED <<sessions, objects, find, history>>

(* Only the flag is cleared: the sessions stay in their slots.             *)
Finalize ==
  /\ initialized
  /\ initialized' = FALSE
  /\ UNCHANGED <<sessions, objects, find, history>>

(* The sequences of fresh objects the stores of the backend can yield.     *)
Loads ==
  {seq \in UNION {[1..n -> Entry] : n \in 0..MaxLoaded} :
     /\ Addresses(seq) \cap LiveObjects = {}
     /\ \A i, j \in DOMAIN seq : seq[i].address = seq[j].address => i = j}

(* The session is built and filled before the slot keeps it.               *)
OpenSession(s, h) ==
  /\ initialized
  /\ h \notin LiveSessions
  /\ \E seq \in Loads : objects' = [objects EXCEPT ![h] = seq]
  /\ sessions' = [sessions EXCEPT ![s] = @ \cup {h}]
  /\ find' = [find EXCEPT ![h] = IdleFind]
  /\ history' = [history EXCEPT ![h] = NoHistory]
  /\ UNCHANGED initialized

(* Mutant of Release: the search outlives its session.                     *)
ReleaseKeepsSearch(hs) ==
  /\ objects' = [h \in SessionIds |-> IF h \in hs THEN <<>> ELSE objects[h]]
  /\ UNCHANGED <<find, history>>

(* Releasing the sessions in hs releases their objects and their searches. *)
Release(hs) ==
  /\ objects' = [h \in SessionIds |-> IF h \in hs THEN <<>> ELSE objects[h]]
  /\ find' = [h \in SessionIds |-> IF h \in hs THEN IdleFind ELSE find[h]]
  /\ history' = [h \in SessionIds |-> IF h \in hs THEN NoHistory ELSE history[h]]

CloseSession(s, h) ==
  /\ initialized
  /\ h \in sessions[s]
  /\ sessions' = [sessions EXCEPT ![s] = @ \ {h}]
  /\ Release({h})
  /\ UNCHANGED initialized

CloseAllSessions(s) ==
  /\ initialized
  /\ sessions' = [sessions EXCEPT ![s] = {}]
  /\ Release(sessions[s])
  /\ UNCHANGED initialized

-----------------------------------------------------------------------------
(* The objects of a session.                                               *)

Usable(h) == initialized /\ h \in LiveSessions

Push(h, seq) == objects' = [objects EXCEPT ![h] = @ \o seq]

(* An object no list holds yet.                                            *)
Fresh(o, k) == [address |-> o, kind |-> k]

CreateObject(h) ==
  /\ Usable(h)
  /\ \E o \in ObjectIds \ LiveObjects, k \in Kinds : Push(h, <<Fresh(o, k)>>)
  /\ UNCHANGED <<initialized, sessions, find, history>>

(* Session::GetObject: the handle of the object at position i leads to it, *)
(* and not to an earlier one with the same handle.                         *)
Reached(h, i) ==
  /\ i \in DOMAIN objects[h]
  /\ \A j \in 1..(i - 1) :
       HandleOf[objects[h][j].address] # HandleOf[objects[h][i].address]

(* The copy may differ from the original as the template overrides it.     *)
CopyObject(h, i) ==
  /\ Usable(h)
  /\ Reached(h, i)
  /\ \E o \in ObjectIds \ LiveObjects, k \in Kinds :
       /\ k = objects[h][i].kind \/ <<objects[h][i].kind, k>> \in Settable
       /\ Push(h, <<Fresh(o, k)>>)
  /\ UNCHANGED <<initialized, sessions, find, history>>

GenerateKey(h) ==
  /\ Usable(h)
  /\ \E o \in ObjectIds \ LiveObjects, k \in Kinds : Push(h, <<Fresh(o, k)>>)
  /\ UNCHANGED <<initialized, sessions, find, history>>

(* The public key is added before the private key.                         *)
GenerateKeyPair(h) ==
  /\ Usable(h)
  /\ \E pub, priv \in ObjectIds \ LiveObjects, k, l \in Kinds :
       /\ pub # priv
       /\ Push(h, <<Fresh(pub, k), Fresh(priv, l)>>)
  /\ UNCHANGED <<initialized, sessions, find, history>>

(* Mutants of DestroyObject, which move the position of the search along:  *)
(* one place back, even from the start, or to the start.                   *)
DestroyStepsBack(h, i) ==
  /\ Usable(h)
  /\ Reached(h, i)
  /\ objects' = [objects EXCEPT ![h] = RemoveAt(@, i)]
  /\ find' = [find EXCEPT ![h].index = @ - 1]
  /\ UNCHANGED <<initialized, sessions, history>>

DestroyRestarts(h, i) ==
  /\ Usable(h)
  /\ Reached(h, i)
  /\ objects' = [objects EXCEPT ![h] = RemoveAt(@, i)]
  /\ find' = [find EXCEPT ![h].index = 0]
  /\ history' = [history EXCEPT ![h].found = @ \ {objects[h][i].address}]
  /\ UNCHANGED <<initialized, sessions>>

(* Collection::remove: the later objects move down one place; the position *)
(* of a search in progress does not move with them.  If Object::Destroy    *)
(* raises the object stays: a refused call.                                *)
DestroyObject(h, i) ==
  /\ Usable(h)
  /\ Reached(h, i)
  /\ objects' = [objects EXCEPT ![h] = RemoveAt(@, i)]
  /\ history' = [history EXCEPT
       ![h].found = @ \ {objects[h][i].address},
       ![h].steady = @ \ {objects[h][i].address},
       ![h].shifted = find[h].active]
  /\ UNCHANGED <<initialized, sessions, find>>

(* Object::SetValues checks every attribute before it sets the first.      *)
SetAttributeValue(h, i) ==
  /\ Usable(h)
  /\ Reached(h, i)
  /\ \E k \in Kinds :
       /\ <<objects[h][i].kind, k>> \in Settable
       /\ objects' = [objects EXCEPT ![h][i].kind = k]
  /\ history' = [history EXCEPT ![h].steady = @ \ {objects[h][i].address}]
  /\ UNCHANGED <<initialized, sessions, find>>

-----------------------------------------------------------------------------
(* The search of a session.                                                *)

FindObjectsInit(h, t) ==
  /\ Usable(h)
  /\ ~find[h].active
  /\ find' = [find EXCEPT ![h] = [active |-> TRUE, template |-> t, index |-> 0]]
  /\ history' = [history EXCEPT
       ![h] = [NoHistory EXCEPT !.steady = Matching(objects[h], t)]]
  /\ UNCHANGED <<initialized, sessions, objects>>

OutcomeAt(h, i) == Outcome[objects[h][i].kind][find[h].template]

(* The matches of session h at the positions a search moves over when its  *)
(* index goes from find[h].index to j.                                     *)
Hits(h, j) == {i \in (find[h].index + 1)..j : OutcomeAt(h, i) = "match"}

(* Mutant of StopsAt: the last object is left out.                         *)
StopsBeforeLast(h, max, j) ==
  \/ Cardinality(Hits(h, j)) = max
  \/ j + 1 >= Len(objects[h])
  \/ j > find[h].index /\ OutcomeAt(h, j) = "throws"

(* The loop of FindObjects leaves its index at j: the caller's buffer is   *)
(* full, the objects are exhausted, or the object just passed raised.      *)
StopsAt(h, max, j) ==
  \/ Cardinality(Hits(h, j)) = max
  \/ j >= Len(objects[h])
  \/ j > find[h].index /\ OutcomeAt(h, j) = "throws"

(* The loop ends at j and no earlier.                                      *)
LoopEnds(h, max, j) ==
  /\ StopsAt(h, max, j)
  /\ \A k \in (find[h].index)..(j - 1) : ~StopsAt(h, max, k)

(* Where the loop can leave its index: an index beyond the end stays.      *)
Positions(h) == {find[h].index} \cup (find[h].index)..Len(objects[h])

(* Mutants of FindObjects: the position ends one before the last object    *)
(* compared, or one after it.                                              *)
FindLagsBehind(h, max) ==
  /\ Usable(h)
  /\ find[h].active
  /\ \E j \in Positions(h) :
       /\ LoopEnds(h, max, j)
       /\ find' = [find EXCEPT ![h].index = IF j > 0 THEN j - 1 ELSE 0]
       /\ history' = [history EXCEPT
            ![h].found = @ \cup {objects[h][i].address : i \in Hits(h, j)}]
  /\ UNCHANGED <<initialized, sessions, objects>>

FindRunsAhead(h, max) ==
  /\ Usable(h)
  /\ find[h].active
  /\ \E j \in Positions(h) :
       /\ LoopEnds(h, max, j)
       /\ find' = [find EXCEPT ![h].index = IF j < Len(objects[h]) THEN j + 1 ELSE j]
       /\ history' = [history EXCEPT
            ![h].found = @ \cup {objects[h][i].address : i \in Hits(h, j)}]
  /\ UNCHANGED <<initialized, sessions, objects>>

FindObjects(h, max) ==
  /\ Usable(h)
  /\ find[h].active
  /\ \E j \in Positions(h) :
       /\ LoopEnds(h, max, j)
       /\ j > find[h].index => OutcomeAt(h, j) # "throws"
       /\ find' = [find EXCEPT ![h].index = j]
       /\ history' = [history EXCEPT
            ![h].found = @ \cup {objects[h][i].address : i \in Hits(h, j)}]
  /\ UNCHANGED <<initialized, sessions, objects>>

(* Mutant of FindObjectsRaises: the position stays where it was.           *)
RaisesInPlace(h, max) ==
  /\ Usable(h)
  /\ find[h].active
  /\ \E j \in (find[h].index + 1)..Len(objects[h]) :
       LoopEnds(h, max, j) /\ OutcomeAt(h, j) = "throws"
  /\ history' = [history EXCEPT ![h].raised = TRUE]
  /\ UNCHANGED <<initialized, sessions, objects, find>>

(* The exception leaves the index past the object that raised; the         *)
(* handles of this call, already in the caller's buffer, come with an      *)
(* error and are not reported.                                             *)
FindObjectsRaises(h, max) ==
  /\ Usable(h)
  /\ find[h].active
  /\ \E j \in (find[h].index + 1)..Len(objects[h]) :
       /\ LoopEnds(h, max, j)
       /\ OutcomeAt(h, j) = "throws"
       /\ find' = [find EXCEPT ![h].index = j]
  /\ history' = [history EXCEPT ![h].raised = TRUE]
  /\ UNCHANGED <<initialized, sessions, objects>>

FindObjectsFinal(h) ==
  /\ Usable(h)
  /\ find[h].active
  /\ find' = [find EXCEPT ![h] = IdleFind]
  /\ history' = [history EXCEPT ![h] = NoHistory]
  /\ UNCHANGED <<initialized, sessions, objects>>

-----------------------------------------------------------------------------
ObjectCall(h) ==
  \/ CreateObject(h)
  \/ GenerateKey(h)
  \/ GenerateKeyPair(h)
  \/ \E i \in DOMAIN objects[h] :
       CopyObject(h, i) \/ DestroyObject(h, i) \/ SetAttributeValue(h, i)

SearchCall(h) ==
  \/ \E t \in Templates : FindObjectsInit(h, t)
  \/ \E max \in 0..MaxBatch : FindObjects(h, max) \/ FindObjectsRaises(h, max)
  \/ FindObjectsFinal(h)

SessionCall ==
  \E s \in Slots :
    \/ CloseAllSessions(s)
    \/ \E h \in SessionIds : OpenSession(s, h) \/ CloseSession(s, h)

Next ==
  \/ Initialize
  \/ Finalize
  \/ SessionCall
  \/ \E h \in SessionIds : ObjectCall(h) \/ SearchCall(h)

Spec == Init /\ [][Next]_vars

(* A caller that has started a search keeps asking for handles: what every *)
(* loop around C_FindObjects does.                                         *)
Continue(h) ==
  \E max \in 1..MaxBatch : FindObjects(h, max) \/ FindObjectsRaises(h, max)

FairSpec == Spec /\ \A h \in SessionIds : WF_vars(Continue(h))

-----------------------------------------------------------------------------
(* Every variable holds a value of its type.                               *)
TypeOK ==
  /\ initialized \in BOOLEAN
  /\ sessions \in [Slots -> SUBSET SessionIds]
  /\ objects \in [SessionIds -> Seq(Entry)]
  /\ find \in [SessionIds -> Find]
  /\ history \in [SessionIds -> History]

(* A closed session has left nothing behind: neither an object nor a       *)
(* search that a session later built at the same address could inherit.    *)
ClosedHoldNothing ==
  \A h \in SessionIds \ LiveSessions :
    objects[h] = <<>> /\ find[h] = IdleFind

(* What a search has reported lies behind its position, whatever was       *)
(* created or destroyed meanwhile.                                         *)
ReportedBehindIndex ==
  \A h \in SessionIds :
    \A o \in history[h].found :
      \E i \in DOMAIN objects[h] :
        i <= find[h].index /\ objects[h][i].address = o

(* A search that was neither disturbed by C_DestroyObject nor by an object *)
(* it could not read has reported every object it has passed and that has  *)
(* matched its template all along.                                         *)
PassedReported(h) ==
  \A i \in DOMAIN objects[h] :
    i <= find[h].index /\ objects[h][i].address \in history[h].steady
      => objects[h][i].address \in history[h].found

SearchComplete ==
  \A h \in SessionIds :
    find[h].active /\ ~history[h].raised /\ ~history[h].shifted
      => PassedReported(h)

(* A search never reports an object twice.                                 *)
NoRepeat ==
  [][\A h \in SessionIds, max \in 0..MaxBatch :
       FindObjects(h, max) =>
         \A i \in (find[h].index + 1)..find'[h].index :
           objects[h][i].address \notin history[h].found]_vars

(* A search none of whose calls has failed and during which no object of   *)
(* its session has been destroyed.                                         *)
Undisturbed(h) == find[h].active /\ ~history[h].raised /\ ~history[h].shifted

(* A call of an undisturbed search that leaves an object untold that has   *)
(* matched all along reports as many handles as its caller asked for.  So  *)
(* a call that reports fewer has come to the end, which is what tells the  *)
(* loop around C_FindObjects to stop.                                      *)
ShortMeansAll ==
  [][\A h \in SessionIds, max \in 0..MaxBatch :
       Undisturbed(h) /\ ~(history[h].steady \subseteq history'[h].found)
                      /\ FindObjects(h, max)
         => Cardinality(history'[h].found \ history[h].found) = max]_vars

(* A caller that keeps asking reaches the end of the objects, even if      *)
(* objects are created, destroyed or unreadable on the way.                *)
SearchEnds ==
  \A h \in SessionIds :
    initialized /\ find[h].active
      ~> \/ ~initialized
         \/ ~find[h].active
         \/ find[h].index >= Len(objects[h])

(* Every session keeps the promise of module Search, as long as none of    *)
(* its objects is destroyed and no call of the search fails.               *)
Promise ==
  INSTANCE Search WITH
    Searchers <- SessionIds, Things <- ObjectIds,
    open <- {h \in SessionIds : Undisturbed(h)},
    owed <- [h \in SessionIds |-> history[h].steady \ history[h].found],
    told <- [h \in SessionIds |-> history[h].found],
    ended <- {h \in SessionIds : find[h].index >= Len(objects[h])}

SearchSpec == Promise!Spec
=============================================================================
