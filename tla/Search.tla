------------------------------- MODULE Search -------------------------------
(***************************************************************************)
(* What a search promises its caller (C_FindObjectsInit, C_FindObjects,    *)
(* C_FindObjectsFinal, src/src/pkcs11.cpp): where the objects end, every   *)
(* object has been told that matched all along.  It says nothing of        *)
(* positions or of the order of the objects.  Module Cryptoki is shown to  *)
(* keep this promise in all of its sessions.                               *)
(*                                                                         *)
(* Objects may appear and change during a search.  When one is destroyed   *)
(* or a call fails, the promise is over; only a new search renews it.      *)
(***************************************************************************)

CONSTANTS
  Searchers,  \* who may search, one search each
  Things      \* what can be searched for

VARIABLES
  open,   \* the searches whose promise stands
  owed,   \* search -> what has matched all along and has not been told
  told,   \* search -> what has been told
  ended   \* the searches for which there is nothing more to look at

vars == <<open, owed, told, ended>>

Init == open = {}

(* At the end of the objects nothing is owed.                              *)
Settled(s) == s \in ended' => owed'[s] = {}

(* C_FindObjectsInit: what matches now is owed.                            *)
Begin(s) ==
  /\ s \notin open /\ s \in open'
  /\ told'[s] = {}
  /\ owed'[s] \subseteq Things
  /\ Settled(s)

(* C_FindObjects.  What is told need not have matched all along, and what  *)
(* is told is no longer owed.                                              *)
Tell(s) ==
  /\ s \in open /\ s \in open'
  /\ told[s] \subseteq told'[s] /\ told'[s] \subseteq Things
  /\ owed'[s] = owed[s] \ told'[s]
  /\ Settled(s)

(* An object is changed and need not be told any longer, or new ones come  *)
(* behind the end; or nothing happens in this search.                      *)
Change(s) ==
  /\ s \in open /\ s \in open'
  /\ told'[s] = told[s]
  /\ owed'[s] \subseteq owed[s]
  /\ s \in ended' => s \in ended

(* C_FindObjectsFinal, a call that fails, an object that is destroyed, or  *)
(* the end of the session.                                                 *)
Drop(s) == s \in open /\ s \notin open'

Over(s) == s \notin open /\ s \notin open'

Step(s) == Over(s) \/ Change(s) \/ Tell(s) \/ Begin(s) \/ Drop(s)

Next == \A s \in Searchers : Step(s)

Spec == Init /\ [][Next]_vars
=============================================================================
