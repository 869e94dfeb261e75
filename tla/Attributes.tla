----------------------------- MODULE Attributes -----------------------------
(***************************************************************************)
(* The attributes of RSA private keys: what may be set when, what is read  *)
(* from where, and what a copy inherits (src/src/core/object.cpp,          *)
(* attribute.h and the key classes of the backends).                       *)
(*                                                                         *)
(* The key itself stays in the platform library; the attributes that hold  *)
(* parts of it are empty until a read fills them from there.  An object of *)
(* the model has one attribute of each sort the rules tell apart: PRIME_1  *)
(* stands for every part of the key that GetValue fills on demand, MODULUS *)
(* also for the public exponent, SENSITIVE also for the attributes that    *)
(* may be changed freely.                                                  *)
(*                                                                         *)
(* A refused call changes nothing and is a stuttering step.  A read of     *)
(* several attributes is the reads one after another, up to the first that *)
(* is refused.                                                             *)
(***************************************************************************)
EXTENDS Naturals, FiniteSetsExt

CONSTANTS
  Backend,      \* the platform library the build is linked with
  Objects,      \* addresses an object can have
  Keys,         \* keys of the platform library, which is the source of them
  Application,  \* key material an application brings along
  NoKey,        \* no key, or an attribute that is empty
  Booleans,     \* values a boolean attribute is given; "bad": of another size
  MaxTemplate   \* bound: attributes in a template

ASSUME BackendAssumption == Backend \in {"mscapi", "osx"}
ASSUME KeysAssumption ==
  /\ Application \notin Keys
  /\ NoKey \notin Keys \cup {Application}
ASSUME BooleansAssumption == Booleans \subseteq {"true", "false", "bad"}
ASSUME MaxTemplateAssumption == MaxTemplate \in Nat

(* The numbers of the PVF flags of each attribute.                         *)
Flags ==
  [TOKEN |-> {13}, COPYABLE |-> {12}, SENSITIVE |-> {8, 11},
   EXTRACTABLE |-> {8, 12}, MODULUS |-> {1, 4, 6}, PRIME_1 |-> {1, 4, 6, 7},
   COEFFICIENT |-> {1, 4, 6, 7}]

Parts == {"MODULUS", "PRIME_1", "COEFFICIENT"}
Switches == DOMAIN Flags \ Parts

(* An attribute that no call can change once the object is there.          *)
Fixed == {a \in DOMAIN Flags : Flags[a] \cap {8, 13} = {}}

VARIABLES
  live,      \* the addresses that hold an object
  key,       \* object -> the platform key behind it
  value,     \* object -> attribute -> its value
  told       \* object -> part of the key -> what reading it has returned

vars == <<live, key, value, told>>

Material == Keys \cup {Application, NoKey}

(* The attributes of a new object before anything is assigned to it.       *)
Default ==
  [a \in DOMAIN Flags |->
     IF a \in Parts THEN NoKey ELSE IF a = "COPYABLE" THEN "true" ELSE "false"]

Untold == [a \in Parts |-> {}]

Init ==
  /\ live = {}
  /\ key = [o \in Objects |-> NoKey]
  /\ value = [o \in Objects |-> Default]
  /\ told = [o \in Objects |-> Untold]

-----------------------------------------------------------------------------
(* Templates are sequences of settings.  The parts of a key are in none of *)
(* them: C_CreateObject, which demands them all, takes them beside its     *)
(* template t, and every other call refuses them.                          *)

Setting == [type : Switches, value : Booleans]
Templates == UNION {[1..n -> Setting] : n \in 0..MaxTemplate}

Named(t) == {t[i].type : i \in DOMAIN t}

(* A later setting of the same attribute wins.  No setting is measured:    *)
(* AttributeTemplate::SetValue calls the empty Check of its own class and  *)
(* not that of AttributeBool.                                              *)
Apply(v, t) ==
  LET named == Named(t)
  IN  [a \in DOMAIN Flags |->
         IF a \in named THEN t[Max({i \in DOMAIN t : t[i].type = a})].value
                        ELSE v[a]]

(* AttributeBool::ToValue raises on a value of another size.               *)
WellFormed(v, as) == \A a \in as : v[a] # "bad"

Permits(t, flags) == \A a \in Named(t) : Flags[a] \cap flags # {}

-----------------------------------------------------------------------------
(* Objects come and go.                                                    *)

(* Address o now holds an object with key k and attributes v.              *)
Appears(o, k, v) ==
  /\ o \in Objects \ live
  /\ live' = live \cup {o}
  /\ key' = [key EXCEPT ![o] = k]
  /\ value' = [value EXCEPT ![o] = v]
  /\ UNCHANGED told

WithParts(v, parts, k) == [a \in DOMAIN Flags |-> IF a \in parts THEN k ELSE v[a]]

(* Private keys are only created on mscapi; there is no platform key       *)
(* behind them.                                                            *)
Create(o, t) ==
  /\ Backend = "mscapi"
  /\ Appears(o, NoKey, WithParts(Apply(Default, t), Parts, Application))

(* A key no object has.                                                    *)
Unused(k) == k \notin {key[o] : o \in live}

(* What the platform adds to the attributes v of a key it has made: mscapi *)
(* reads the public parts at once, osx makes token keys and may have made  *)
(* this one extractable.                                                   *)
Assigned(v, k) ==
  IF Backend = "mscapi"
  THEN {WithParts(v, {"MODULUS"}, k)}
  ELSE {[v EXCEPT !["TOKEN"] = "true", !["EXTRACTABLE"] = e] :
          e \in {v["EXTRACTABLE"], "true"}}

Generate(o, k, t) ==
  /\ Unused(k)
  /\ Backend = "mscapi" => WellFormed(Apply(Default, t), {"TOKEN", "EXTRACTABLE"})
  /\ \E v \in Assigned(Apply(Default, t), k) : Appears(o, k, v)

(* Opening a session finds key k in the store of the platform.             *)
Load(o, k) ==
  /\ Unused(k)
  /\ \E v \in Assigned(Default, k) :
       Appears(o, k, IF Backend = "mscapi"
                     THEN [v EXCEPT !["TOKEN"] = "true", !["COPYABLE"] = "false"]
                     ELSE v)

(* Mutant of Copy: the copy is a new object with a template of its own.    *)
CopyAnything(o, n, t) ==
  /\ Backend = "mscapi"
  /\ o \in live /\ key[o] # NoKey
  /\ value[o]["COPYABLE"] = "true"
  /\ LET v == Apply(value[o], t)
     IN  WellFormed(v, {"TOKEN", "EXTRACTABLE"}) /\ Appears(n, key[o], v)

(* The copy takes all the attributes of the original, parts not yet read   *)
(* included, then those of the template.  The copy of an object without a  *)
(* platform key would dereference NULL.                                    *)
Copy(o, n, t) ==
  /\ Backend = "mscapi"
  /\ o \in live /\ key[o] # NoKey
  /\ value[o]["COPYABLE"] = "true"
  /\ Permits(t, {8, 13})
  /\ LET v == Apply(value[o], t)
     IN  WellFormed(v, {"TOKEN", "EXTRACTABLE"}) /\ Appears(n, key[o], v)

(* Mutant of Destroy: what was read of the key stays at the address.       *)
DestroyLeavesParts(o) ==
  /\ Backend = "mscapi"
  /\ o \in live /\ key[o] # NoKey
  /\ live' = live \ {o}
  /\ key' = [key EXCEPT ![o] = NoKey]
  /\ told' = [told EXCEPT ![o] = Untold]
  /\ UNCHANGED value

(* On osx the key raises and the object stays.                             *)
Destroy(o) ==
  /\ Backend = "mscapi"
  /\ o \in live /\ key[o] # NoKey
  /\ live' = live \ {o}
  /\ key' = [key EXCEPT ![o] = NoKey]
  /\ value' = [value EXCEPT ![o] = Default]
  /\ told' = [told EXCEPT ![o] = Untold]

-----------------------------------------------------------------------------
(* Setting and reading.                                                    *)

(* Mutant of SetOutcome: one loop that checks and sets.                    *)
SetOneByOne(v, t) ==
  LET ok == {n \in 0..Cardinality(DOMAIN t) :
               \A i \in 1..n : 8 \in Flags[t[i].type]}
  IN  Apply(v, [i \in 1..Max(ok) |-> t[i]])

(* All settings are checked before the first is made.                      *)
SetOutcome(v, t) == IF Permits(t, {8}) THEN Apply(v, t) ELSE v

SetValues(o, t) ==
  /\ o \in live
  /\ value' = [value EXCEPT ![o] = SetOutcome(@, t)]
  /\ UNCHANGED <<live, key, told>>

(* The check for SENSITIVE of GetValues, which also raises when it cannot  *)
(* make out what a boolean says.                                           *)
Refused(v, a) ==
  /\ 7 \in Flags[a]
  /\ v["SENSITIVE"] # "false"
  /\ v["SENSITIVE"] = "bad" \/ v["EXTRACTABLE"] # "true"

(* Mutant of FilledWith: a part is forgotten by the switch of GetValue.    *)
FilledWithout(a) ==
  CASE a = "MODULUS" -> {"MODULUS"}
    [] a = "COEFFICIENT" -> {"PRIME_1", "COEFFICIENT"}
    [] OTHER -> {}

(* The attributes that a read of attribute a takes from the platform if it *)
(* finds a empty.                                                          *)
FilledWith(a) ==
  CASE a = "MODULUS" -> {"MODULUS"}
    [] a = "PRIME_1" -> {"PRIME_1", "COEFFICIENT"}
    [] OTHER -> {}

Filled(o, a) ==
  IF value[o][a] = NoKey THEN WithParts(value[o], FilledWith(a), key[o])
                         ELSE value[o]

Read(o, a) ==
  /\ o \in live
  /\ ~Refused(value[o], a)
  /\ value' = [value EXCEPT ![o] = Filled(o, a)]
  /\ told' = IF a \in Parts THEN [told EXCEPT ![o][a] = {value'[o][a]}] ELSE told
  /\ UNCHANGED <<live, key>>

(* A search compares attribute a of the object with its template.          *)
Compare(o, a) ==
  /\ o \in live
  /\ ~Refused(value[o], a)
  /\ value' = [value EXCEPT ![o] = Filled(o, a)]
  /\ UNCHANGED <<live, key, told>>

-----------------------------------------------------------------------------
GetAttributeValue == \E o \in Objects, a \in DOMAIN Flags : Read(o, a)

SetAttributeValue == \E o \in Objects, t \in Templates : SetValues(o, t)

Found == \E o \in Objects, a \in DOMAIN Flags : Compare(o, a)

Created ==
  \E o \in Objects, t \in Templates :
    \/ Create(o, t)
    \/ \E n \in Objects : Copy(o, n, t)

Generated == \E o \in Objects, k \in Keys, t \in Templates : Generate(o, k, t)

Next ==
  \/ Created
  \/ Generated
  \/ \E o \in Objects, k \in Keys : Load(o, k)
  \/ GetAttributeValue
  \/ SetAttributeValue
  \/ Found
  \/ \E o \in Objects : Destroy(o)

Spec == Init /\ [][Next]_vars

-----------------------------------------------------------------------------
(* Every variable holds a value of its type, and an address without an     *)
(* object keeps nothing of the one that was there.                         *)
TypeOK ==
  /\ live \subseteq Objects
  /\ key \in [Objects -> Keys \cup {NoKey}]
  /\ \A o \in Objects :
       /\ DOMAIN value[o] = DOMAIN Flags
       /\ \A a \in Switches : value[o][a] \in {"true", "false", "bad"}
       /\ \A a \in Parts : value[o][a] \in Material
       /\ o \notin live =>
            key[o] = NoKey /\ value[o] = Default /\ told[o] = Untold
  /\ told \in [Objects -> [Parts -> SUBSET Material]]

(* However often a key is copied, the copies agree on every attribute that *)
(* may neither be changed (PVF_8) nor be changed by copying (PVF_13), as   *)
(* far as they have been filled.                                           *)
CopiesAgree ==
  \A o, n \in live :
    key[o] = key[n] /\ key[o] # NoKey =>
      \A a \in Fixed :
        value[o][a] = value[n][a] \/ NoKey \in {value[o][a], value[n][a]}

(* "Cannot be revealed if object has its CKA_SENSITIVE attribute set to    *)
(* CK_TRUE or its CKA_EXTRACTABLE attribute set to CK_FALSE"               *)
(* (attribute.h:27, of PVF_7).                                             *)
SecretsStay ==
  [][\A o \in live, a \in {part \in Parts : 7 \in Flags[part]} :
       ~(told'[o][a] \subseteq told[o][a] \cup {NoKey}) =>
         value[o]["SENSITIVE"] # "true" /\ value[o]["EXTRACTABLE"] # "false"]_vars

(* Reading a part of a key twice gives the same as long as the object is   *)
(* there, whatever was read, compared or set in between.  It is not so of  *)
(* COEFFICIENT, which reads as empty until PRIME_1 has been read.          *)
ReadsAgree ==
  [][\A o \in live', a \in Parts \ {"COEFFICIENT"} :
       told[o][a] # {} => told'[o][a] = told[o][a]]_vars

(* C_SetAttributeValue changes all the attributes of its template or none, *)
(* whatever object it meets.                                               *)
AllOrNothing ==
  \A o \in live, t \in Templates :
    SetOutcome(value[o], t) \in {value[o], Apply(value[o], t)}
=============================================================================
