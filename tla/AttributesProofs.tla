-------------------------- MODULE AttributesProofs --------------------------
(***************************************************************************)
(* Proofs about module Attributes, for any number of objects and keys and  *)
(* templates of any length.                                                *)
(***************************************************************************)
EXTENDS Attributes, WellFoundedInduction, TLAPS

-----------------------------------------------------------------------------
(* The attributes and their flags.                                         *)

LEMMA Names ==
  DOMAIN Flags = {"TOKEN", "COPYABLE", "SENSITIVE", "EXTRACTABLE", "MODULUS",
                  "PRIME_1", "COEFFICIENT"}
BY DEF Flags

LEMMA Sorts ==
  /\ Parts \subseteq DOMAIN Flags
  /\ Switches = {"TOKEN", "COPYABLE", "SENSITIVE", "EXTRACTABLE"}
  /\ DOMAIN Flags = Parts \cup Switches
  /\ Parts \cap Switches = {}
BY Names DEF Parts, Switches

LEMMA FixedNames == Fixed = Parts \cup {"COPYABLE"}
BY Names DEF Fixed, Parts, Flags

-----------------------------------------------------------------------------
(* Templates.                                                              *)

LEMMA Largest ==
  ASSUME NEW n \in Nat, NEW S \in SUBSET (1..n), S # {}
  PROVE  Max(S) \in S
<1>1. PICK R : R = {n - i : i \in S}
  OBVIOUS
<1>2. R \subseteq Nat /\ R # {}
  <2>1. R \subseteq Nat
    BY <1>1
  <2>2. PICK i \in S : TRUE
    OBVIOUS
  <2>3. n - i \in R
    BY <1>1
  <2> QED
    BY <2>1, <2>3
<1>3. PICK r \in R : \A x \in R : ~(<<x, r>> \in OpToRel(<, Nat))
  BY <1>2, NatLessThanWellFounded, WFMin
<1>4. \A x \in R : ~(x < r)
  BY <1>2, <1>3 DEF OpToRel
<1>5. PICK m \in S : r = n - m
  BY <1>1
<1>6. ASSUME NEW i \in S PROVE m >= i
  <2>1. n - i \in R
    BY <1>1
  <2>2. ~(n - i < n - m)
    BY <1>4, <1>5, <2>1
  <2> QED
    BY <2>2
<1> QED
  BY <1>6 DEF Max

(* A template leaves the attributes it does not name as they are, and      *)
(* gives the others a value of its own.                                    *)
LEMMA Applied ==
  ASSUME NEW t \in Templates, NEW v, NEW a \in DOMAIN Flags
  PROVE  /\ a \notin Named(t) => Apply(v, t)[a] = v[a]
         /\ a \in Named(t) => Apply(v, t)[a] \in Booleans
         /\ Named(t) \subseteq Switches
<1>1. PICK n \in 0..MaxTemplate : t \in [1..n -> Setting]
  BY DEF Templates
<1>2. n \in Nat
  BY <1>1, MaxTemplateAssumption
<1>3. \A i \in 1..n : t[i].type \in Switches /\ t[i].value \in Booleans
  BY <1>1 DEF Setting
<1>4. Named(t) \subseteq Switches
  BY <1>1, <1>3 DEF Named
<1>5. ASSUME a \in Named(t) PROVE Apply(v, t)[a] \in Booleans
  <2>1. PICK S : S = {i \in DOMAIN t : t[i].type = a}
    OBVIOUS
  <2>2. S \in SUBSET (1..n) /\ S # {}
    BY <1>1, <1>5, <2>1 DEF Named
  <2>3. Max(S) \in 1..n
    BY <1>2, <2>2, Largest
  <2>4. Apply(v, t)[a] = t[Max(S)].value
    BY <1>5, <2>1 DEF Apply
  <2> QED
    BY <1>3, <2>3, <2>4
<1>6. ASSUME a \notin Named(t) PROVE Apply(v, t)[a] = v[a]
  BY <1>6 DEF Apply
<1> QED
  BY <1>4, <1>5, <1>6

-----------------------------------------------------------------------------
(* The inductive invariant.                                                *)

Attributed ==
  {v \in [DOMAIN Flags -> {"true", "false", "bad"} \cup Material] :
     /\ \A a \in Switches : v[a] \in {"true", "false", "bad"}
     /\ \A a \in Parts : v[a] \in Material}

Typed ==
  /\ live \subseteq Objects
  /\ key \in [Objects -> Keys \cup {NoKey}]
  /\ value \in [Objects -> Attributed]
  /\ told \in [Objects -> [Parts -> SUBSET Material]]

(* An address without an object keeps nothing.                             *)
Vacant ==
  \A o \in Objects \ live :
    key[o] = NoKey /\ value[o] = Default /\ told[o] = Untold

(* An object holds parts of its own key only.                              *)
Owns(k, v) ==
  \A a \in Parts : /\ k = NoKey => v[a] = Application
                   /\ k # NoKey => v[a] \in {k, NoKey}

PartsOwned == \A o \in live : Owns(key[o], value[o])

(* Copies agree on whether they may be copied.                             *)
CopyableShared ==
  \A o, n \in live :
    key[o] = key[n] /\ key[o] # NoKey =>
      value[o]["COPYABLE"] = value[n]["COPYABLE"]

(* What a read has returned is still there.                                *)
ToldStays ==
  \A o \in Objects, a \in Parts \ {"COEFFICIENT"} :
    told[o][a] # {} => told[o][a] = {value[o][a]} /\ value[o][a] # NoKey

Inv ==
  /\ Typed
  /\ Vacant
  /\ PartsOwned
  /\ CopyableShared
  /\ ToldStays

LEMMA InvIsEnough == Inv => TypeOK /\ CopiesAgree
<1> SUFFICES ASSUME Inv PROVE TypeOK /\ CopiesAgree
  OBVIOUS
<1>1. TypeOK
  BY DEF Inv, Typed, Vacant, TypeOK, Attributed
<1>2. CopiesAgree
  <2> SUFFICES ASSUME NEW o \in live, NEW n \in live,
                      key[o] = key[n], key[o] # NoKey, NEW a \in Fixed
               PROVE  value[o][a] = value[n][a] \/ NoKey \in {value[o][a], value[n][a]}
    BY DEF CopiesAgree
  <2>1. CASE a = "COPYABLE"
    BY <2>1 DEF Inv, CopyableShared
  <2>2. CASE a \in Parts
    BY <2>2 DEF Inv, PartsOwned, Owns
  <2> QED
    BY <2>1, <2>2, FixedNames
<1> QED
  BY <1>1, <1>2

LEMMA DefaultTyped == Default \in Attributed
BY Sorts DEF Default, Attributed, Material

LEMMA InitInv == Init => Inv
<1> SUFFICES ASSUME Init PROVE Inv
  OBVIOUS
<1>1. Typed
  BY DefaultTyped DEF Init, Typed, Untold
<1>2. Vacant /\ PartsOwned /\ CopyableShared
  BY DEF Init, Vacant, PartsOwned, CopyableShared
<1>3. ToldStays
  BY DEF Init, ToldStays, Untold
<1> QED
  BY <1>1, <1>2, <1>3 DEF Inv

-----------------------------------------------------------------------------
(* Attributes that are put together from others.                           *)

LEMMA AppliedTyped ==
  ASSUME NEW t \in Templates, NEW v \in Attributed
  PROVE  /\ Apply(v, t) \in Attributed
         /\ \A a \in Parts : Apply(v, t)[a] = v[a]
<1>1. PICK w : w = Apply(v, t)
  OBVIOUS
<1>2. w = [a \in DOMAIN Flags |-> w[a]]
  BY <1>1 DEF Apply
<1>3. \A a \in DOMAIN Flags : /\ a \notin Named(t) => w[a] = v[a]
                              /\ a \in Named(t) => w[a] \in Booleans
  BY <1>1, Applied
<1>4. Named(t) \subseteq Switches
  BY Applied, Names
<1>5. \A a \in Switches : w[a] \in {"true", "false", "bad"}
  BY <1>3, Sorts, BooleansAssumption DEF Attributed
<1>6. \A a \in Parts : w[a] = v[a] /\ w[a] \in Material
  BY <1>3, <1>4, Sorts DEF Attributed
<1>7. w \in Attributed
  BY <1>2, <1>5, <1>6, Sorts DEF Attributed
<1> QED
  BY <1>1, <1>6, <1>7

LEMMA FilledTyped ==
  ASSUME NEW v \in Attributed, NEW as, as \subseteq Parts, NEW k \in Material,
         NEW w, w = WithParts(v, as, k)
  PROVE  w \in Attributed
BY Sorts DEF WithParts, Attributed

-----------------------------------------------------------------------------
(* Every step makes an object, removes one or changes the attributes of    *)
(* one.                                                                    *)

LEMMA AppearsInv ==
  ASSUME Inv, NEW o, NEW k \in Keys \cup {NoKey}, NEW v \in Attributed,
         Appears(o, k, v), Owns(k, v),
         \A n \in live : key[n] = k /\ k # NoKey => value[n]["COPYABLE"] = v["COPYABLE"]
  PROVE  Inv'
<1>1. o \in Objects /\ o \notin live /\ live' = live \cup {o}
  BY DEF Appears
<1>2. /\ key' = [key EXCEPT ![o] = k]
      /\ value' = [value EXCEPT ![o] = v]
      /\ told' = told
  BY DEF Appears
<1>3. Typed /\ Vacant
  BY DEF Inv
<1>4. /\ key'[o] = k /\ value'[o] = v
      /\ \A n \in Objects \ {o} : key'[n] = key[n] /\ value'[n] = value[n]
  BY <1>1, <1>2, <1>3 DEF Typed
<1>6. Typed'
  BY <1>1, <1>2, <1>3 DEF Typed
<1>7. Vacant'
  BY <1>1, <1>2, <1>3, <1>4 DEF Vacant
<1>8. PartsOwned'
  BY <1>1, <1>3, <1>4 DEF Inv, PartsOwned, Typed
<1>11. CopyableShared'
  BY <1>1, <1>3, <1>4 DEF Inv, CopyableShared, Typed
<1>12. ToldStays'
  <2> SUFFICES ASSUME NEW n \in Objects, NEW a \in Parts \ {"COEFFICIENT"},
                      told[n][a] # {}
               PROVE  told[n][a] = {value'[n][a]} /\ value'[n][a] # NoKey
    BY <1>2 DEF ToldStays
  <2>1. n # o
    BY <1>1, <1>3 DEF Vacant, Untold
  <2> QED
    BY <1>4, <2>1 DEF Inv, ToldStays
<1> QED
  BY <1>6, <1>7, <1>8, <1>11, <1>12 DEF Inv

(* The part that a read tells of an object with attributes w, if any.      *)
Tells(o, w) ==
  \/ told' = told
  \/ \E a \in Parts : /\ told' = [told EXCEPT ![o][a] = {w[a]}]
                      /\ a # "COEFFICIENT" => w[a] # NoKey

LEMMA ChangesInv ==
  ASSUME Inv, NEW o \in live, NEW w \in Attributed,
         value' = [value EXCEPT ![o] = w], live' = live, key' = key,
         Owns(key[o], w),
         w["COPYABLE"] = value[o]["COPYABLE"],
         \A a \in Parts \ {"COEFFICIENT"} : value[o][a] # NoKey => w[a] = value[o][a],
         Tells(o, w)
  PROVE  /\ Inv'
         /\ \A n \in live, a \in Parts \ {"COEFFICIENT"} :
              told[n][a] # {} => told'[n][a] = told[n][a]
<1>1. Typed /\ Vacant /\ ToldStays
  BY DEF Inv
<1>2. o \in Objects
  BY <1>1 DEF Typed
<1>3. /\ value'[o] = w
      /\ \A n \in Objects \ {o} : value'[n] = value[n]
  BY <1>1, <1>2 DEF Typed
<1>4. \A a \in Parts : w[a] \in Material
  BY DEF Attributed
<1>5. /\ told' \in [Objects -> [Parts -> SUBSET Material]]
      /\ \A n \in Objects \ {o} : told'[n] = told[n]
      /\ \A a \in Parts : \/ told'[o][a] = told[o][a]
                          \/ /\ told'[o][a] = {w[a]}
                             /\ a # "COEFFICIENT" => w[a] # NoKey
  <2>1. CASE told' = told
    BY <1>1, <2>1 DEF Typed
  <2>2. CASE told' # told
    <3>1. PICK a \in Parts : /\ told' = [told EXCEPT ![o][a] = {w[a]}]
                             /\ a # "COEFFICIENT" => w[a] # NoKey
      BY <2>2 DEF Tells
    <3> QED
      BY <1>1, <1>2, <1>4, <3>1 DEF Typed
  <2> QED
    BY <2>1, <2>2
<1>6. Typed'
  BY <1>1, <1>2, <1>5 DEF Typed
<1>7. Vacant'
  BY <1>1, <1>3, <1>5 DEF Vacant
<1>8. PartsOwned'
  BY <1>1, <1>3 DEF Inv, PartsOwned, Typed
<1>11. CopyableShared'
  BY <1>1, <1>3 DEF Inv, CopyableShared, Typed
<1>12. ASSUME NEW n \in Objects, NEW a \in Parts \ {"COEFFICIENT"}
       PROVE  /\ told[n][a] # {} => told'[n][a] = told[n][a]
              /\ told'[n][a] # {} => told'[n][a] = {value'[n][a]} /\ value'[n][a] # NoKey
  <2>1. CASE n = o
    <3>1. told[o][a] # {} => told[o][a] = {value[o][a]} /\ value[o][a] # NoKey
      BY <1>1, <1>2 DEF ToldStays
    <3>2. told[o][a] # {} => w[a] = value[o][a]
      BY <3>1
    <3>3. told'[o][a] = told[o][a] \/ (told'[o][a] = {w[a]} /\ w[a] # NoKey)
      BY <1>5
    <3>4. /\ told[o][a] # {} => told'[o][a] = told[o][a]
          /\ told'[o][a] # {} => told'[o][a] = {w[a]} /\ w[a] # NoKey
      BY <3>1, <3>2, <3>3
    <3> QED
      BY <1>3, <2>1, <3>4
  <2>2. CASE n # o
    BY <1>1, <1>3, <1>5, <2>2 DEF ToldStays
  <2> QED
    BY <2>1, <2>2
<1>13. ToldStays'
  BY <1>12 DEF ToldStays
<1>14. \A n \in live, a \in Parts \ {"COEFFICIENT"} :
         told[n][a] # {} => told'[n][a] = told[n][a]
  BY <1>1, <1>12 DEF Typed
<1> QED
  BY <1>6, <1>7, <1>8, <1>11, <1>13, <1>14 DEF Inv

-----------------------------------------------------------------------------
(* The steps.                                                              *)

LEMMA CreateInv ==
  ASSUME Inv, NEW o \in Objects, NEW t \in Templates, Create(o, t)
  PROVE  Inv'
<1>1. PICK v : v = Apply(Default, t)
  OBVIOUS
<1>2. v \in Attributed
  BY <1>1, DefaultTyped, AppliedTyped
<1>3. Application \in Material
  BY DEF Material
<1>4. PICK w : w = WithParts(v, Parts, Application)
  OBVIOUS
<1>5. w \in Attributed /\ \A a \in Parts : w[a] = Application
  <2>1. Parts \subseteq Parts /\ Parts \subseteq DOMAIN Flags
    BY Sorts
  <2>2. w \in Attributed
    BY <1>2, <1>3, <1>4, <2>1, FilledTyped, Zenon
  <2>3. \A a \in Parts : w[a] = Application
    BY <1>4, <2>1 DEF WithParts
  <2> QED
    BY <2>2, <2>3
<1>6. Appears(o, NoKey, w)
  BY <1>1, <1>4 DEF Create
<1>7. Owns(NoKey, w)
  BY <1>5 DEF Owns
<1> QED
  BY <1>5, <1>6, <1>7, AppearsInv

(* The attributes of a key that the platform has made.                     *)
LEMMA AssignedTyped ==
  ASSUME NEW v \in Attributed, NEW k \in Keys, \A a \in Parts : v[a] = NoKey,
         NEW w \in Assigned(v, k)
  PROVE  w \in Attributed /\ Owns(k, w)
<1>1. k \in Material /\ k # NoKey
  BY KeysAssumption DEF Material
<1>2. CASE Backend = "mscapi"
  <2>1. w = WithParts(v, {"MODULUS"}, k) /\ {"MODULUS"} \subseteq Parts
    BY <1>2 DEF Assigned, Parts
  <2>2. /\ w \in Attributed
        /\ w["MODULUS"] = k
        /\ \A a \in Parts \ {"MODULUS"} : w[a] = v[a]
    <3>1. w \in Attributed
      BY <1>1, <2>1, FilledTyped, Zenon
    <3>2. /\ w["MODULUS"] = k
          /\ \A a \in Parts \ {"MODULUS"} : w[a] = v[a]
      BY <2>1, Sorts DEF WithParts
    <3> QED
      BY <3>1, <3>2
  <2> QED
    BY <1>1, <2>2 DEF Owns
<1>3. CASE Backend # "mscapi"
  <2>1. PICK e \in {v["EXTRACTABLE"], "true"} :
          w = [v EXCEPT !["TOKEN"] = "true", !["EXTRACTABLE"] = e]
    BY <1>3 DEF Assigned
  <2>2. e \in {"true", "false", "bad"}
    BY Sorts DEF Attributed
  <2>3. w \in Attributed /\ \A a \in Parts : w[a] = v[a]
    BY <2>1, <2>2, Sorts, Names DEF Attributed, Parts
  <2> QED
    BY <1>1, <2>3 DEF Owns
<1> QED
  BY <1>2, <1>3

LEMMA UnusedIsNew ==
  ASSUME NEW k \in Keys, Unused(k), NEW n \in live
  PROVE  key[n] # k
BY DEF Unused

LEMMA GenerateInv ==
  ASSUME Inv, NEW o \in Objects, NEW k \in Keys, NEW t \in Templates, Generate(o, k, t)
  PROVE  Inv'
<1>1. PICK v : v = Apply(Default, t)
  OBVIOUS
<1>2. v \in Attributed /\ \A a \in Parts : v[a] = NoKey
  BY <1>1, DefaultTyped, AppliedTyped, Sorts DEF Default
<1>3. PICK w \in Assigned(v, k) : Appears(o, k, w)
  BY <1>1 DEF Generate
<1>4. w \in Attributed /\ Owns(k, w)
  BY <1>2, AssignedTyped
<1>5. \A n \in live : key[n] # k
  BY UnusedIsNew DEF Generate
<1> QED
  BY <1>3, <1>4, <1>5, AppearsInv

LEMMA LoadInv ==
  ASSUME Inv, NEW o \in Objects, NEW k \in Keys, Load(o, k)
  PROVE  Inv'
<1>1. PICK v \in Assigned(Default, k) :
        Appears(o, k, IF Backend = "mscapi"
                      THEN [v EXCEPT !["TOKEN"] = "true", !["COPYABLE"] = "false"]
                      ELSE v)
  BY DEF Load
<1>2. \A a \in Parts : Default[a] = NoKey
  BY Sorts DEF Default
<1>3. v \in Attributed /\ Owns(k, v)
  BY <1>2, DefaultTyped, AssignedTyped
<1>4. PICK w : w = IF Backend = "mscapi"
                   THEN [v EXCEPT !["TOKEN"] = "true", !["COPYABLE"] = "false"]
                   ELSE v
  OBVIOUS
<1>5. w \in Attributed /\ \A a \in Parts : w[a] = v[a]
  <2>1. CASE Backend = "mscapi"
    <3>1. w = [v EXCEPT !["TOKEN"] = "true", !["COPYABLE"] = "false"]
      BY <1>4, <2>1
    <3> QED
      BY <1>3, <3>1, Sorts, Names DEF Attributed, Parts
  <2>2. CASE Backend # "mscapi"
    BY <1>3, <1>4, <2>2
  <2> QED
    BY <2>1, <2>2
<1>6. Owns(k, w)
  BY <1>3, <1>5 DEF Owns
<1>7. Appears(o, k, w)
  BY <1>1, <1>4
<1>8. \A n \in live : key[n] # k
  BY UnusedIsNew DEF Load
<1> QED
  BY <1>5, <1>6, <1>7, <1>8, AppearsInv

(* A copy may not set what a change may not set either, unless PVF_13 is   *)
(* set: COPYABLE is inherited.                                             *)
LEMMA CopyInv ==
  ASSUME Inv, NEW o \in Objects, NEW n \in Objects, NEW t \in Templates, Copy(o, n, t)
  PROVE  Inv'
<1>1. o \in live /\ key[o] # NoKey /\ Permits(t, {8, 13})
  BY DEF Copy
<1>2. value[o] \in Attributed /\ key[o] \in Keys
  BY <1>1 DEF Inv, Typed
<1>3. PICK v : v = Apply(value[o], t)
  OBVIOUS
<1>4. v \in Attributed /\ \A a \in Parts : v[a] = value[o][a]
  BY <1>2, <1>3, AppliedTyped
<1>5. v["COPYABLE"] = value[o]["COPYABLE"]
  <2>1. "COPYABLE" \notin Named(t)
    BY <1>1 DEF Permits, Flags
  <2> QED
    BY <1>3, <2>1, Applied, Names
<1>6. Owns(key[o], v)
  BY <1>1, <1>4 DEF Inv, PartsOwned, Owns
<1>7. Appears(n, key[o], v)
  BY <1>3 DEF Copy
<1>8. \A m \in live : key[m] = key[o] /\ key[o] # NoKey =>
                      value[m]["COPYABLE"] = v["COPYABLE"]
  BY <1>1, <1>5 DEF Inv, CopyableShared
<1> QED
  BY <1>2, <1>4, <1>6, <1>7, <1>8, AppearsInv

LEMMA DestroyInv ==
  ASSUME Inv, NEW o \in Objects, Destroy(o)
  PROVE  Inv'
<1>1. /\ o \in live /\ live' = live \ {o}
      /\ key' = [key EXCEPT ![o] = NoKey]
      /\ value' = [value EXCEPT ![o] = Default]
      /\ told' = [told EXCEPT ![o] = Untold]
  BY DEF Destroy
<1>2. Typed
  BY DEF Inv
<1>3. /\ key'[o] = NoKey /\ value'[o] = Default /\ told'[o] = Untold
      /\ \A n \in Objects \ {o} :
           key'[n] = key[n] /\ value'[n] = value[n] /\ told'[n] = told[n]
  BY <1>1, <1>2 DEF Typed
<1>4. Untold \in [Parts -> SUBSET Material]
  BY DEF Untold
<1>5. Typed'
  BY <1>1, <1>2, <1>4, DefaultTyped DEF Typed
<1>6. Vacant'
  BY <1>1, <1>3 DEF Inv, Vacant
<1>7. PartsOwned' /\ CopyableShared'
  BY <1>1, <1>2, <1>3 DEF Inv, PartsOwned, CopyableShared, Typed
<1>9. ToldStays'
  BY <1>3 DEF Inv, ToldStays, Untold
<1> QED
  BY <1>5, <1>6, <1>7, <1>9 DEF Inv

-----------------------------------------------------------------------------
(* What was told of a part that is still there stays so.                   *)
Agrees ==
  \A o \in live', a \in Parts \ {"COEFFICIENT"} :
    told[o][a] # {} => told'[o][a] = told[o][a]

LEMMA SetValuesInv ==
  ASSUME Inv, NEW o \in Objects, NEW t \in Templates, SetValues(o, t)
  PROVE  Inv' /\ Agrees
<1>1. PICK w : w = SetOutcome(value[o], t)
  OBVIOUS
<1>2. /\ o \in live
      /\ value' = [value EXCEPT ![o] = w]
      /\ live' = live /\ key' = key /\ told' = told
  BY <1>1 DEF SetValues
<1>3. value[o] \in Attributed /\ value'[o] = w
  BY <1>2 DEF Inv, Typed
<1>4. /\ w \in Attributed
      /\ \A a \in Parts : w[a] = value[o][a]
      /\ w["COPYABLE"] = value[o]["COPYABLE"]
  <2>1. CASE Permits(t, {8})
    <3>1. w = Apply(value[o], t)
      BY <1>1, <2>1 DEF SetOutcome
    <3>2. "COPYABLE" \notin Named(t)
      BY <2>1 DEF Permits, Flags
    <3> QED
      BY <1>3, <3>1, <3>2, AppliedTyped, Applied, Names
  <2>2. CASE ~Permits(t, {8})
    BY <1>1, <1>3, <2>2 DEF SetOutcome
  <2> QED
    BY <2>1, <2>2
<1>5. Owns(key[o], w)
  BY <1>2, <1>4 DEF Inv, PartsOwned, Owns
<1>6. Tells(o, w)
  BY <1>2 DEF Tells
<1> QED
  BY <1>2, <1>4, <1>5, <1>6, ChangesInv DEF Agrees

(* A read or a comparison may fill parts that were empty, from the key of  *)
(* the object.                                                             *)
LEMMA FilledKeeps ==
  ASSUME Inv, NEW o \in live, NEW a \in DOMAIN Flags, NEW w, w = Filled(o, a)
  PROVE  /\ w \in Attributed
         /\ Owns(key[o], w)
         /\ \A b \in Switches : w[b] = value[o][b]
         /\ \A b \in Parts \ {"COEFFICIENT"} : value[o][b] # NoKey => w[b] = value[o][b]
         /\ a \in Parts \ {"COEFFICIENT"} => w[a] # NoKey
<1>1. /\ value[o] \in Attributed /\ key[o] \in Keys \cup {NoKey}
      /\ Owns(key[o], value[o])
  BY DEF Inv, Typed, PartsOwned
<1>2. Application # NoKey /\ key[o] \in Material
  BY <1>1, KeysAssumption DEF Material
<1>3. CASE value[o][a] # NoKey
  BY <1>1, <1>3 DEF Filled
<1>4. CASE value[o][a] = NoKey
  <2>1. w = WithParts(value[o], FilledWith(a), key[o])
    BY <1>4 DEF Filled
  <2>2. FilledWith(a) \subseteq Parts
    BY DEF FilledWith, Parts
  <2>3. w \in Attributed
    BY <1>1, <1>2, <2>1, <2>2, FilledTyped, Zenon
  <2>4. \A b \in DOMAIN Flags : w[b] = IF b \in FilledWith(a) THEN key[o] ELSE value[o][b]
    BY <2>1 DEF WithParts
  <2>5. \A b \in Switches : w[b] = value[o][b]
    BY <2>2, <2>4, Sorts
  <2>6. a \in Parts => key[o] # NoKey
    BY <1>1, <1>2, <1>4 DEF Owns
  <2>7. FilledWith(a) # {} => a \in Parts
    BY DEF FilledWith, Parts
  <2>8. Owns(key[o], w)
    BY <1>1, <2>4, <2>6, <2>7, Sorts DEF Owns
  <2>9. \A b \in Parts \ {"COEFFICIENT"} : b \in FilledWith(a) => b = a
    BY DEF FilledWith, Parts
  <2>10. a \in Parts \ {"COEFFICIENT"} => a \in FilledWith(a)
    BY DEF FilledWith, Parts
  <2> QED
    BY <1>4, <2>3, <2>4, <2>5, <2>6, <2>8, <2>9, <2>10, Sorts
<1> QED
  BY <1>3, <1>4

LEMMA CompareInv ==
  ASSUME Inv, NEW o \in Objects, NEW a \in DOMAIN Flags, Compare(o, a)
  PROVE  Inv' /\ Agrees
<1>1. PICK w : w = Filled(o, a)
  OBVIOUS
<1>2. /\ o \in live
      /\ value' = [value EXCEPT ![o] = w]
      /\ live' = live /\ key' = key /\ told' = told
  BY <1>1 DEF Compare
<1>3. /\ w \in Attributed
      /\ Owns(key[o], w)
      /\ \A b \in Switches : w[b] = value[o][b]
      /\ \A b \in Parts \ {"COEFFICIENT"} : value[o][b] # NoKey => w[b] = value[o][b]
  BY <1>1, <1>2, FilledKeeps
<1>4. w["COPYABLE"] = value[o]["COPYABLE"]
  BY <1>3, Sorts
<1>5. Tells(o, w)
  BY <1>2 DEF Tells
<1> QED
  BY <1>2, <1>3, <1>4, <1>5, ChangesInv DEF Agrees

LEMMA ReadInv ==
  ASSUME Inv, NEW o \in Objects, NEW a \in DOMAIN Flags, Read(o, a)
  PROVE  Inv' /\ Agrees
<1>1. PICK w : w = Filled(o, a)
  OBVIOUS
<1>2. /\ o \in live
      /\ value' = [value EXCEPT ![o] = w]
      /\ live' = live /\ key' = key
  BY <1>1 DEF Read
<1>3. value'[o] = w
  BY <1>2 DEF Inv, Typed
<1>4. told' = IF a \in Parts THEN [told EXCEPT ![o][a] = {w[a]}] ELSE told
  BY <1>3 DEF Read
<1>5. /\ w \in Attributed
      /\ Owns(key[o], w)
      /\ \A b \in Switches : w[b] = value[o][b]
      /\ \A b \in Parts \ {"COEFFICIENT"} : value[o][b] # NoKey => w[b] = value[o][b]
      /\ a \in Parts \ {"COEFFICIENT"} => w[a] # NoKey
  BY <1>1, <1>2, FilledKeeps
<1>6. w["COPYABLE"] = value[o]["COPYABLE"]
  BY <1>5, Sorts
<1>7. Tells(o, w)
  BY <1>4, <1>5 DEF Tells
<1> QED
  BY <1>2, <1>5, <1>6, <1>7, ChangesInv DEF Agrees

LEMMA NewAgrees ==
  ASSUME Inv, NEW o, NEW k, NEW v, Appears(o, k, v)
  PROVE  Agrees
BY DEF Appears, Agrees

LEMMA DestroyAgrees ==
  ASSUME Inv, NEW o \in Objects, Destroy(o)
  PROVE  Agrees
BY DEF Destroy, Agrees, Inv, Typed

LEMMA StepInv == Inv /\ [Next]_vars => Inv' /\ Agrees
<1> SUFFICES ASSUME Inv, [Next]_vars PROVE Inv' /\ Agrees
  OBVIOUS
<1>1. CASE Created
  <2>1. ASSUME NEW o \in Objects, NEW t \in Templates, Create(o, t)
        PROVE  Inv' /\ Agrees
    BY <2>1, CreateInv, NewAgrees DEF Create
  <2>2. ASSUME NEW o \in Objects, NEW n \in Objects, NEW t \in Templates, Copy(o, n, t)
        PROVE  Inv' /\ Agrees
    BY <2>2, CopyInv, NewAgrees DEF Copy
  <2> QED
    BY <1>1, <2>1, <2>2 DEF Created
<1>2. CASE Generated
  <2>1. PICK o \in Objects, k \in Keys, t \in Templates : Generate(o, k, t)
    BY <1>2 DEF Generated
  <2> QED
    BY <2>1, GenerateInv, NewAgrees DEF Generate
<1>3. ASSUME NEW o \in Objects, NEW k \in Keys, Load(o, k) PROVE Inv' /\ Agrees
  BY <1>3, LoadInv, NewAgrees DEF Load
<1>4. CASE GetAttributeValue
  BY <1>4, ReadInv DEF GetAttributeValue
<1>5. CASE SetAttributeValue
  BY <1>5, SetValuesInv DEF SetAttributeValue
<1>6. CASE Found
  BY <1>6, CompareInv DEF Found
<1>7. ASSUME NEW o \in Objects, Destroy(o) PROVE Inv' /\ Agrees
  BY <1>7, DestroyInv, DestroyAgrees
<1>8. CASE UNCHANGED vars
  BY <1>8 DEF vars, Inv, Typed, Vacant, PartsOwned, CopyableShared, ToldStays, Agrees
<1> QED
  BY <1>1, <1>2, <1>3, <1>4, <1>5, <1>6, <1>7, <1>8 DEF Next

-----------------------------------------------------------------------------
(* Attributes keep their types, and an object leaves nothing behind at its *)
(* address (Destroy of the key classes, ObjectClear).                      *)
THEOREM TypeCorrect == Spec => []TypeOK
<1>1. Inv => TypeOK
  BY InvIsEnough
<1> QED
  BY <1>1, InitInv, StepInv, PTL DEF Spec

(* However long a chain of copies is, what can neither be set nor copied   *)
(* over is the same in all of them (Object::CopyValues).                   *)
THEOREM CopiesStayAlike == Spec => []CopiesAgree
<1>1. Inv => CopiesAgree
  BY InvIsEnough
<1> QED
  BY <1>1, InitInv, StepInv, PTL DEF Spec

(* What is read of a key stays the same, although it is filled lazily      *)
(* (GetValue of the key classes).                                          *)
THEOREM ReadsStayAlike == Spec => ReadsAgree
<1>1. Inv /\ [Next]_vars =>
        [\A o \in live', a \in Parts \ {"COEFFICIENT"} :
           told[o][a] # {} => told'[o][a] = told[o][a]]_vars
  BY StepInv DEF Agrees
<1> QED
  BY <1>1, InitInv, StepInv, PTL DEF Spec, ReadsAgree
=============================================================================
