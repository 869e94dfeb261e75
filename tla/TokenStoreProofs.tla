-------------------------- MODULE TokenStoreProofs --------------------------
(***************************************************************************)
(* Proofs about module TokenStore, for any number of sessions, objects,    *)
(* keys and certificates, and whatever calls to Windows fail.              *)
(***************************************************************************)
EXTENDS TokenStore, TLAPS

-----------------------------------------------------------------------------
(* The inductive invariant: what the properties say of the contexts that   *)
(* are stored holds of those in memory too, since they may be stored.      *)

(* Context r names the container of its own key among keys ks, or none.    *)
OwnLink(r, ks) == r.link # None => ks[r.link] \in {r.pair, None}

(* What object t stands for is there, or has been destroyed.               *)
Backed(t, ks, cs, ss) ==
  /\ t \in Object
  /\ t.session \in ss
  /\ t.class = "key" =>
       /\ t.at \in Containers \cup {Memory}
       /\ t.at \in Containers => ks[t.at] \in {t.pair, None}
  /\ t.class # "key" =>
       /\ t.at \in Contexts \cup {None}
       /\ t.at # None => cs[t.at] # None

KeysFit ==
  /\ keys \in [Containers -> Pairs \cup {None}]
  /\ exports \subseteq Containers
  /\ \A c \in exports : keys[c] \in Extractable

CertsFit ==
  /\ certs \in [Contexts -> Context \cup {None}]
  /\ \A x \in Contexts : certs[x] # None => OwnLink(certs[x], keys)

ObjectsFit ==
  /\ open \subseteq Sessions
  /\ objects \in [Objects -> Object \cup {None}]
  /\ \A o \in Objects : objects[o] # None => Backed(objects[o], keys, certs, open)

Inv == KeysFit /\ CertsFit /\ ObjectsFit

LEMMA InvIsEnough ==
  Inv => TypeOK /\ LinksNameOwnKey /\ ExportOnlyIfExtractable /\ TokensBacked
<1> SUFFICES ASSUME Inv
             PROVE  TypeOK /\ LinksNameOwnKey /\ ExportOnlyIfExtractable /\ TokensBacked
  OBVIOUS
<1>1. TypeOK
  <2>1. exports \subseteq Held
    BY ExtractableAssumption, MarksAssumption DEF Inv, KeysFit, Held
  <2> QED
    BY <2>1 DEF Inv, KeysFit, CertsFit, ObjectsFit, TypeOK, Live, Backed
<1>2. LinksNameOwnKey
  BY DEF Inv, CertsFit, LinksNameOwnKey, Stored, OwnLink
<1>3. ExportOnlyIfExtractable
  BY DEF Inv, KeysFit, ExportOnlyIfExtractable
<1>4. TokensBacked
  BY DEF Inv, ObjectsFit, TokensBacked, Live, Backed
<1> QED
  BY <1>1, <1>2, <1>3, <1>4

LEMMA PlainTyped ==
  ASSUME NEW kind \in {"certificate", "request"}, NEW p \in Pairs \cup {None}
  PROVE  /\ Plain(kind, p) \in Context
         /\ Plain(kind, p).link = None /\ Plain(kind, p).pair = p
BY DEF Plain, Context

LEMMA InitInv == Init => Inv
<1> SUFFICES ASSUME Init PROVE Inv
  OBVIOUS
<1>1. keys \in [Containers -> Pairs \cup {None}]
  BY DEF Init
<1>2. KeysFit
  BY <1>1 DEF Init, KeysFit
<1>3. CertsFit
  <2>1. CASE certs = [y \in Contexts |-> None]
    BY <2>1 DEF CertsFit
  <2>2. CASE certs # [y \in Contexts |-> None]
    <3>1. PICK x \in Contexts, p \in Pairs, c \in Containers \cup {None}, legacy \in BOOLEAN :
            /\ c # None => keys[c] \in {p, None}
            /\ certs = [[y \in Contexts |-> None] EXCEPT ![x] = StoredCertificate(p, c, legacy)]
      BY <2>2 DEF Init
    <3>2. PICK r : r = StoredCertificate(p, c, legacy)
      OBVIOUS
    <3>3. r \in Context
      BY <3>2 DEF Context, StoredCertificate
    <3>4. OwnLink(r, keys)
      BY <3>1, <3>2 DEF OwnLink, StoredCertificate
    <3>5. certs = [[y \in Contexts |-> None] EXCEPT ![x] = r]
      BY <3>1, <3>2
    <3> QED
      BY <3>3, <3>4, <3>5 DEF CertsFit
  <2> QED
    BY <2>1, <2>2
<1>4. ObjectsFit
  BY DEF Init, ObjectsFit
<1> QED
  BY <1>2, <1>3, <1>4 DEF Inv

-----------------------------------------------------------------------------
(* Opening a session.                                                      *)

LEMMA FoundBacked ==
  ASSUME Inv, NEW s \in Sessions, NEW skip \in Passed, NEW listed \in Listings,
         NEW source \in Sources(skip, listed)
  PROVE  /\ Backed(Found(s, source), keys, certs, open \cup {s})
         /\ Found(s, source).session = s
         /\ Found(s, source).token
<1>1. /\ keys \in [Containers -> Pairs \cup {None}]
      /\ certs \in [Contexts -> Context \cup {None}]
  BY DEF Inv, KeysFit, CertsFit
<1>2. \A x \in Contexts : certs[x] # None =>
        certs[x].pair \in Pairs \cup {None} /\ certs[x].link \in Containers \cup {None}
  BY <1>1 DEF Context
<1>3. ASSUME NEW class \in {"certificate", "request"}, NEW x \in Contexts,
             certs[x] # None, source = <<class, x>>
      PROVE  /\ Backed(Found(s, source), keys, certs, open \cup {s})
             /\ Found(s, source).session = s
             /\ Found(s, source).token
  <2>1. PICK t : t = Found(s, source)
    OBVIOUS
  <2>2. source[1] = class /\ source[2] = x
    BY <1>3
  <2>3. class # "key of" /\ class # "key"
    OBVIOUS
  <2>4. t = Loaded(s, class, certs[x].pair, x)
    BY <2>1, <2>2, <2>3 DEF Found
  <2>5. /\ class \in {"key", "certificate", "request"}
        /\ certs[x].pair \in Pairs \cup {None}
        /\ x \in Containers \cup Contexts \cup {Memory, None}
    BY <1>2, <1>3
  <2>6. /\ t \in Object /\ t.session = s /\ t.class = class /\ t.token /\ t.at = x
    BY <2>4, <2>5 DEF Loaded, Object
  <2>7. Backed(t, keys, certs, open \cup {s})
    BY <1>3, <2>3, <2>6 DEF Backed
  <2> QED
    BY <2>1, <2>6, <2>7, Zenon
<1>4. ASSUME NEW t, NEW c \in Containers, t = Found(s, source),
             t = Loaded(s, "key", keys[c], c)
      PROVE  /\ Backed(t, keys, certs, open \cup {s})
             /\ t.session = s
             /\ t.token
  <2>1. /\ "key" \in {"key", "certificate", "request"}
        /\ keys[c] \in Pairs \cup {None}
        /\ c \in Containers \cup Contexts \cup {Memory, None}
    BY <1>1
  <2>2. /\ t \in Object /\ t.session = s /\ t.class = "key" /\ t.token
        /\ t.pair = keys[c] /\ t.at = c
    BY <1>4, <2>1 DEF Loaded, Object
  <2>3. Backed(t, keys, certs, open \cup {s})
    BY <2>2 DEF Backed
  <2> QED
    BY <2>2, <2>3, Zenon
<1>5. CASE \E x \in Linked \ skip : source = <<"certificate", x>>
  BY <1>3, <1>5 DEF Linked, Stored
<1>6. CASE \E x \in Requests : source = <<"request", x>>
  BY <1>3, <1>6 DEF Requests, Stored
<1>7. CASE \E x \in {y \in Linked \ skip : certs[y].legacy} : source = <<"key of", x>>
  <2>1. PICK x \in Linked : source = <<"key of", x>>
    BY <1>7
  <2>2. source[1] = "key of" /\ source[2] = x
    BY <2>1
  <2>3. certs[x].link \in Containers
    BY <1>2 DEF Linked, Stored
  <2>4. PICK c \in Containers : c = certs[x].link
    BY <2>3
  <2>5. Found(s, source) = Loaded(s, "key", keys[c], c)
    BY <2>2, <2>4 DEF Found
  <2> QED
    BY <1>4, <2>5
<1>8. CASE \E c \in listed : source = <<"key", c>>
  <2>1. PICK c \in listed : source = <<"key", c>>
    BY <1>8
  <2>2. source[1] = "key" /\ source[2] = c /\ c \in Containers
    BY <2>1 DEF Held, Listings
  <2>3. Found(s, source) = Loaded(s, "key", keys[c], c)
    BY <2>2 DEF Found
  <2> QED
    BY <1>4, <2>2, <2>3
<1> QED
  BY <1>5, <1>6, <1>7, <1>8 DEF Sources

(* The steps of the action properties.                                     *)
StaysOut ==
  \A o \in Objects :
    objects[o] = None /\ objects'[o] # None /\ ~objects'[o].token =>
      keys' = keys /\ \A x \in Stored(certs) \cup Stored(certs') : certs'[x] = certs[x]

WithObject ==
  \A x \in Stored(certs') \ Stored(certs) :
    \E o \in Objects : objects[o] = None /\ objects'[o] # None /\ objects'[o].at = x

Sound == Inv' /\ StaysOut /\ WithObject

LEMMA SameStores ==
  ASSUME keys' = keys, certs' = certs
  PROVE  StaysOut /\ WithObject
BY DEF StaysOut, WithObject

LEMMA OpenSessionSound ==
  ASSUME Inv, NEW s \in Sessions, OpenSession(s)
  PROVE  Sound
<1>1. /\ open' = open \cup {s}
      /\ keys' = keys /\ exports' = exports /\ certs' = certs
  BY DEF OpenSession
<1>2. PICK skip \in Passed, listed \in Listings : \E f \in Injection(Sources(skip, listed), Objects \ Live) :
        objects' = [o \in Objects |->
          IF o \in Range(f) THEN Found(s, CHOOSE x \in DOMAIN f : f[x] = o)
                            ELSE objects[o]]
  BY DEF OpenSession
<1>3. PICK f \in Injection(Sources(skip, listed), Objects \ Live) :
        objects' = [o \in Objects |->
          IF o \in Range(f) THEN Found(s, CHOOSE x \in DOMAIN f : f[x] = o)
                            ELSE objects[o]]
  BY <1>2
<1>4. /\ f \in [Sources(skip, listed) -> Objects \ Live]
      /\ \A a, b \in Sources(skip, listed) : f[a] = f[b] => a = b
  BY DEF Injection, IsInjective
<1>5. ASSUME NEW o \in Objects, o \in Range(f)
      PROVE  \E source \in Sources(skip, listed) :
               f[source] = o /\ objects'[o] = Found(s, source)
  <2>1. \E x \in DOMAIN f : f[x] = o
    BY <1>5 DEF Range
  <2>2. PICK source : source = CHOOSE x \in DOMAIN f : f[x] = o
    OBVIOUS
  <2>3. source \in DOMAIN f /\ f[source] = o
    BY <2>1, <2>2
  <2>4. objects'[o] = Found(s, source)
    BY <1>3, <1>5, <2>2
  <2> QED
    BY <1>4, <2>3, <2>4
<1>6. \A o \in Objects : o \notin Range(f) => objects'[o] = objects[o]
  BY <1>3
<1>7. \A o \in Objects : objects[o] # None => Backed(objects[o], keys, certs, open \cup {s})
  BY DEF Inv, ObjectsFit, Backed
<1>8. ASSUME NEW o \in Objects
      PROVE  /\ objects'[o] \in Object \cup {None}
             /\ objects'[o] # None => Backed(objects'[o], keys, certs, open \cup {s})
  <2>1. CASE o \in Range(f)
    <3>1. Backed(objects'[o], keys, certs, open \cup {s})
      BY <1>5, <2>1, FoundBacked
    <3> QED
      BY <3>1 DEF Backed
  <2>2. CASE o \notin Range(f)
    BY <1>6, <1>7, <2>2 DEF Inv, ObjectsFit
  <2> QED
    BY <2>1, <2>2
<1>9. ObjectsFit'
  <2>1. objects' \in [Objects -> Object \cup {None}]
    BY <1>3, <1>8
  <2> QED
    BY <1>1, <1>8, <2>1 DEF Inv, ObjectsFit
<1>10. Inv'
  BY <1>1, <1>9 DEF Inv, KeysFit, CertsFit
<1> QED
  BY <1>1, <1>10, SameStores DEF Sound

-----------------------------------------------------------------------------
(* Steps that only take away.                                              *)

LEMMA KeptFits ==
  ASSUME NEW cs \in [Contexts -> Context \cup {None}], NEW os, NEW ks, NEW x \in Contexts
  PROVE  /\ Kept(cs, os)[x] \in {cs[x], None}
         /\ Kept(cs, os)[x] # cs[x] =>
              \A n \in Objects : os[n] # None => os[n].at # x
BY DEF Kept, Used

LEMMA NoneNew ==
  ASSUME \A o \in Objects : objects[o] = None => objects'[o] = None,
         Stored(certs') \subseteq Stored(certs)
  PROVE  StaysOut /\ WithObject
BY DEF StaysOut, WithObject

LEMMA CloseSessionSound ==
  ASSUME Inv, NEW s \in open, CloseSession(s)
  PROVE  Sound
<1>1. /\ open' = open \ {s} /\ keys' = keys /\ exports' = exports
      /\ objects' = [o \in Objects |->
           IF o \in Live /\ objects[o].session = s THEN None ELSE objects[o]]
      /\ certs' = Kept(certs, objects')
  BY DEF CloseSession
<1>2. certs \in [Contexts -> Context \cup {None}]
  BY DEF Inv, CertsFit
<1>3. certs' \in [Contexts -> Context \cup {None}]
  BY <1>1, <1>2 DEF Kept
<1>4. \A x \in Contexts : certs'[x] \in {certs[x], None}
  BY <1>1, <1>2, KeptFits
<1>5. CertsFit'
  BY <1>1, <1>3, <1>4 DEF Inv, CertsFit, OwnLink
<1>6. \A o \in Objects : objects'[o] # None =>
        objects'[o] = objects[o] /\ objects[o].session # s
  BY <1>1 DEF Live
<1>7. ASSUME NEW o \in Objects, objects'[o] # None
      PROVE  Backed(objects'[o], keys', certs', open')
  <2>1. Backed(objects[o], keys, certs, open)
    BY <1>6, <1>7 DEF Inv, ObjectsFit
  <2>2. objects[o].at \in Contexts => certs'[objects[o].at] = certs[objects[o].at]
    BY <1>1, <1>2, <1>6, <1>7, KeptFits
  <2> QED
    BY <1>1, <1>6, <1>7, <2>1, <2>2 DEF Backed
<1>8. ObjectsFit'
  <2>1. objects' \in [Objects -> Object \cup {None}]
    BY <1>1 DEF Inv, ObjectsFit
  <2> QED
    BY <1>1, <1>7, <2>1 DEF Inv, ObjectsFit
<1>9. KeysFit'
  BY <1>1 DEF Inv, KeysFit
<1>10. Stored(certs') \subseteq Stored(certs)
  BY <1>4 DEF Stored
<1>11. \A o \in Objects : objects[o] = None => objects'[o] = None
  BY <1>6
<1> QED
  BY <1>5, <1>8, <1>9, <1>10, <1>11, NoneNew DEF Sound, Inv

(* Destroying what is in a context: object o goes or loses it.             *)
LEMMA DestroySound ==
  ASSUME Inv, NEW o \in Live, NEW t \in Object \cup {None},
         NEW cs \in [Contexts -> Context \cup {None}],
         t # None => Backed(t, keys, certs, open) /\ t.class # "key" /\ t.at = None,
         \A x \in Contexts :
           /\ cs[x] # None <=> certs[x] # None
           /\ cs[x] # None => OwnLink(cs[x], keys)
           /\ cs[x] # None /\ cs[x].where = "store" => certs[x].where = "store",
         objects' = [objects EXCEPT ![o] = t], certs' = Kept(cs, objects'),
         keys' = keys, exports' = exports, open' = open
  PROVE  Sound
<1>1. objects \in [Objects -> Object \cup {None}] /\ o \in Objects /\ objects[o] # None
  BY DEF Inv, ObjectsFit, Live
<1>2. objects' \in [Objects -> Object \cup {None}]
  BY <1>1
<1>3. /\ objects'[o] = t
      /\ \A n \in Objects \ {o} : objects'[n] = objects[n]
  BY <1>1
<1>4. certs' \in [Contexts -> Context \cup {None}]
  BY DEF Kept
<1>5. \A x \in Contexts : certs'[x] \in {cs[x], None}
  BY KeptFits
<1>6. CertsFit'
  BY <1>4, <1>5 DEF CertsFit
<1>7. ASSUME NEW n \in Objects, objects'[n] # None
      PROVE  Backed(objects'[n], keys', certs', open')
  <2>1. objects'[n].at \in Contexts => certs'[objects'[n].at] = cs[objects'[n].at]
    BY <1>7, KeptFits
  <2>2. CASE n = o
    BY <1>3, <1>7, <2>2 DEF Backed
  <2>3. CASE n # o
    <3>1. objects'[n] = objects[n] /\ Backed(objects[n], keys, certs, open)
      BY <1>3, <1>7, <2>3 DEF Inv, ObjectsFit
    <3> QED
      BY <2>1, <3>1 DEF Backed
  <2> QED
    BY <2>2, <2>3
<1>8. ObjectsFit' /\ KeysFit'
  BY <1>2, <1>7 DEF Inv, ObjectsFit, KeysFit
<1>9. Stored(certs') \subseteq Stored(certs)
  BY <1>5 DEF Stored
<1>10. \A n \in Objects : objects[n] = None => objects'[n] = None
  BY <1>1, <1>3
<1> QED
  BY <1>6, <1>8, <1>9, <1>10, NoneNew DEF Sound, Inv

LEMMA DestroyStoredSound ==
  ASSUME Inv, NEW o \in Live, DestroyStored(o)
  PROVE  Sound
<1>1. PICK at : at = objects[o].at
  OBVIOUS
<1>2. PICK cs : cs = IF certs[at].where = "store"
                     THEN [certs EXCEPT ![at].where = "deleted"] ELSE certs
  OBVIOUS
<1>3. /\ objects' = [objects EXCEPT ![o] = None] /\ certs' = Kept(cs, objects')
      /\ keys' = keys /\ exports' = exports /\ open' = open
  BY <1>1, <1>2 DEF DestroyStored
<1>4. /\ certs \in [Contexts -> Context \cup {None}]
      /\ \A x \in Contexts : certs[x] # None => OwnLink(certs[x], keys)
      /\ Backed(objects[o], keys, certs, open)
  BY DEF Inv, CertsFit, ObjectsFit, Live
<1>5. at \in Contexts /\ certs[at] # None /\ certs[at] \in Context
  BY <1>1, <1>4 DEF DestroyStored, Backed
<1>6. PICK r : r = [certs[at] EXCEPT !.where = "deleted"]
  OBVIOUS
<1>7. r \in Context /\ r # None /\ r.link = certs[at].link /\ r.pair = certs[at].pair
      /\ r.where = "deleted"
  BY <1>5, <1>6, NoneAssumption DEF Context
<1>8. cs = [certs EXCEPT ![at] = r] \/ cs = certs
  BY <1>2, <1>6
<1>9. cs \in [Contexts -> Context \cup {None}]
  BY <1>4, <1>7, <1>8
<1>10. \A x \in Contexts :
         /\ cs[x] # None <=> certs[x] # None
         /\ cs[x] # None => OwnLink(cs[x], keys)
         /\ cs[x] # None /\ cs[x].where = "store" => certs[x].where = "store"
  BY <1>4, <1>5, <1>7, <1>8 DEF OwnLink
<1> QED
  BY <1>3, <1>9, <1>10, DestroySound

LEMMA DestroyStoredFailsSound ==
  ASSUME Inv, NEW o \in Live, DestroyStoredFails(o)
  PROVE  Sound
<1>1. PICK t : t = [objects[o] EXCEPT !.at = None]
  OBVIOUS
<1>2. /\ objects' = [objects EXCEPT ![o] = t] /\ certs' = Kept(certs, objects')
      /\ keys' = keys /\ exports' = exports /\ open' = open
      /\ objects[o].class # "key"
  BY <1>1 DEF DestroyStoredFails
<1>3. Backed(objects[o], keys, certs, open)
  BY DEF Inv, ObjectsFit, Live
<1>4. /\ t \in Object /\ t.at = None /\ t.class = objects[o].class
      /\ t.session = objects[o].session
  BY <1>1, <1>3 DEF Backed, Object
<1>5. Backed(t, keys, certs, open)
  BY <1>2, <1>3, <1>4 DEF Backed
<1> QED
  BY <1>2, <1>4, <1>5, DestroySound DEF Inv, CertsFit

LEMMA DestroyKeySound ==
  ASSUME Inv, NEW o \in Live, DestroyKey(o)
  PROVE  Sound
<1>1. PICK c : c = objects[o].at
  OBVIOUS
<1>2. /\ objects' = [objects EXCEPT ![o] = None]
      /\ keys' = [d \in Containers |-> IF d = c THEN None ELSE keys[d]]
      /\ exports' = exports \ {c}
      /\ certs' = certs /\ open' = open
  BY <1>1 DEF DestroyKey
<1>3. KeysFit'
  BY <1>2 DEF Inv, KeysFit
<1>4. CertsFit'
  <2>1. \A x \in Contexts : certs[x] # None =>
          certs[x].link \in Containers \cup {None} /\ OwnLink(certs[x], keys)
    BY DEF Inv, CertsFit, Context
  <2> QED
    BY <1>2, <2>1 DEF Inv, CertsFit, OwnLink
<1>5. objects' \in [Objects -> Object \cup {None}]
  BY <1>2 DEF Inv, ObjectsFit
<1>6. \A n \in Objects : objects'[n] # None =>
        objects'[n] = objects[n] /\ Backed(objects[n], keys, certs, open)
  BY <1>2 DEF Inv, ObjectsFit
<1>7. \A n \in Objects : objects'[n] # None => Backed(objects'[n], keys', certs', open')
  BY <1>2, <1>6 DEF Backed
<1>8. ObjectsFit'
  BY <1>2, <1>5, <1>7 DEF Inv, ObjectsFit
<1>9. \A n \in Objects : objects[n] = None => objects'[n] = None
  BY <1>6
<1> QED
  BY <1>2, <1>3, <1>4, <1>8, <1>9, NoneNew DEF Sound, Inv

-----------------------------------------------------------------------------
(* Steps that add to the stores: what objects stand for stays there.       *)

Grows ==
  /\ \A c \in Containers : keys'[c] = keys[c] \/ FreshContainer(c)
  /\ \A x \in Contexts : certs[x] # None => certs'[x] # None

LEMMA StillBacked ==
  ASSUME Inv, Grows, NEW o \in Objects, objects[o] # None
  PROVE  Backed(objects[o], keys', certs', open)
<1>1. Backed(objects[o], keys, certs, open) /\ o \in Live
  BY DEF Inv, ObjectsFit, Live
<1>2. objects[o].at \in Containers => keys'[objects[o].at] = keys[objects[o].at]
  BY <1>1 DEF Grows, FreshContainer
<1> QED
  BY <1>1, <1>2 DEF Backed, Grows

LEMMA NothingAdded ==
  ASSUME Inv, KeysFit', CertsFit', Grows, objects' = objects, open' = open
  PROVE  Inv' /\ StaysOut
<1>1. ObjectsFit'
  BY StillBacked DEF Inv, ObjectsFit
<1> QED
  BY <1>1 DEF Inv, StaysOut

LEMMA ObjectAdded ==
  ASSUME Inv, KeysFit', CertsFit', Grows, open' = open,
         NEW o \in Objects \ Live, NEW t, Adds(o, t), Backed(t, keys', certs', open)
  PROVE  /\ Inv'
         /\ objects[o] = None /\ t # None /\ objects'[o] = t
         /\ \A n \in Objects \ {o} : objects'[n] = objects[n]
<1>1. t # None /\ t \in Object
  BY NoneAssumption DEF Backed
<1>2. /\ objects'[o] = t
      /\ \A n \in Objects \ {o} : objects'[n] = objects[n]
      /\ objects' \in [Objects -> Object \cup {None}]
  BY <1>1 DEF Adds, Inv, ObjectsFit
<1>3. ObjectsFit'
  BY <1>2, StillBacked DEF Inv, ObjectsFit
<1> QED
  BY <1>1, <1>2, <1>3 DEF Inv, Live

(* A pair comes into a container that nothing names.                       *)
LEMMA Placed ==
  ASSUME Inv, NEW c, NEW p \in Pairs \cup {None}, FreshContainer(c),
         keys' = [keys EXCEPT ![c] = p]
  PROVE  /\ c \in Containers /\ c \notin exports
         /\ keys' \in [Containers -> Pairs \cup {None}]
         /\ keys'[c] = p /\ \A d \in Containers \ {c} : keys'[d] = keys[d]
         /\ \A d \in Containers : keys'[d] = keys[d] \/ FreshContainer(d)
         /\ \A x \in Contexts : certs[x] # None =>
              certs[x].link # c /\ OwnLink(certs[x], keys')
<1>1. c \in Containers /\ keys[c] = None
  BY DEF FreshContainer
<1>2. c \notin exports
  BY <1>1, ExtractableAssumption, MarksAssumption DEF Inv, KeysFit
<1>3. /\ keys' \in [Containers -> Pairs \cup {None}]
      /\ keys'[c] = p /\ \A d \in Containers \ {c} : keys'[d] = keys[d]
  BY <1>1 DEF Inv, KeysFit
<1>4. ASSUME NEW x \in Contexts, certs[x] # None
      PROVE  certs[x].link # c /\ OwnLink(certs[x], keys')
  <2>1. certs[x].link # c
    BY <1>4 DEF FreshContainer
  <2>2. certs[x].link \in Containers \cup {None} /\ OwnLink(certs[x], keys)
    BY <1>4 DEF Inv, CertsFit, Context
  <2> QED
    BY <1>3, <2>1, <2>2 DEF OwnLink
<1> QED
  BY <1>1, <1>2, <1>3, <1>4

LEMMA Persisted ==
  ASSUME Inv, NEW c, NEW p \in Pairs \cup {None}, NEW ext, Persists(c, p, ext),
         Declarable(p, ext)
  PROVE  KeysFit'
<1>1. FreshContainer(c) /\ keys' = [keys EXCEPT ![c] = p] /\ exports' = Exporting(c, ext)
  BY DEF Persists
<1>2. /\ c \in Containers /\ c \notin exports
      /\ keys' \in [Containers -> Pairs \cup {None}]
      /\ keys'[c] = p /\ \A d \in Containers \ {c} : keys'[d] = keys[d]
  BY <1>1, Placed
<1>3. CASE ext
  <2>1. exports' = exports \cup {c} /\ p \in Extractable
    BY <1>1, <1>3 DEF Exporting, Declarable
  <2> QED
    BY <1>2, <2>1 DEF Inv, KeysFit
<1>4. CASE ~ext
  <2>1. exports' = exports \ {c}
    BY <1>1, <1>4 DEF Exporting
  <2> QED
    BY <1>2, <2>1 DEF Inv, KeysFit
<1> QED
  BY <1>3, <1>4

(* A context gets a link only to a container that holds its pair.          *)
LEMMA Relinked ==
  ASSUME Inv, NEW r \in Context, OwnLink(r, keys), NEW n \in Linkings(r)
  PROVE  /\ n \in Context /\ OwnLink(n, keys) /\ n.where = r.where
         /\ n.kind = r.kind /\ n.pair = r.pair
<1>1. CASE n = r
  BY <1>1
<1>2. ASSUME NEW c \in Holding(r.pair), n = [r EXCEPT !.link = c, !.legacy = FALSE]
      PROVE  /\ n \in Context /\ OwnLink(n, keys) /\ n.where = r.where
             /\ n.kind = r.kind /\ n.pair = r.pair
  <2>1. c \in Containers /\ keys[c] = r.pair
    BY DEF Holding, Held
  <2>2. /\ n \in Context /\ n.where = r.where /\ n.link = c
        /\ n.kind = r.kind /\ n.pair = r.pair
    BY <1>2, <2>1 DEF Context
  <2> QED
    BY <2>1, <2>2 DEF OwnLink
<1> QED
  BY <1>1, <1>2 DEF Linkings

LEMMA Rehoused ==
  ASSUME NEW r \in Context, NEW where \in {"memory", "store", "deleted"},
         NEW n, n = [r EXCEPT !.where = where], NEW ks, OwnLink(r, ks)
  PROVE  /\ n \in Context /\ OwnLink(n, ks) /\ n.where = where
BY DEF Context, OwnLink

-----------------------------------------------------------------------------
(* Certificates and requests.                                              *)

(* An object of a new context.                                             *)
LEMMA ContextAdded ==
  ASSUME Inv, NEW o \in Objects \ Live, NEW t \in Object,
         NEW x, FreshContext(x), NEW r \in Context, OwnLink(r, keys),
         t.session \in open, t.class # "key", t.at = x,
         ~t.token => r.where # "store",
         Adds(o, t), certs' = [certs EXCEPT ![x] = r],
         keys' = keys, exports' = exports, open' = open
  PROVE  Sound
<1>1. x \in Contexts /\ certs[x] = None /\ x # None /\ r # None
  BY MarksAssumption, NoneAssumption DEF FreshContext
<1>2. /\ certs' \in [Contexts -> Context \cup {None}]
      /\ certs'[x] = r /\ \A y \in Contexts \ {x} : certs'[y] = certs[y]
  BY <1>1 DEF Inv, CertsFit
<1>3. CertsFit' /\ KeysFit' /\ Grows
  BY <1>1, <1>2 DEF Inv, CertsFit, KeysFit, Grows
<1>4. Backed(t, keys', certs', open)
  BY <1>1, <1>2 DEF Backed
<1>5. /\ Inv' /\ objects[o] = None /\ objects'[o] = t /\ t # None
      /\ \A n \in Objects \ {o} : objects'[n] = objects[n]
  BY <1>3, <1>4, ObjectAdded
<1>6. StaysOut
  <2> SUFFICES ASSUME NEW n \in Objects, objects[n] = None, objects'[n] # None,
                      ~objects'[n].token
               PROVE  \A y \in Stored(certs) \cup Stored(certs') : certs'[y] = certs[y]
    BY DEF StaysOut
  <2>1. n = o /\ r.where # "store"
    BY <1>5
  <2> QED
    BY <1>1, <1>2, <2>1 DEF Stored
<1>7. WithObject
  BY <1>2, <1>5 DEF WithObject, Stored
<1> QED
  BY <1>5, <1>6, <1>7 DEF Sound

LEMMA CreateCertificateSound ==
  ASSUME Inv, NEW s \in open, NEW o \in Objects \ Live, NEW p \in Pairs,
         NEW token \in BOOLEAN, CreateCertificate(s, o, p, token)
  PROVE  Sound
<1>1. PICK x \in Contexts :
        /\ FreshContext(x)
        /\ Adds(o, Thing(s, "certificate", p, token, x))
        /\ \E r \in IF token THEN Linkings(Plain("certificate", p))
                             ELSE {Plain("certificate", p)} :
             certs' = [certs EXCEPT ![x] = [r EXCEPT !.where = Place(token)]]
  BY DEF CreateCertificate
<1>2. PICK r \in IF token THEN Linkings(Plain("certificate", p))
                         ELSE {Plain("certificate", p)} :
        certs' = [certs EXCEPT ![x] = [r EXCEPT !.where = Place(token)]]
  BY <1>1
<1>3. keys' = keys /\ exports' = exports /\ open' = open /\ s \in Sessions
  BY DEF CreateCertificate, Inv, ObjectsFit
<1>4. Plain("certificate", p) \in Context /\ OwnLink(Plain("certificate", p), keys)
  BY PlainTyped DEF OwnLink
<1>5. r \in Context /\ OwnLink(r, keys)
  BY <1>4, Relinked
<1>6. PICK n : n = [r EXCEPT !.where = Place(token)]
  OBVIOUS
<1>7. /\ Place(token) \in {"memory", "store", "deleted"}
      /\ ~token => Place(token) # "store"
  BY DEF Place
<1>8. n \in Context /\ OwnLink(n, keys) /\ n.where = Place(token)
  BY <1>5, <1>6, <1>7, Rehoused
<1>9. PICK t : t = Thing(s, "certificate", p, token, x)
  OBVIOUS
<1>10. /\ t.session = s /\ t.class = "certificate" /\ t.at = x
       /\ t.token = token /\ t \in Object
  BY <1>3, <1>9 DEF Thing, Object
<1> QED
  BY <1>1, <1>2, <1>3, <1>6, <1>7, <1>8, <1>9, <1>10, ContextAdded

LEMMA CreateRequestSound ==
  ASSUME Inv, NEW s \in open, NEW o \in Objects \ Live, NEW token \in BOOLEAN,
         CreateRequest(s, o, token)
  PROVE  Sound
<1>1. PICK n : n = [Plain("request", None) EXCEPT !.where = Place(token)]
  OBVIOUS
<1>2. PICK x \in Contexts : /\ FreshContext(x)
                            /\ Adds(o, Thing(s, "request", None, token, x))
                            /\ certs' = [certs EXCEPT ![x] = n]
  BY <1>1 DEF CreateRequest
<1>3. keys' = keys /\ exports' = exports /\ open' = open /\ s \in Sessions
  BY DEF CreateRequest, Inv, ObjectsFit
<1>4. Plain("request", None) \in Context /\ OwnLink(Plain("request", None), keys)
  BY PlainTyped DEF OwnLink
<1>5. /\ Place(token) \in {"memory", "store", "deleted"}
      /\ ~token => Place(token) # "store"
  BY DEF Place
<1>6. n \in Context /\ OwnLink(n, keys) /\ n.where = Place(token)
  BY <1>1, <1>4, <1>5, Rehoused
<1>7. PICK t : t = Thing(s, "request", None, token, x)
  OBVIOUS
<1>8. /\ t.session = s /\ t.class = "request" /\ t.at = x
      /\ t.token = token /\ t \in Object
  BY <1>3, <1>7 DEF Thing, Object
<1> QED
  BY <1>2, <1>3, <1>5, <1>6, <1>7, <1>8, ContextAdded

(* What is known of an object that may be copied with its context.         *)
LEMMA Original ==
  ASSUME Inv, NEW o \in Live, NEW class \in {"certificate", "request"},
         Copyable(o, class), objects[o].at # None
  PROVE  /\ objects[o] \in Object /\ objects[o].session \in open
         /\ objects[o].class = class
         /\ objects[o].at \in Contexts
         /\ certs[objects[o].at] # None
         /\ certs[objects[o].at] \in Context
         /\ OwnLink(certs[objects[o].at], keys)
<1>1. Backed(objects[o], keys, certs, open) /\ objects[o].class = class /\ objects[o].at # None
  BY DEF Copyable, Inv, ObjectsFit, Live
<1>2. objects[o].at \in Contexts /\ certs[objects[o].at] # None
  BY <1>1 DEF Backed
<1> QED
  BY <1>1, <1>2 DEF Backed, Inv, CertsFit

(* A copy that has the context of its original, or none.                   *)
LEMMA PlainCopySound ==
  ASSUME Inv, NEW o \in Live, NEW n \in Objects \ Live, NEW t \in Object,
         t.session = objects[o].session, t.class = objects[o].class, t.class # "key",
         t.at \in {objects[o].at, None},
         Adds(n, t), certs' = certs, keys' = keys, exports' = exports, open' = open
  PROVE  Sound
<1>1. Backed(objects[o], keys, certs, open)
  BY DEF Inv, ObjectsFit, Live
<1>2. Backed(t, keys', certs', open)
  BY <1>1 DEF Backed
<1>3. KeysFit' /\ CertsFit' /\ Grows
  BY DEF Inv, KeysFit, CertsFit, Grows
<1> QED
  BY <1>2, <1>3, ObjectAdded, SameStores DEF Sound

LEMMA CopyRequestSound ==
  ASSUME Inv, NEW o \in Live, NEW n \in Objects \ Live, NEW asked \in BOOLEAN,
         CopyRequest(o, n, asked)
  PROVE  Sound
<1>1. PICK old : old = objects[o]
  OBVIOUS
<1>2. old \in Object /\ old.session \in open /\ old.class = "request"
  BY <1>1 DEF CopyRequest, Copyable, Inv, ObjectsFit, Live, Backed
<1>3. keys' = keys /\ exports' = exports /\ open' = open
  BY DEF CopyRequest
<1>4. CASE asked
  <2>1. PICK x \in Contexts :
          /\ old.at # None /\ FreshContext(x)
          /\ Adds(n, [old EXCEPT !.token = TRUE, !.at = x])
          /\ certs' = [certs EXCEPT ![x] = [certs[old.at] EXCEPT !.where = "store"]]
    BY <1>1, <1>4 DEF CopyRequest
  <2>2. PICK r : r = [certs[old.at] EXCEPT !.where = "store"]
    OBVIOUS
  <2>3. certs[old.at] \in Context /\ OwnLink(certs[old.at], keys)
    BY <1>1, <2>1, Original DEF CopyRequest
  <2>4. r \in Context /\ OwnLink(r, keys)
    BY <2>2, <2>3, Rehoused
  <2>5. PICK t : t = [old EXCEPT !.token = TRUE, !.at = x]
    OBVIOUS
  <2>6. /\ t \in Object /\ t.session = old.session /\ t.class = "request"
        /\ t.at = x /\ t.token
    BY <1>2, <2>5 DEF Object
  <2> QED
    BY <1>2, <1>3, <2>1, <2>2, <2>4, <2>5, <2>6, ContextAdded
<1>5. CASE ~asked
  <2>1. PICK token \in {FALSE, old.token} : Adds(n, [old EXCEPT !.token = token, !.at = None])
    BY <1>1, <1>5 DEF CopyRequest
  <2>2. certs' = certs
    BY <1>5 DEF CopyRequest
  <2>3. token \in BOOLEAN
    BY <1>2, <2>1 DEF Object
  <2>4. PICK t : t = [old EXCEPT !.token = token, !.at = None]
    OBVIOUS
  <2>5. /\ t \in Object /\ t.session = old.session /\ t.class = "request" /\ t.at = None
    BY <1>2, <2>3, <2>4 DEF Object
  <2> QED
    BY <1>1, <1>2, <1>3, <2>1, <2>2, <2>4, <2>5, PlainCopySound
<1> QED
  BY <1>4, <1>5

LEMMA CopyCertificateSound ==
  ASSUME Inv, NEW o \in Live, NEW n \in Objects \ Live, NEW asked \in BOOLEAN,
         CopyCertificate(o, n, asked)
  PROVE  Sound
<1>1. PICK old : old = objects[o]
  OBVIOUS
<1>2. /\ old \in Object /\ old.session \in open /\ old.class = "certificate"
      /\ old.at \in Contexts /\ certs[old.at] # None
      /\ certs[old.at] \in Context /\ OwnLink(certs[old.at], keys)
  BY <1>1, Original DEF CopyCertificate
<1>3. keys' = keys /\ exports' = exports /\ open' = open
  BY DEF CopyCertificate
<1>4. CASE asked
  <2>1. PICK x \in Contexts : \E r \in Linkings(certs[old.at]) :
          /\ FreshContext(x)
          /\ Adds(n, [old EXCEPT !.token = TRUE, !.at = x])
          /\ certs' = [certs EXCEPT ![old.at] = r, ![x] = [r EXCEPT !.where = "store"]]
    BY <1>1, <1>4 DEF CopyCertificate
  <2>2. PICK r \in Linkings(certs[old.at]) :
          certs' = [certs EXCEPT ![old.at] = r, ![x] = [r EXCEPT !.where = "store"]]
    BY <2>1
  <2>3. r \in Context /\ OwnLink(r, keys) /\ r.where = certs[old.at].where
    BY <1>2, Relinked
  <2>4. PICK q : q = [r EXCEPT !.where = "store"]
    OBVIOUS
  <2>5. q \in Context /\ OwnLink(q, keys)
    BY <2>3, <2>4, Rehoused
  <2>6. /\ certs[x] = None /\ x # old.at
        /\ certs \in [Contexts -> Context \cup {None}]
        /\ r # None /\ q # None /\ x # None
    BY <1>2, <2>1, <2>3, <2>5, NoneAssumption, MarksAssumption
    DEF FreshContext, Inv, CertsFit
  <2>7. /\ certs' \in [Contexts -> Context \cup {None}]
        /\ certs'[x] = q /\ certs'[old.at] = r
        /\ \A y \in Contexts \ {x, old.at} : certs'[y] = certs[y]
    BY <1>2, <2>2, <2>3, <2>4, <2>5, <2>6
  <2>8. CertsFit' /\ KeysFit' /\ Grows
    BY <1>3, <2>3, <2>5, <2>6, <2>7 DEF Inv, CertsFit, KeysFit, Grows
  <2>9. PICK t : t = [old EXCEPT !.token = TRUE, !.at = x]
    OBVIOUS
  <2>10. /\ t \in Object /\ t.session = old.session /\ t.class = "certificate"
         /\ t.at = x /\ t.token
    BY <1>2, <2>9 DEF Object
  <2>11. Backed(t, keys', certs', open)
    BY <1>2, <2>6, <2>7, <2>10 DEF Backed
  <2>12. /\ Inv' /\ objects[n] = None /\ objects'[n] = t /\ t # None
         /\ \A m \in Objects \ {n} : objects'[m] = objects[m]
    BY <1>3, <2>1, <2>8, <2>9, <2>11, ObjectAdded
  <2>13. StaysOut
    BY <2>10, <2>12 DEF StaysOut
  <2>14. Stored(certs') \subseteq Stored(certs) \cup {x}
    BY <1>2, <2>3, <2>6, <2>7 DEF Stored
  <2>15. WithObject
    BY <2>10, <2>12, <2>14 DEF WithObject
  <2> QED
    BY <2>12, <2>13, <2>15 DEF Sound
<1>5. CASE ~asked
  <2>1. PICK token \in {FALSE, old.token} : Adds(n, [old EXCEPT !.token = token])
    BY <1>1, <1>5 DEF CopyCertificate
  <2>2. certs' = certs
    BY <1>5 DEF CopyCertificate
  <2>3. token \in BOOLEAN
    BY <1>2, <2>1 DEF Object
  <2>4. PICK t : t = [old EXCEPT !.token = token]
    OBVIOUS
  <2>5. /\ t \in Object /\ t.session = old.session /\ t.class = "certificate"
        /\ t.at = old.at
    BY <1>2, <2>3, <2>4 DEF Object
  <2> QED
    BY <1>1, <1>2, <1>3, <2>1, <2>2, <2>4, <2>5, PlainCopySound
<1> QED
  BY <1>4, <1>5

LEMMA CopyCertificateFailsSound ==
  ASSUME Inv, NEW o \in Live, CopyCertificateFails(o)
  PROVE  Sound
<1>1. PICK at : at = objects[o].at
  OBVIOUS
<1>2. at \in Contexts /\ certs[at] # None /\ certs[at] \in Context /\ OwnLink(certs[at], keys)
  BY <1>1, Original DEF CopyCertificateFails
<1>3. PICK r \in Linkings(certs[at]) : certs' = [certs EXCEPT ![at] = r]
  BY <1>1 DEF CopyCertificateFails
<1>4. keys' = keys /\ exports' = exports /\ open' = open /\ objects' = objects
  BY DEF CopyCertificateFails
<1>5. r \in Context /\ OwnLink(r, keys) /\ r.where = certs[at].where /\ r # None
  BY <1>2, Relinked, NoneAssumption
<1>6. /\ certs' \in [Contexts -> Context \cup {None}]
      /\ certs'[at] = r /\ \A y \in Contexts \ {at} : certs'[y] = certs[y]
  BY <1>2, <1>3, <1>5 DEF Inv, CertsFit
<1>7. CertsFit' /\ KeysFit' /\ Grows
  BY <1>4, <1>5, <1>6 DEF Inv, CertsFit, KeysFit, Grows
<1>8. Stored(certs') \subseteq Stored(certs)
  BY <1>2, <1>5, <1>6 DEF Stored
<1> QED
  BY <1>4, <1>7, <1>8, NothingAdded DEF Sound, WithObject

-----------------------------------------------------------------------------
(* Keys.                                                                   *)

LEMMA CreateRequestFailsSound ==
  ASSUME Inv, NEW s \in open, CreateRequestFails(s)
  PROVE  Sound
<1>1. PICK c \in Containers, p \in Pairs : FreshContainer(c) /\ keys' = [keys EXCEPT ![c] = p]
  BY DEF CreateRequestFails
<1>2. exports' = exports /\ certs' = certs /\ open' = open /\ objects' = objects
  BY DEF CreateRequestFails
<1>3. /\ c \notin exports
      /\ keys' \in [Containers -> Pairs \cup {None}]
      /\ \A d \in Containers \ {c} : keys'[d] = keys[d]
      /\ \A d \in Containers : keys'[d] = keys[d] \/ FreshContainer(d)
      /\ \A x \in Contexts : certs[x] # None => OwnLink(certs[x], keys')
  BY <1>1, Placed
<1>4. KeysFit' /\ CertsFit' /\ Grows
  BY <1>2, <1>3 DEF Inv, KeysFit, CertsFit, Grows
<1> QED
  BY <1>2, <1>4, NothingAdded DEF Sound, WithObject

LEMMA GenerateKeyPairFailsSound ==
  ASSUME Inv, NEW s \in open, NEW ext \in BOOLEAN, GenerateKeyPairFails(s, ext)
  PROVE  Sound
<1>1. PICK c \in Containers, p \in Pairs : Declarable(p, ext) /\ Persists(c, p, ext)
  BY DEF GenerateKeyPairFails
<1>2. certs' = certs /\ open' = open /\ objects' = objects
  BY DEF GenerateKeyPairFails
<1>3. FreshContainer(c) /\ keys' = [keys EXCEPT ![c] = p]
  BY <1>1 DEF Persists
<1>4. KeysFit' /\ CertsFit' /\ Grows
  BY <1>1, <1>2, <1>3, Placed, Persisted DEF Inv, CertsFit, Grows
<1> QED
  BY <1>2, <1>4, NothingAdded DEF Sound, WithObject

(* A key object in memory: the stores stay as they are.                    *)
LEMMA MemoryKeyAdded ==
  ASSUME Inv, NEW o \in Objects \ Live, NEW t \in Object, t.session \in open,
         t.class = "key", t.at = Memory, Adds(o, t),
         keys' = keys, exports' = exports, certs' = certs, open' = open
  PROVE  Sound
<1>1. Backed(t, keys', certs', open)
  BY MarksAssumption DEF Backed
<1>2. KeysFit' /\ CertsFit' /\ Grows
  BY DEF Inv, KeysFit, CertsFit, Grows
<1> QED
  BY <1>1, <1>2, ObjectAdded, SameStores DEF Sound

(* A key object of a new container.                                        *)
LEMMA StoredKeyAdded ==
  ASSUME Inv, NEW o \in Objects \ Live, NEW t \in Object, t.session \in open,
         t.class = "key", t.token, NEW c \in Containers, t.at = c, keys'[c] = t.pair,
         KeysFit', CertsFit', Grows, Stored(certs') \subseteq Stored(certs),
         Adds(o, t), open' = open
  PROVE  Sound
<1>1. Backed(t, keys', certs', open)
  BY DEF Backed
<1>2. /\ Inv' /\ objects'[o] = t
      /\ \A n \in Objects \ {o} : objects'[n] = objects[n]
  BY <1>1, ObjectAdded
<1> QED
  BY <1>2 DEF Sound, StaysOut, WithObject

LEMMA GenerateKeyPairSound ==
  ASSUME Inv, NEW s \in open, NEW o \in Objects \ Live, NEW token \in BOOLEAN,
         NEW ext \in BOOLEAN, GenerateKeyPair(s, o, token, ext)
  PROVE  Sound
<1>1. PICK p \in Pairs :
        /\ Declarable(p, ext)
        /\ \/ ~token /\ InMemory /\ Adds(o, Thing(s, "key", p, FALSE, Memory))
           \/ token /\ \E c \in Containers :
                Persists(c, p, ext) /\ Adds(o, Thing(s, "key", p, TRUE, c))
  BY DEF GenerateKeyPair
<1>2. certs' = certs /\ open' = open /\ s \in Sessions
  BY DEF GenerateKeyPair, Inv, ObjectsFit
<1>3. CASE ~token
  <2>1. PICK t : t = Thing(s, "key", p, FALSE, Memory)
    OBVIOUS
  <2>2. t \in Object /\ t.session = s /\ t.class = "key" /\ t.at = Memory
    BY <1>2, <2>1 DEF Thing, Object
  <2>3. Adds(o, t) /\ keys' = keys /\ exports' = exports
    BY <1>1, <1>3, <2>1 DEF InMemory
  <2> QED
    BY <1>2, <2>2, <2>3, MemoryKeyAdded
<1>4. CASE token
  <2>1. PICK c \in Containers : Persists(c, p, ext) /\ Adds(o, Thing(s, "key", p, TRUE, c))
    BY <1>1, <1>4
  <2>2. PICK t : t = Thing(s, "key", p, TRUE, c)
    OBVIOUS
  <2>3. /\ t \in Object /\ t.session = s /\ t.class = "key" /\ t.at = c
        /\ t.pair = p /\ t.token
    BY <1>2, <2>2 DEF Thing, Object
  <2>4. FreshContainer(c) /\ keys' = [keys EXCEPT ![c] = p]
    BY <2>1 DEF Persists
  <2>5. KeysFit' /\ CertsFit' /\ Grows /\ keys'[c] = p
    BY <1>1, <1>2, <2>1, <2>4, Placed, Persisted DEF Inv, CertsFit, Grows
  <2> QED
    BY <1>2, <2>1, <2>2, <2>3, <2>5, StoredKeyAdded
<1> QED
  BY <1>3, <1>4

(* LinkKeyToCertificate only links certificates of the new key.            *)
LEMMA LinkedFits ==
  ASSUME Inv, NEW c, NEW p \in Pairs \cup {None}, FreshContainer(c),
         keys' = [keys EXCEPT ![c] = p], certs' \in KeyLinkings(c, p)
  PROVE  CertsFit' /\ Grows /\ Stored(certs') \subseteq Stored(certs)
<1>1. PICK linked \in SUBSET {x \in Stored(certs) : certs[x].kind = "certificate"
                                 /\ certs[x].link = None /\ certs[x].pair = p} :
        certs' = [x \in Contexts |-> IF x \in linked THEN [certs[x] EXCEPT !.link = c]
                                                     ELSE certs[x]]
  BY DEF KeyLinkings
<1>2. /\ c \in Containers /\ keys'[c] = p
      /\ \A d \in Containers : keys'[d] = keys[d] \/ FreshContainer(d)
      /\ \A x \in Contexts : certs[x] # None => OwnLink(certs[x], keys')
  BY Placed
<1>3. ASSUME NEW x \in Contexts, x \in linked
      PROVE  /\ certs'[x] \in Context /\ certs'[x] # None
             /\ OwnLink(certs'[x], keys')
             /\ x \in Stored(certs)
  <2>1. x \in Stored(certs) /\ certs[x].pair = p /\ certs[x] \in Context
    BY <1>3 DEF Stored, Inv, CertsFit
  <2>2. PICK r : r = [certs[x] EXCEPT !.link = c]
    OBVIOUS
  <2>3. r \in Context /\ r.link = c /\ r.pair = p
    BY <1>2, <2>1, <2>2 DEF Context
  <2>4. certs'[x] = r
    BY <1>1, <1>3, <2>2
  <2> QED
    BY <1>2, <2>1, <2>3, <2>4, NoneAssumption DEF OwnLink
<1>4. \A x \in Contexts : x \notin linked => certs'[x] = certs[x]
  BY <1>1
<1>5. certs \in [Contexts -> Context \cup {None}]
  BY DEF Inv, CertsFit
<1>6. certs' \in [Contexts -> Context \cup {None}]
  <2>1. \A x \in Contexts : certs'[x] \in Context \cup {None}
    BY <1>3, <1>4, <1>5
  <2>2. certs' = [x \in Contexts |-> certs'[x]]
    BY <1>1
  <2> QED
    BY <2>1, <2>2
<1>7. CertsFit'
  BY <1>2, <1>3, <1>4, <1>6 DEF CertsFit
<1>8. Grows
  BY <1>2, <1>3, <1>4 DEF Grows
<1>9. Stored(certs') \subseteq Stored(certs)
  BY <1>3, <1>4 DEF Stored
<1> QED
  BY <1>7, <1>8, <1>9

LEMMA CopyKeySound ==
  ASSUME Inv, NEW o \in Live, NEW n \in Objects \ Live, NEW token \in BOOLEAN,
         NEW ext \in BOOLEAN, CopyKey(o, n, token, ext)
  PROVE  Sound
<1>1. PICK old : old = objects[o]
  OBVIOUS
<1>2. /\ old \in Object /\ old.session \in open /\ old.class = "key"
      /\ old.pair \in Pairs \cup {None} /\ Declarable(old.pair, ext)
  BY <1>1 DEF CopyKey, Copyable, Inv, ObjectsFit, Live, Backed, Object
<1>3. open' = open
  BY DEF CopyKey
<1>4. CASE ~token
  <2>1. /\ keys' = keys /\ exports' = exports /\ certs' = certs
        /\ Adds(n, [[old EXCEPT !.token = token] EXCEPT !.at = Memory])
    BY <1>1, <1>4 DEF CopyKey, InMemory
  <2>2. PICK t : t = [[old EXCEPT !.token = token] EXCEPT !.at = Memory]
    OBVIOUS
  <2>3. t \in Object /\ t.session = old.session /\ t.class = "key" /\ t.at = Memory
    BY <1>2, <2>2 DEF Object
  <2> QED
    BY <1>2, <1>3, <2>1, <2>2, <2>3, MemoryKeyAdded
<1>5. CASE token
  <2>1. PICK c \in Containers :
          /\ Persists(c, old.pair, ext)
          /\ certs' \in KeyLinkings(c, old.pair)
          /\ Adds(n, [[old EXCEPT !.token = token] EXCEPT !.at = c])
    BY <1>1, <1>5 DEF CopyKey
  <2>2. PICK t : t = [[old EXCEPT !.token = token] EXCEPT !.at = c]
    OBVIOUS
  <2>3. /\ t \in Object /\ t.session = old.session /\ t.class = "key" /\ t.at = c
        /\ t.pair = old.pair /\ t.token
    BY <1>2, <1>5, <2>2 DEF Object
  <2>4. FreshContainer(c) /\ keys' = [keys EXCEPT ![c] = old.pair]
    BY <2>1 DEF Persists
  <2>5. KeysFit' /\ keys'[c] = old.pair
    BY <1>2, <2>1, <2>4, Placed, Persisted
  <2>6. CertsFit' /\ Grows /\ Stored(certs') \subseteq Stored(certs)
    BY <1>2, <2>1, <2>4, LinkedFits
  <2> QED
    BY <1>2, <1>3, <2>1, <2>2, <2>3, <2>5, <2>6, StoredKeyAdded
<1> QED
  BY <1>4, <1>5

LEMMA CopyKeyFailsSound ==
  ASSUME Inv, NEW o \in Live, NEW ext \in BOOLEAN, CopyKeyFails(o, ext)
  PROVE  Sound
<1>1. PICK p : p = objects[o].pair
  OBVIOUS
<1>2. p \in Pairs \cup {None} /\ Declarable(p, ext)
  BY <1>1 DEF CopyKeyFails, Inv, ObjectsFit, Live, Backed, Object
<1>3. open' = open /\ objects' = objects
  BY DEF CopyKeyFails
<1>4. PICK c \in Containers : Persists(c, p, ext) /\ certs' \in KeyLinkings(c, p)
  BY <1>1 DEF CopyKeyFails
<1>5. FreshContainer(c) /\ keys' = [keys EXCEPT ![c] = p]
  BY <1>4 DEF Persists
<1>6. KeysFit'
  BY <1>2, <1>4, Persisted
<1>7. CertsFit' /\ Grows /\ Stored(certs') \subseteq Stored(certs)
  BY <1>2, <1>4, <1>5, LinkedFits
<1> QED
  BY <1>3, <1>6, <1>7, NothingAdded DEF Sound, WithObject

-----------------------------------------------------------------------------
LEMMA NextSound == Inv /\ [Next]_vars => Sound
<1> SUFFICES ASSUME Inv, [Next]_vars PROVE Sound
  OBVIOUS
<1>1. ASSUME NEW s \in Sessions, OpenSession(s) PROVE Sound
  BY <1>1, OpenSessionSound
<1>2. ASSUME NEW s \in open,
             \/ CloseSession(s) \/ CreateRequestFails(s)
             \/ \E ext \in BOOLEAN : GenerateKeyPairFails(s, ext)
             \/ \E o \in Objects \ Live, token \in BOOLEAN :
                  \/ CreateRequest(s, o, token)
                  \/ \E p \in Pairs : CreateCertificate(s, o, p, token)
                  \/ \E ext \in BOOLEAN : GenerateKeyPair(s, o, token, ext)
      PROVE  Sound
  BY <1>2, CloseSessionSound, CreateRequestFailsSound, GenerateKeyPairFailsSound,
     CreateRequestSound, CreateCertificateSound, GenerateKeyPairSound
<1>3. ASSUME NEW o \in Live,
             \/ CopyCertificateFails(o) \/ DestroyStored(o)
             \/ DestroyStoredFails(o) \/ DestroyKey(o)
             \/ \E ext \in BOOLEAN : CopyKeyFails(o, ext)
             \/ \E n \in Objects \ Live, token \in BOOLEAN :
                  \/ CopyCertificate(o, n, token) \/ CopyRequest(o, n, token)
                  \/ \E ext \in BOOLEAN : CopyKey(o, n, token, ext)
      PROVE  Sound
  BY <1>3, CopyCertificateFailsSound, DestroyStoredSound, DestroyStoredFailsSound,
     DestroyKeySound, CopyKeyFailsSound, CopyCertificateSound, CopyRequestSound,
     CopyKeySound
<1>4. CASE UNCHANGED vars
  <2>1. Inv'
    BY <1>4 DEF vars, Inv, KeysFit, CertsFit, ObjectsFit
  <2> QED
    BY <1>4, <2>1, SameStores DEF vars, Sound
<1> QED
  BY <1>1, <1>2, <1>3, <1>4 DEF Next

LEMMA InvHolds == Spec => []Inv
<1>1. Inv /\ [Next]_vars => Inv'
  BY NextSound DEF Sound
<1> QED
  BY <1>1, InitInv, PTL DEF Spec

(* Stores, sessions and objects fit together: what an object stands for    *)
(* was there when it was made, and belongs to an open session.             *)
THEOREM TypeCorrect == Spec => []TypeOK
<1>1. Inv => TypeOK
  BY InvIsEnough
<1> QED
  BY <1>1, InvHolds, PTL

(* A stored certificate names the container of its own key or one that is  *)
(* gone (AddToMyStorage, LinkKeyToCertificate).                            *)
THEOREM LinksAreOwn == Spec => []LinksNameOwnKey
<1>1. Inv => LinksNameOwnKey
  BY InvIsEnough
<1> QED
  BY <1>1, InvHolds, PTL

(* Copying a key into a container does not make it exportable, although    *)
(* keys in memory always are (CopyKey, NCRYPT_EXPORT_POLICY_PROPERTY).     *)
THEOREM ExportsAreDeclared == Spec => []ExportOnlyIfExtractable
<1>1. Inv => ExportOnlyIfExtractable
  BY InvIsEnough
<1> QED
  BY <1>1, InvHolds, PTL

(* A key object never comes to stand for another key, however long ago its *)
(* session was opened (Session::Open, ObjectKey::DestroyKey).              *)
THEOREM KeysStayBacked == Spec => []TokensBacked
<1>1. Inv => TokensBacked
  BY InvIsEnough
<1> QED
  BY <1>1, InvHolds, PTL

(* Making what is not a token object leaves the stores as they are.        *)
THEOREM SessionObjectsAreOut == Spec => SessionObjectsStayOut
<1>1. Inv /\ [Next]_vars =>
        [\A o \in Objects :
           objects[o] = None /\ objects'[o] # None /\ ~objects'[o].token =>
             keys' = keys
             /\ \A x \in Stored(certs) \cup Stored(certs') : certs'[x] = certs[x]]_vars
  BY NextSound DEF Sound, StaysOut
<1> QED
  BY <1>1, InvHolds, PTL DEF Spec, SessionObjectsStayOut

(* No failing call leaves a certificate or a request in the stores.        *)
THEOREM NothingStoredAlone == Spec => StoredWithObject
<1>1. Inv /\ [Next]_vars =>
        [\A x \in Stored(certs') \ Stored(certs) :
           \E o \in Objects :
             objects[o] = None /\ objects'[o] # None /\ objects'[o].at = x]_vars
  BY NextSound DEF Sound, WithObject
<1> QED
  BY <1>1, InvHolds, PTL DEF Spec, StoredWithObject
-----------------------------------------------------------------------------
(* What leaves the stores.                                                 *)

(* A step that takes nothing out of the stores.                            *)
KeepsStores ==
  /\ Stored(certs) \subseteq Stored(certs')
  /\ \A c \in Held : keys'[c] = keys[c]

LostCertificates ==
  \A x \in Stored(certs) \ Stored(certs') :
    \E o \in Live : /\ objects'[o] = None /\ open' = open
                    /\ objects[o].class # "key" /\ objects[o].at = x

LostKeys ==
  \A c \in Held : keys'[c] # keys[c] =>
    \E o \in Live : /\ objects'[o] = None /\ open' = open
                    /\ objects[o].class = "key" /\ objects[o].at = c
                    /\ objects[o].pair = keys[c]

(* Of the stores, only the places change that nothing was in.              *)
LEMMA FreshContextKeeps ==
  ASSUME Inv, NEW x, FreshContext(x), NEW r, certs' = [certs EXCEPT ![x] = r]
  PROVE  Stored(certs) \subseteq Stored(certs')
<1>1. \A y \in Contexts : certs[y] # None => certs'[y] = certs[y]
  BY DEF FreshContext, Inv, CertsFit
<1> QED
  BY <1>1 DEF Stored

LEMMA FreshContainerKeeps ==
  ASSUME Inv, NEW c, FreshContainer(c), NEW p, keys' = [keys EXCEPT ![c] = p]
  PROVE  \A d \in Held : keys'[d] = keys[d]
BY DEF FreshContainer, Held, Inv, KeysFit

LEMMA KeptKeepsStored ==
  ASSUME NEW cs, NEW os
  PROVE  Stored(cs) \subseteq Stored(Kept(cs, os))
BY DEF Stored, Kept, Used

(* Links are changed where the certificates are.                           *)
LEMMA LinkingKeeps ==
  ASSUME Inv, NEW c, NEW p \in Pairs \cup {None}, NEW ext, Persists(c, p, ext),
         certs' \in KeyLinkings(c, p)
  PROVE  KeepsStores
<1>1. FreshContainer(c) /\ keys' = [keys EXCEPT ![c] = p]
  BY DEF Persists
<1>2. Grows
  BY <1>1, LinkedFits
<1>3. ASSUME NEW x \in Stored(certs)
      PROVE  x \in Stored(certs')
  <2>1. /\ x \in Contexts /\ certs[x] # None /\ certs[x].where = "store"
        /\ certs[x] \in Context
    BY <1>3 DEF Stored, Inv, CertsFit
  <2>2. [certs[x] EXCEPT !.link = c].where = "store"
    BY <2>1 DEF Context
  <2>3. certs'[x] \in {certs[x], [certs[x] EXCEPT !.link = c]}
    BY <2>1 DEF KeyLinkings
  <2>4. certs'[x] # None
    BY <1>2, <2>1 DEF Grows
  <2> QED
    BY <2>1, <2>2, <2>3, <2>4 DEF Stored
<1> QED
  BY <1>1, <1>3, FreshContainerKeeps DEF KeepsStores

LEMMA RelinkingKeeps ==
  ASSUME Inv, NEW at \in Contexts, certs[at] # None,
         NEW r \in Linkings(certs[at]),
         \A y \in Contexts \ {at} : certs[y] # None => certs'[y] = certs[y],
         certs'[at] = r
  PROVE  Stored(certs) \subseteq Stored(certs')
<1>1. certs[at] \in Context /\ OwnLink(certs[at], keys)
  BY DEF Inv, CertsFit
<1>2. r # None /\ r.where = certs[at].where
  BY <1>1, Relinked, NoneAssumption
<1> QED
  BY <1>2 DEF Stored

LEMMA CopyCertificateKeeps ==
  ASSUME Inv, NEW o \in Live,
         \/ CopyCertificateFails(o)
         \/ \E n \in Objects \ Live, asked \in BOOLEAN : CopyCertificate(o, n, asked)
  PROVE  KeepsStores
<1>1. PICK at : at = objects[o].at
  OBVIOUS
<1>2. at \in Contexts /\ certs[at] # None /\ certs \in [Contexts -> Context \cup {None}]
  BY <1>1, Original DEF CopyCertificateFails, CopyCertificate, Inv, CertsFit
<1>3. keys' = keys
  BY DEF CopyCertificateFails, CopyCertificate
<1>4. CASE CopyCertificateFails(o)
  <2>1. PICK r \in Linkings(certs[at]) : certs' = [certs EXCEPT ![at] = r]
    BY <1>1, <1>4 DEF CopyCertificateFails
  <2>2. certs'[at] = r /\ \A y \in Contexts \ {at} : certs'[y] = certs[y]
    BY <1>2, <2>1
  <2> QED
    BY <1>2, <1>3, <2>2, RelinkingKeeps DEF KeepsStores
<1>5. ASSUME NEW n \in Objects \ Live, CopyCertificate(o, n, TRUE)
      PROVE  KeepsStores
  <2>1. PICK x \in Contexts, r \in Linkings(certs[at]) :
          /\ FreshContext(x)
          /\ certs' = [certs EXCEPT ![at] = r, ![x] = [r EXCEPT !.where = "store"]]
    BY <1>1, <1>5 DEF CopyCertificate
  <2>2. certs[x] = None /\ x # at
    BY <1>2, <2>1 DEF FreshContext
  <2>3. certs'[at] = r /\ \A y \in Contexts \ {at, x} : certs'[y] = certs[y]
    BY <1>2, <2>1, <2>2
  <2> QED
    BY <1>2, <1>3, <2>2, <2>3, RelinkingKeeps DEF KeepsStores
<1>6. ASSUME NEW n \in Objects \ Live, CopyCertificate(o, n, FALSE)
      PROVE  KeepsStores
  BY <1>3, <1>6 DEF CopyCertificate, KeepsStores
<1> QED
  BY <1>4, <1>5, <1>6

LEMMA MakingKeeps ==
  ASSUME Inv, NEW s \in open,
         \/ CreateRequestFails(s)
         \/ \E ext \in BOOLEAN : GenerateKeyPairFails(s, ext)
         \/ \E o \in Objects \ Live, token \in BOOLEAN :
              \/ CreateRequest(s, o, token)
              \/ \E p \in Pairs : CreateCertificate(s, o, p, token)
              \/ \E ext \in BOOLEAN : GenerateKeyPair(s, o, token, ext)
  PROVE  KeepsStores
<1>1. ASSUME keys' = keys, NEW x, FreshContext(x), NEW r, certs' = [certs EXCEPT ![x] = r]
      PROVE  KeepsStores
  BY <1>1, FreshContextKeeps DEF KeepsStores
<1>2. ASSUME certs' = certs, NEW c, FreshContainer(c), NEW p, keys' = [keys EXCEPT ![c] = p]
      PROVE  KeepsStores
  BY <1>2, FreshContainerKeeps DEF KeepsStores
<1>3. CASE CreateRequestFails(s)
  BY <1>2, <1>3 DEF CreateRequestFails
<1>4. ASSUME NEW ext \in BOOLEAN, GenerateKeyPairFails(s, ext)
      PROVE  KeepsStores
  BY <1>2, <1>4 DEF GenerateKeyPairFails, Persists
<1>5. ASSUME NEW o, NEW token, CreateRequest(s, o, token)
      PROVE  KeepsStores
  BY <1>1, <1>5 DEF CreateRequest
<1>6. ASSUME NEW o, NEW token, NEW p, CreateCertificate(s, o, p, token)
      PROVE  KeepsStores
  BY <1>1, <1>6 DEF CreateCertificate
<1>7. ASSUME NEW o, NEW token, NEW ext, GenerateKeyPair(s, o, token, ext)
      PROVE  KeepsStores
  <2>1. certs' = certs
    BY <1>7 DEF GenerateKeyPair
  <2>2. CASE keys' = keys
    BY <2>1, <2>2 DEF KeepsStores
  <2>3. CASE \E p \in Pairs, c \in Containers : Persists(c, p, ext)
    BY <1>2, <2>1, <2>3 DEF Persists
  <2> QED
    BY <1>7, <2>2, <2>3 DEF GenerateKeyPair, InMemory
<1> QED
  BY <1>3, <1>4, <1>5, <1>6, <1>7

LEMMA CopyingKeeps ==
  ASSUME Inv, NEW o \in Live,
         \/ \E ext \in BOOLEAN : CopyKeyFails(o, ext)
         \/ \E n \in Objects \ Live, token \in BOOLEAN :
              \/ CopyRequest(o, n, token)
              \/ \E ext \in BOOLEAN : CopyKey(o, n, token, ext)
  PROVE  KeepsStores
<1>1. objects[o].pair \in Pairs \cup {None}
  BY DEF Inv, ObjectsFit, Live, Backed, Object
<1>2. ASSUME NEW c, NEW ext, Persists(c, objects[o].pair, ext),
             certs' \in KeyLinkings(c, objects[o].pair)
      PROVE  KeepsStores
  BY <1>1, <1>2, LinkingKeeps
<1>3. ASSUME NEW ext, CopyKeyFails(o, ext)
      PROVE  KeepsStores
  BY <1>2, <1>3 DEF CopyKeyFails
<1>4. ASSUME NEW n, NEW token, CopyRequest(o, n, token)
      PROVE  KeepsStores
  BY <1>4, FreshContextKeeps DEF CopyRequest, KeepsStores
<1>5. ASSUME NEW n, NEW token, NEW ext, CopyKey(o, n, token, ext)
      PROVE  KeepsStores
  <2>1. CASE keys' = keys /\ certs' = certs
    BY <2>1 DEF KeepsStores
  <2>2. CASE \E c \in Containers : /\ Persists(c, objects[o].pair, ext)
                                   /\ certs' \in KeyLinkings(c, objects[o].pair)
    BY <1>2, <2>2
  <2> QED
    BY <1>5, <2>1, <2>2 DEF CopyKey, InMemory
<1> QED
  BY <1>3, <1>4, <1>5

LEMMA SessionsKeep ==
  ASSUME NEW s, OpenSession(s) \/ CloseSession(s)
  PROVE  KeepsStores
<1>1. keys' = keys /\ (certs' = certs \/ certs' = Kept(certs, objects'))
  BY DEF OpenSession, CloseSession
<1> QED
  BY <1>1, KeptKeepsStored DEF KeepsStores

(* Destroying takes away what the object had, and it is what the object    *)
(* was made for.                                                           *)
LEMMA DestroyStoredLoses ==
  ASSUME Inv, NEW o \in Live, DestroyStored(o) \/ DestroyStoredFails(o)
  PROVE  LostCertificates /\ LostKeys
<1>1. keys' = keys /\ open' = open /\ objects[o].class # "key"
  BY DEF DestroyStored, DestroyStoredFails
<1>2. CASE DestroyStored(o)
  <2>1. PICK at : at = objects[o].at
    OBVIOUS
  <2>2. PICK cs : /\ certs' = Kept(cs, objects')
                  /\ cs = IF certs[at].where = "store"
                          THEN [certs EXCEPT ![at].where = "deleted"] ELSE certs
    BY <1>2, <2>1 DEF DestroyStored
  <2>3. \A x \in Contexts \ {at} : cs[x] = certs[x]
    BY <2>2 DEF Inv, CertsFit
  <2>4. Stored(certs) \ {at} \subseteq Stored(cs)
    BY <2>3 DEF Stored
  <2>5. Stored(certs) \ {at} \subseteq Stored(certs')
    BY <2>2, <2>4, KeptKeepsStored
  <2>6. objects'[o] = None
    BY <1>2 DEF DestroyStored, Inv, ObjectsFit, Live
  <2> QED
    BY <1>1, <2>1, <2>5, <2>6 DEF LostCertificates, LostKeys
<1>3. CASE DestroyStoredFails(o)
  <2>1. certs' = Kept(certs, objects')
    BY <1>3 DEF DestroyStoredFails
  <2> QED
    BY <1>1, <2>1, KeptKeepsStored DEF LostCertificates, LostKeys
<1> QED
  BY <1>2, <1>3

LEMMA DestroyKeyLoses ==
  ASSUME Inv, NEW o \in Live, DestroyKey(o)
  PROVE  LostCertificates /\ LostKeys
<1>1. /\ certs' = certs /\ open' = open /\ objects[o].class = "key"
      /\ keys' = [d \in Containers |-> IF d = objects[o].at THEN None ELSE keys[d]]
      /\ objects'[o] = None
  BY DEF DestroyKey, Inv, ObjectsFit, Live
<1>2. ASSUME NEW c \in Held, keys'[c] # keys[c]
      PROVE  objects[o].at = c /\ objects[o].pair = keys[c]
  <2>1. c \in Containers /\ keys[c] # None /\ objects[o].at = c
    BY <1>1, <1>2 DEF Held
  <2>2. keys[c] \in {objects[o].pair, None}
    BY <1>1, <2>1 DEF Inv, ObjectsFit, Live, Backed
  <2> QED
    BY <2>1, <2>2
<1> QED
  BY <1>1, <1>2 DEF LostCertificates, LostKeys

LEMMA LossStep == Inv /\ [Next]_vars => LostCertificates /\ LostKeys
<1> SUFFICES ASSUME Inv, [Next]_vars PROVE LostCertificates /\ LostKeys
  OBVIOUS
<1>1. KeepsStores => LostCertificates /\ LostKeys
  BY DEF KeepsStores, LostCertificates, LostKeys
<1>2. CASE UNCHANGED vars
  BY <1>2 DEF vars, LostCertificates, LostKeys
<1> QED
  BY <1>1, <1>2, SessionsKeep, MakingKeeps, CopyCertificateKeeps, CopyingKeeps,
     DestroyStoredLoses, DestroyKeyLoses
  DEF Next

(* What leaves a store leaves it with its object: only the call that       *)
(* destroys an object takes something away, a certificate, a request, or   *)
(* the key that the object was made for, never that of another pair.  To   *)
(* open and close sessions, to create and copy, and to fail takes away     *)
(* nothing.                                                                *)
THEOREM NothingElseIsLost == Spec => LossesAreOwn
<1>1. Inv /\ [Next]_vars => [LostCertificates /\ LostKeys]_vars
  BY LossStep
<1> QED
  BY <1>1, InvHolds, PTL DEF Spec, LossesAreOwn, LostCertificates, LostKeys
-----------------------------------------------------------------------------
(* The finding about SessionDestroyKeepsStore, bounded.                    *)

(* Certificates and requests that are only session objects have contexts   *)
(* in no store,                                                            *)
SessionContext(t) == ~t.token /\ t.class # "key" /\ t.at # None

SessionContextsOut ==
  \A o \in Live : SessionContext(objects[o]) => objects[o].at \notin Stored(certs)

(* if none of them is made with the context of a token object.             *)
Apart ==
  \A o \in Objects \ Live, n \in Live :
    objects'[o] # None /\ SessionContext(objects'[o]) /\ objects[n].token
      => objects'[o].at # objects[n].at

(* Nothing that is in memory is stored: what is stored is a new context.   *)
StoresNew ==
  \A x \in Contexts : certs[x] # None /\ x \in Stored(certs') => x \in Stored(certs)

(* The context of a session object is the one it had, a new one that is    *)
(* not stored, or that of another object.                                  *)
ContextsCarried ==
  \A o \in Objects : objects'[o] # None /\ SessionContext(objects'[o]) =>
    \/ o \in Live /\ objects'[o] = objects[o]
    \/ objects'[o].at \notin Stored(certs')
    \/ \E n \in Live : /\ o \notin Live
                       /\ objects[n].class # "key" /\ objects[n].at = objects'[o].at

Carried == StoresNew /\ ContextsCarried

LEMMA ContextsStayOut ==
  ASSUME Inv, SessionContextsOut, Apart, Carried
  PROVE  SessionContextsOut'
<1> SUFFICES ASSUME NEW o \in Objects, objects'[o] # None, SessionContext(objects'[o]),
                    objects'[o].at \in Stored(certs')
             PROVE  FALSE
  BY DEF SessionContextsOut, Live, SessionContext
<1>1. ASSUME NEW n \in Live, SessionContext(objects[n]), objects[n].at = objects'[o].at
      PROVE  FALSE
  <2>1. objects[n].at \in Contexts /\ certs[objects[n].at] # None
    BY <1>1 DEF Inv, ObjectsFit, Live, Backed, SessionContext
  <2> QED
    BY <1>1, <2>1 DEF SessionContextsOut, Carried, StoresNew
<1>2. CASE o \in Live /\ objects'[o] = objects[o]
  BY <1>1, <1>2
<1>3. ASSUME o \notin Live,
             NEW n \in Live, objects[n].class # "key", objects[n].at = objects'[o].at
      PROVE  FALSE
  <2>1. ~objects[n].token
    BY <1>3 DEF Apart
  <2> QED
    BY <1>1, <1>3, <2>1 DEF SessionContext
<1> QED
  BY <1>2, <1>3 DEF Carried, ContextsCarried

(* One object more, with a context that is not stored or a token object.   *)
LEMMA OneMore ==
  ASSUME Inv, NEW o \in Objects \ Live, NEW t, Adds(o, t),
         SessionContext(t) =>
           \/ t.at \notin Stored(certs')
           \/ \E n \in Live : objects[n].class # "key" /\ objects[n].at = t.at
  PROVE  ContextsCarried
<1>1. objects'[o] = t /\ \A n \in Objects \ {o} : objects'[n] = objects[n]
  BY DEF Adds, Inv, ObjectsFit
<1> QED
  BY <1>1 DEF ContextsCarried, Live

LEMMA NoMore ==
  ASSUME \A o \in Objects : objects'[o] # None /\ SessionContext(objects'[o]) => objects'[o] = objects[o]
  PROVE  ContextsCarried
BY DEF ContextsCarried, Live

LEMMA KeptStoresNew ==
  ASSUME NEW cs, NEW os
  PROVE  Stored(Kept(cs, os)) \subseteq Stored(cs)
<1>1. \A x \in Contexts : Kept(cs, os)[x] \in {cs[x], None}
  BY DEF Kept
<1> QED
  BY <1>1 DEF Stored

LEMMA NewContextOnly ==
  ASSUME Inv, NEW x, FreshContext(x), NEW r, certs' = [certs EXCEPT ![x] = r]
  PROVE  /\ StoresNew
         /\ x \in Contexts /\ certs'[x] = r
<1>1. x \in Contexts /\ certs'[x] = r /\ \A y \in Contexts \ {x} : certs'[y] = certs[y]
  BY DEF FreshContext, Inv, CertsFit
<1> QED
  BY <1>1 DEF FreshContext, StoresNew, Stored

LEMMA SessionsCarry ==
  ASSUME Inv, NEW s, OpenSession(s) \/ CloseSession(s)
  PROVE  Carried
<1>1. CASE CloseSession(s)
  <2>1. certs' = Kept(certs, objects')
    BY <1>1 DEF CloseSession
  <2>2. \A o \in Objects : objects'[o] # None => objects'[o] = objects[o]
    BY <1>1 DEF CloseSession
  <2> QED
    BY <2>1, <2>2, KeptStoresNew, NoMore DEF Carried, StoresNew
<1>2. CASE OpenSession(s)
  <2>1. certs' = certs
    BY <1>2 DEF OpenSession
  <2>2. PICK skip \in Passed, listed \in Listings : \E f \in Injection(Sources(skip, listed), Objects \ Live) :
          objects' = [o \in Objects |->
            IF o \in Range(f) THEN Found(s, CHOOSE x \in DOMAIN f : f[x] = o)
                              ELSE objects[o]]
    BY <1>2 DEF OpenSession
  <2>3. \A source : Found(s, source).token
    BY DEF Found, Loaded
  <2>4. \A o \in Objects : objects'[o].token \/ objects'[o] = objects[o]
    <3>1. PICK f \in Injection(Sources(skip, listed), Objects \ Live) :
            objects' = [o \in Objects |->
              IF o \in Range(f) THEN Found(s, CHOOSE x \in DOMAIN f : f[x] = o)
                                ELSE objects[o]]
      BY <2>2
    <3> QED
      BY <2>3, <3>1
  <2>5. ContextsCarried
    BY <2>4, NoMore DEF SessionContext
  <2> QED
    BY <2>1, <2>5 DEF Carried, StoresNew
<1> QED
  BY <1>1, <1>2

LEMMA MakingCarries ==
  ASSUME Inv, NEW s \in open,
         \/ CreateRequestFails(s)
         \/ \E ext \in BOOLEAN : GenerateKeyPairFails(s, ext)
         \/ \E o \in Objects \ Live, token \in BOOLEAN :
              \/ CreateRequest(s, o, token)
              \/ \E p \in Pairs : CreateCertificate(s, o, p, token)
              \/ \E ext \in BOOLEAN : GenerateKeyPair(s, o, token, ext)
  PROVE  Carried
<1>1. ASSUME certs' = certs, objects' = objects
      PROVE  Carried
  BY <1>1, NoMore DEF Carried, StoresNew
<1>2. ASSUME NEW o \in Objects \ Live, NEW x, FreshContext(x), NEW r,
             certs' = [certs EXCEPT ![x] = r], NEW t, Adds(o, t), t.at = x,
             SessionContext(t) => r.where # "store"
      PROVE  Carried
  <2>1. StoresNew /\ certs'[x] = r
    BY <1>2, NewContextOnly
  <2>2. SessionContext(t) => t.at \notin Stored(certs')
    BY <1>2, <2>1 DEF Stored
  <2> QED
    BY <1>2, <2>1, <2>2, OneMore DEF Carried
<1>3. CASE CreateRequestFails(s)
  BY <1>1, <1>3 DEF CreateRequestFails
<1>4. ASSUME NEW ext \in BOOLEAN, GenerateKeyPairFails(s, ext)
      PROVE  Carried
  BY <1>1, <1>4 DEF GenerateKeyPairFails
<1>5. ASSUME NEW o \in Objects \ Live, NEW token \in BOOLEAN, CreateRequest(s, o, token)
      PROVE  Carried
  <2>1. PICK x \in Contexts :
          /\ FreshContext(x)
          /\ Adds(o, Thing(s, "request", None, token, x))
          /\ certs' = [certs EXCEPT ![x] = [Plain("request", None) EXCEPT !.where = Place(token)]]
    BY <1>5 DEF CreateRequest
  <2>2. /\ Thing(s, "request", None, token, x).at = x
        /\ Thing(s, "request", None, token, x).token = token
    BY DEF Thing
  <2>3. ~token => [Plain("request", None) EXCEPT !.where = Place(token)].where # "store"
    BY DEF Plain, Place
  <2> QED
    BY <1>2, <2>1, <2>2, <2>3 DEF SessionContext
<1>6. ASSUME NEW o \in Objects \ Live, NEW token \in BOOLEAN, NEW p \in Pairs,
             CreateCertificate(s, o, p, token)
      PROVE  Carried
  <2>1. PICK x \in Contexts :
          /\ FreshContext(x)
          /\ Adds(o, Thing(s, "certificate", p, token, x))
          /\ \E r \in IF token THEN Linkings(Plain("certificate", p))
                               ELSE {Plain("certificate", p)} :
               certs' = [certs EXCEPT ![x] = [r EXCEPT !.where = Place(token)]]
    BY <1>6 DEF CreateCertificate
  <2>2. PICK r \in IF token THEN Linkings(Plain("certificate", p))
                            ELSE {Plain("certificate", p)} :
          certs' = [certs EXCEPT ![x] = [r EXCEPT !.where = Place(token)]]
    BY <2>1
  <2>3. /\ Thing(s, "certificate", p, token, x).at = x
        /\ Thing(s, "certificate", p, token, x).token = token
    BY DEF Thing
  <2>4. ~token => [r EXCEPT !.where = Place(token)].where # "store"
    BY <2>2 DEF Plain, Place
  <2> QED
    BY <1>2, <2>1, <2>2, <2>3, <2>4 DEF SessionContext
<1>7. ASSUME NEW o \in Objects \ Live, NEW token \in BOOLEAN, NEW ext \in BOOLEAN,
             GenerateKeyPair(s, o, token, ext)
      PROVE  Carried
  <2>1. certs' = certs
    BY <1>7 DEF GenerateKeyPair
  <2>2. PICK p : \/ Adds(o, Thing(s, "key", p, FALSE, Memory))
                 \/ \E c \in Containers : Adds(o, Thing(s, "key", p, TRUE, c))
    BY <1>7 DEF GenerateKeyPair
  <2>3. ASSUME NEW t, Adds(o, t), t.class = "key"
        PROVE  Carried
    BY <2>1, <2>3, OneMore DEF Carried, StoresNew, SessionContext
  <2>4. \A at, q, stored : Thing(s, "key", q, stored, at).class = "key"
    BY DEF Thing
  <2> QED
    BY <2>2, <2>3, <2>4
<1> QED
  BY <1>3, <1>4, <1>5, <1>6, <1>7

LEMMA CopyCertificateCarries ==
  ASSUME Inv, NEW o \in Live,
         \/ CopyCertificateFails(o)
         \/ \E n \in Objects \ Live, asked \in BOOLEAN : CopyCertificate(o, n, asked)
  PROVE  Carried
<1>1. PICK at : at = objects[o].at
  OBVIOUS
<1>2. /\ at \in Contexts /\ certs[at] # None /\ certs \in [Contexts -> Context \cup {None}]
      /\ certs[at] \in Context /\ OwnLink(certs[at], keys)
      /\ objects[o].class = "certificate" /\ objects[o] \in Object
  BY <1>1, Original DEF CopyCertificateFails, CopyCertificate, Inv, CertsFit
<1>3. \A r \in Linkings(certs[at]) : r.where = certs[at].where
  BY <1>2, Relinked
<1>4. CASE CopyCertificateFails(o)
  <2>1. PICK r \in Linkings(certs[at]) : certs' = [certs EXCEPT ![at] = r]
    BY <1>1, <1>4 DEF CopyCertificateFails
  <2>2. certs'[at] = r /\ \A y \in Contexts \ {at} : certs'[y] = certs[y]
    BY <1>2, <2>1
  <2>3. StoresNew
    BY <1>2, <1>3, <2>2 DEF StoresNew, Stored
  <2>4. objects' = objects
    BY <1>4 DEF CopyCertificateFails
  <2> QED
    BY <2>3, <2>4, NoMore DEF Carried
<1>5. ASSUME NEW n \in Objects \ Live, CopyCertificate(o, n, TRUE)
      PROVE  Carried
  <2>1. PICK x \in Contexts, r \in Linkings(certs[at]) :
          /\ FreshContext(x)
          /\ Adds(n, [objects[o] EXCEPT !.token = TRUE, !.at = x])
          /\ certs' = [certs EXCEPT ![at] = r, ![x] = [r EXCEPT !.where = "store"]]
    BY <1>1, <1>5 DEF CopyCertificate
  <2>2. certs[x] = None /\ x # at
    BY <1>2, <2>1 DEF FreshContext
  <2>3. certs'[at] = r /\ \A y \in Contexts \ {at, x} : certs'[y] = certs[y]
    BY <1>2, <2>1, <2>2
  <2>4. StoresNew
    BY <1>2, <1>3, <2>2, <2>3 DEF StoresNew, Stored
  <2>5. [objects[o] EXCEPT !.token = TRUE, !.at = x].token
    BY <1>2 DEF Object
  <2> QED
    BY <2>1, <2>4, <2>5, OneMore DEF Carried, SessionContext
<1>6. ASSUME NEW n \in Objects \ Live, CopyCertificate(o, n, FALSE)
      PROVE  Carried
  <2>1. PICK token \in {FALSE, objects[o].token} : Adds(n, [objects[o] EXCEPT !.token = token])
    BY <1>6 DEF CopyCertificate
  <2>2. [objects[o] EXCEPT !.token = token].at = at
    BY <1>1, <1>2 DEF Object
  <2>3. certs' = certs
    BY <1>6 DEF CopyCertificate
  <2> QED
    BY <1>1, <1>2, <2>1, <2>2, <2>3, OneMore DEF Carried, StoresNew
<1> QED
  BY <1>4, <1>5, <1>6

LEMMA CopyRequestCarries ==
  ASSUME Inv, NEW o \in Live, NEW n \in Objects \ Live, NEW asked \in BOOLEAN,
         CopyRequest(o, n, asked)
  PROVE  Carried
<1>1. objects[o] \in Object
  BY DEF Inv, ObjectsFit, Live, Backed
<1>2. CASE asked
  <2>1. PICK x \in Contexts :
          /\ FreshContext(x)
          /\ Adds(n, [objects[o] EXCEPT !.token = TRUE, !.at = x])
          /\ certs' = [certs EXCEPT ![x] = [certs[objects[o].at] EXCEPT !.where = "store"]]
    BY <1>2 DEF CopyRequest
  <2>2. [objects[o] EXCEPT !.token = TRUE, !.at = x].token
    BY <1>1 DEF Object
  <2> QED
    BY <2>1, <2>2, NewContextOnly, OneMore DEF Carried, SessionContext
<1>3. CASE ~asked
  <2>1. PICK token \in {FALSE, objects[o].token} :
          Adds(n, [objects[o] EXCEPT !.token = token, !.at = None])
    BY <1>3 DEF CopyRequest
  <2>2. [objects[o] EXCEPT !.token = token, !.at = None].at = None
    BY <1>1 DEF Object
  <2>3. certs' = certs
    BY <1>3 DEF CopyRequest
  <2> QED
    BY <2>1, <2>2, <2>3, OneMore DEF Carried, StoresNew, SessionContext
<1> QED
  BY <1>2, <1>3

LEMMA CopyKeyCarries ==
  ASSUME Inv, NEW o \in Live, NEW ext \in BOOLEAN,
         \/ CopyKeyFails(o, ext)
         \/ \E n \in Objects \ Live, token \in BOOLEAN : CopyKey(o, n, token, ext)
  PROVE  Carried
<1>1. objects[o].class = "key" /\ objects[o] \in Object /\ objects[o].pair \in Pairs \cup {None}
  BY DEF CopyKeyFails, CopyKey, Copyable, Inv, ObjectsFit, Live, Backed, Object
<1>2. StoresNew
  <2>1. CASE certs' = certs
    BY <2>1 DEF StoresNew
  <2>2. ASSUME NEW c, Persists(c, objects[o].pair, ext), certs' \in KeyLinkings(c, objects[o].pair)
        PROVE  StoresNew
    BY <1>1, <2>2, LinkedFits DEF Persists, StoresNew
  <2> QED
    BY <2>1, <2>2 DEF CopyKeyFails, CopyKey
<1>3. CASE CopyKeyFails(o, ext)
  BY <1>2, <1>3, NoMore DEF CopyKeyFails, Carried
<1>4. ASSUME NEW n \in Objects \ Live, NEW token \in BOOLEAN, CopyKey(o, n, token, ext)
      PROVE  Carried
  <2>1. PICK at : Adds(n, [[objects[o] EXCEPT !.token = token] EXCEPT !.at = at])
    BY <1>4 DEF CopyKey
  <2>2. [[objects[o] EXCEPT !.token = token] EXCEPT !.at = at].class = "key"
    BY <1>1 DEF Object
  <2> QED
    BY <1>2, <2>1, <2>2, OneMore DEF Carried, SessionContext
<1> QED
  BY <1>3, <1>4

LEMMA DestroyingCarries ==
  ASSUME Inv, NEW o \in Live, DestroyStored(o) \/ DestroyStoredFails(o) \/ DestroyKey(o)
  PROVE  Carried
<1>1. objects \in [Objects -> Object \cup {None}] /\ o \in Objects /\ objects[o] \in Object
  BY DEF Inv, ObjectsFit, Live
<1>2. CASE DestroyKey(o)
  <2>1. certs' = certs /\ objects' = [objects EXCEPT ![o] = None]
    BY <1>2 DEF DestroyKey
  <2> QED
    BY <1>1, <2>1, NoMore DEF Carried, StoresNew
<1>3. CASE DestroyStoredFails(o)
  <2>1. certs' = Kept(certs, objects') /\ objects' = [objects EXCEPT ![o].at = None]
    BY <1>3 DEF DestroyStoredFails
  <2>2. objects'[o].at = None /\ \A n \in Objects \ {o} : objects'[n] = objects[n]
    BY <1>1, <2>1 DEF Object
  <2> QED
    BY <2>1, <2>2, NoMore, KeptStoresNew DEF Carried, StoresNew, SessionContext
<1>4. CASE DestroyStored(o)
  <2>1. PICK cs : /\ certs' = Kept(cs, objects')
                  /\ cs = IF certs[objects[o].at].where = "store"
                          THEN [certs EXCEPT ![objects[o].at].where = "deleted"] ELSE certs
    BY <1>4 DEF DestroyStored
  <2>2. Stored(cs) \subseteq Stored(certs)
    <3>1. PICK at : at = objects[o].at
      OBVIOUS
    <3>2. /\ at \in Contexts /\ certs[at] \in Context
          /\ certs \in [Contexts -> Context \cup {None}]
      BY <1>4, <3>1 DEF DestroyStored, Inv, CertsFit, ObjectsFit, Live, Backed
    <3>3. CASE cs = certs
      BY <3>3
    <3>4. CASE cs = [certs EXCEPT ![at].where = "deleted"]
      <4>1. cs[at].where = "deleted" /\ \A y \in Contexts \ {at} : cs[y] = certs[y]
        BY <3>2, <3>4 DEF Context
      <4> QED
        BY <4>1 DEF Stored
    <3> QED
      BY <2>1, <3>1, <3>3, <3>4
  <2>3. objects' = [objects EXCEPT ![o] = None]
    BY <1>4 DEF DestroyStored
  <2> QED
    BY <1>1, <2>1, <2>2, <2>3, NoMore, KeptStoresNew DEF Carried, StoresNew
<1> QED
  BY <1>2, <1>3, <1>4

LEMMA CarriedStep == Inv /\ [Next]_vars => Carried
<1> SUFFICES ASSUME Inv, [Next]_vars PROVE Carried
  OBVIOUS
<1>1. CASE UNCHANGED vars
  BY <1>1, NoMore DEF vars, Carried, StoresNew
<1> QED
  BY <1>1, SessionsCarry, MakingCarries, CopyCertificateCarries, CopyRequestCarries,
     CopyKeyCarries, DestroyingCarries
  DEF Next

(* Destroying a session object takes nothing away if its context is not    *)
(* stored: only the object destroyed loses what it has.                    *)
LEMMA DestroyedKeeps ==
  ASSUME Inv, SessionContextsOut, [Next]_vars,
         NEW o \in Live, ~objects[o].token, objects'[o] = None
  PROVE  Stored(certs) \subseteq Stored(certs')
<1>1. CASE KeepsStores
  BY <1>1 DEF KeepsStores
<1>2. CASE certs' = certs
  BY <1>2
<1>3. CASE certs' = Kept(certs, objects')
  BY <1>3, KeptKeepsStored
<1>4. ASSUME NEW n \in Live, DestroyStored(n)
      PROVE  Stored(certs) \subseteq Stored(certs')
  <2>1. objects' = [objects EXCEPT ![n] = None] /\ objects[n].class # "key" /\ objects[n].at # None
    BY <1>4 DEF DestroyStored
  <2>2. n = o
    BY <2>1 DEF Live, Inv, ObjectsFit
  <2>3. objects[o].at \notin Stored(certs)
    BY <2>1, <2>2 DEF SessionContextsOut, SessionContext
  <2>4. LostCertificates
    BY <1>4, DestroyStoredLoses
  <2>5. \A m \in Objects \ {o} : objects'[m] = objects[m]
    BY <2>1, <2>2
  <2> QED
    BY <2>3, <2>4, <2>5 DEF LostCertificates, Live
<1> QED
  BY <1>1, <1>2, <1>3, <1>4, SessionsKeep, MakingKeeps, CopyCertificateKeeps, CopyingKeeps
  DEF Next, vars, DestroyStoredFails, DestroyKey

(* Destroying what is only a session object leaves the stores as they are, *)
(* if no session object was made by copying a token object: the copies of  *)
(* certificates, which share their context, are all there is to the        *)
(* finding.                                                                *)
THEOREM OnlyCopiesReachStores == Spec /\ [][Apart]_vars => SessionDestroyKeepsStore
<1>1. Init => SessionContextsOut
  BY DEF Init, SessionContextsOut, Live
<1>2. Inv /\ SessionContextsOut /\ [Next]_vars /\ [Apart]_vars => SessionContextsOut'
  <2>1. CASE UNCHANGED vars
    BY <2>1 DEF vars, SessionContextsOut, Live, Stored
  <2> QED
    BY <2>1, CarriedStep, ContextsStayOut
<1>3. Inv /\ SessionContextsOut /\ [Next]_vars =>
        [\A o \in Live : ~objects[o].token /\ objects'[o] = None
                           => Stored(certs) \subseteq Stored(certs')]_vars
  BY DestroyedKeeps
<1> QED
  BY <1>1, <1>2, <1>3, InvHolds, PTL DEF Spec, SessionDestroyKeepsStore
=============================================================================
