----------------------------- MODULE TokenStore -----------------------------
(***************************************************************************)
(* The key containers and certificate stores of Windows and the objects    *)
(* sessions have of them (src/src/mscapi/session.cpp, certificate.cpp,     *)
(* data.cpp, rsa.cpp, ec.cpp, ncrypt/key.cpp, crypt/cert.cpp).             *)
(*                                                                         *)
(* The stores outlive the library.  A session reads them once, when it is  *)
(* opened; afterwards it changes them by creating, copying, generating and *)
(* destroying objects, each in several calls to Windows of which any may   *)
(* fail.  A call that fails after it has changed a store is an action of   *)
(* its own; one that fails before is a stuttering step.  So is every call  *)
(* on a public key: none of them touches a store.                          *)
(*                                                                         *)
(* A certificate lives in a context.  Duplicating a certificate gives the  *)
(* same context, so objects share it, and a context that is in a store is  *)
(* also that of every session which found it there.                        *)
(***************************************************************************)
EXTENDS Functions, FiniteSets

CONSTANTS
  Sessions,    \* addresses a session can have
  Objects,     \* addresses an object can have
  Pairs,       \* key pairs
  Containers,  \* names of key containers
  Contexts,    \* addresses of certificate contexts
  None,        \* nothing there
  Memory,      \* where a key is that has no container
  Extractable, \* key pairs that a template may make CKA_EXTRACTABLE
  Faults       \* the calls to Windows that may fail

(* acquire: a legacy key; add: a context to a store; link: a certificate   *)
(* with a new key; read: the attributes of a new key; find: the key made   *)
(* for a request; delete: from a store.                                    *)
ASSUME FaultsAssumption ==
  Faults \subseteq {"acquire", "add", "link", "read", "find", "delete"}
ASSUME ExtractableAssumption == Extractable \subseteq Pairs
ASSUME MarksAssumption ==
  /\ None \notin Pairs \cup Containers \cup Contexts
  /\ Memory \notin Containers \cup Contexts \cup {None}

VARIABLES
  keys,         \* container -> the key pair in it
  exports,      \* containers that give their private key away
  certs,        \* context -> what is in it
  open,         \* the open sessions
  objects       \* object -> what it is

vars == <<keys, exports, certs, open, objects>>

(* where: the store, if any; "deleted": it was in one.  link: the          *)
(* container that CERT_KEY_PROV_INFO_PROP_ID names; legacy: as one of a    *)
(* provider before CNG.                                                    *)
Context ==
  [kind : {"certificate", "request"}, pair : Pairs \cup {None},
   link : Containers \cup {None}, legacy : BOOLEAN,
   where : {"memory", "store", "deleted"}]

(* at: the container of a key, the context of the others; None: the object *)
(* has lost its context.  loaded: CKA_COPYABLE is false.                   *)
Object ==
  [session : Sessions, class : {"key", "certificate", "request"},
   pair : Pairs \cup {None}, token : BOOLEAN, loaded : BOOLEAN,
   at : Containers \cup Contexts \cup {Memory, None}]

ASSUME NoneAssumption == None \notin Context \cup Object

Live == {o \in Objects : objects[o] # None}

(* The containers with a key, and those found to hold pair p by the hash   *)
(* of its public key.                                                      *)
Held == {c \in Containers : keys[c] # None}
Holding(p) == {c \in Held : keys[c] = p}

(* What is in the store: stored certificates and requests.                 *)
Stored(cs) == {x \in Contexts : cs[x] # None /\ cs[x].where = "store"}

Used(cs, os) ==
  Stored(cs) \cup {os[o].at : o \in {n \in Objects : os[n] # None}}

(* A context in no store is freed with the last object that has it.        *)
Kept(cs, os) ==
  LET used == Used(cs, os)
  IN  [x \in Contexts |-> IF x \in used THEN cs[x] ELSE None]

(* Mutant of FreshContainer: a name that the stores know no longer is used *)
(* again.                                                                  *)
FreeContainer(c) ==
  /\ c \in Containers
  /\ keys[c] = None
  /\ \A x \in Contexts : certs[x] # None => certs[x].link # c

(* Names are random: nothing refers to a new one.                          *)
FreshContainer(c) ==
  /\ c \in Containers
  /\ keys[c] = None
  /\ \A o \in Live : objects[o].at # c
  /\ \A x \in Contexts : certs[x] # None => certs[x].link # c

FreshContext(x) == x \in Contexts /\ certs[x] = None

FreshPair(p) ==
  /\ p \in Pairs
  /\ \A c \in Containers : keys[c] # p
  /\ \A o \in Live : objects[o].pair # p
  /\ \A x \in Contexts : certs[x] # None => certs[x].pair # p

Plain(kind, p) ==
  [kind |-> kind, pair |-> p, link |-> None, legacy |-> FALSE, where |-> "memory"]

StoredCertificate(p, c, legacy) ==
  [kind |-> "certificate", pair |-> p, link |-> c, legacy |-> legacy, where |-> "store"]

(* The stores as the library finds them: at most one key and one           *)
(* certificate, which names the container of its key or one that is gone.  *)
Init ==
  /\ \E c \in Containers, p \in Pairs \cup {None} :
       keys = [[d \in Containers |-> None] EXCEPT ![c] = p]
  /\ exports \in SUBSET {c \in Containers : keys[c] \in Extractable}
  /\ \/ certs = [y \in Contexts |-> None]
     \/ \E x \in Contexts, p \in Pairs, c \in Containers \cup {None}, legacy \in BOOLEAN :
          /\ c = None => ~legacy
          /\ c # None => keys[c] \in {p, None}
          /\ certs = [[y \in Contexts |-> None] EXCEPT ![x] = StoredCertificate(p, c, legacy)]
  /\ open = {}
  /\ objects = [o \in Objects |-> None]

-----------------------------------------------------------------------------
(* Sessions.                                                               *)

(* LoadMyStore passes over certificates without a link.                    *)
Linked == {x \in Stored(certs) : certs[x].kind = "certificate" /\ certs[x].link # None}
Requests == {x \in Stored(certs) : certs[x].kind = "request"}

(* A legacy key that is gone, or cannot be acquired or translated, makes   *)
(* it pass over the certificate as well.                                   *)
Gone == {x \in Linked : certs[x].legacy /\ keys[certs[x].link] = None}
Passed == {skip \in SUBSET {x \in Linked : certs[x].legacy} :
             Gone \subseteq skip /\ ("acquire" \in Faults \/ skip = Gone)}

(* What listing the keys may give: GetKeyNames tests its status before it  *)
(* has one.  If that is zero all keys are listed, if it says that there    *)
(* are no more, none is; anything else raises.                             *)
Listings == {Held, {}}

(* Legacy keys are found beside their certificates; then those listed,     *)
(* legacy ones too.                                                        *)
Sources(skip, listed) ==
  {<<"certificate", x>> : x \in Linked \ skip}
  \cup {<<"key of", x>> : x \in {y \in Linked \ skip : certs[y].legacy}}
  \cup {<<"request", x>> : x \in Requests}
  \cup {<<"key", c>> : c \in listed}

Thing(s, class, p, token, at) ==
  [session |-> s, class |-> class, pair |-> p, token |-> token,
   loaded |-> FALSE, at |-> at]

Loaded(s, class, p, at) ==
  [session |-> s, class |-> class, pair |-> p, token |-> TRUE,
   loaded |-> TRUE, at |-> at]

Found(s, source) ==
  LET at == IF source[1] = "key of" THEN certs[source[2]].link ELSE source[2]
      class == IF source[1] = "key of" THEN "key" ELSE source[1]
      p == IF class = "key" THEN keys[at] ELSE certs[at].pair
  IN  Loaded(s, class, p, at)

OpenSession(s) ==
  /\ s \notin open
  /\ open' = open \cup {s}
  /\ \E skip \in Passed, listed \in Listings :
       \E f \in Injection(Sources(skip, listed), Objects \ Live) :
         objects' = [o \in Objects |->
           IF o \in Range(f) THEN Found(s, CHOOSE x \in DOMAIN f : f[x] = o)
                             ELSE objects[o]]
  /\ UNCHANGED <<keys, exports, certs>>

(* Mutant of CloseSession: its objects stay.                               *)
CloseSessionOnly(s) ==
  /\ open' = open \ {s}
  /\ UNCHANGED <<keys, exports, certs, objects>>

(* The objects of the session go, what they stand for stays.               *)
CloseSession(s) ==
  /\ open' = open \ {s}
  /\ objects' = [o \in Objects |->
       IF o \in Live /\ objects[o].session = s THEN None ELSE objects[o]]
  /\ certs' = Kept(certs, objects')
  /\ UNCHANGED <<keys, exports>>

-----------------------------------------------------------------------------
(* Certificates and requests.                                              *)

(* Address o now holds an object.                                          *)
Adds(o, thing) ==
  objects' = [objects EXCEPT ![o] = thing]

Place(token) == IF token THEN "store" ELSE "memory"

(* Mutant of Linkings: the hashes are not compared.                        *)
LinkingsOfAny(r) ==
  {[r EXCEPT !.link = c, !.legacy = FALSE] : c \in Held}

(* What AddToMyStorage makes of a context: every listed container that has *)
(* its key is linked in turn, but those whose key GetId cannot read.       *)
Linkings(r) ==
  {r} \cup {[r EXCEPT !.link = c, !.legacy = FALSE] : c \in Holding(r.pair)}

CreateCertificate(s, o, p, token) ==
  /\ \E x \in Contexts :
       /\ FreshContext(x)
       /\ Adds(o, Thing(s, "certificate", p, token, x))
       /\ \E r \in IF token THEN Linkings(Plain("certificate", p))
                            ELSE {Plain("certificate", p)} :
            certs' = [certs EXCEPT ![x] = [r EXCEPT !.where = Place(token)]]
  /\ UNCHANGED <<keys, exports, open>>

Copyable(o, class) ==
  /\ objects[o].class = class
  /\ ~objects[o].loaded

(* The copy has the context of the original.  If the template asks for a   *)
(* token object, that context is linked and then copied to the store.      *)
CopyCertificate(o, n, asked) ==
  /\ Copyable(o, "certificate") /\ objects[o].at # None
  /\ LET old == objects[o]
     IN  IF asked
         THEN \E x \in Contexts : \E r \in Linkings(certs[old.at]) :
                /\ FreshContext(x)
                /\ Adds(n, [old EXCEPT !.token = TRUE, !.at = x])
                /\ certs' = [certs EXCEPT ![old.at] = r, ![x] = [r EXCEPT !.where = "store"]]
         ELSE \E token \in {FALSE, old.token} :
                /\ Adds(n, [old EXCEPT !.token = token])
                /\ UNCHANGED certs
  /\ UNCHANGED <<keys, exports, open>>

(* Mutant of CopyCertificateFails: the context is added to the store first *)
(* and looked for a key then.                                              *)
CopyCertificateFailsLate(o) ==
  /\ "add" \in Faults
  /\ Copyable(o, "certificate") /\ objects[o].at # None
  /\ \E x \in Contexts :
       /\ FreshContext(x)
       /\ certs' = [certs EXCEPT ![x] = [certs[objects[o].at] EXCEPT !.where = "store"]]
  /\ UNCHANGED <<keys, exports, open, objects>>

(* The context cannot be added to the store: its new link stays.           *)
CopyCertificateFails(o) ==
  /\ "add" \in Faults
  /\ Copyable(o, "certificate") /\ objects[o].at # None
  /\ \E r \in Linkings(certs[objects[o].at]) : certs' = [certs EXCEPT ![objects[o].at] = r]
  /\ UNCHANGED <<keys, exports, open, objects>>

(* Mutant of CreateRequest: the key made for the request is left behind.   *)
CreateRequestLeavesKey(s, o, token) ==
  /\ \E x \in Contexts, c \in Containers, p \in Pairs :
       /\ FreshContext(x) /\ FreshContainer(c) /\ FreshPair(p)
       /\ Adds(o, Thing(s, "request", None, token, x))
       /\ certs' = [certs EXCEPT ![x] = [Plain("request", None) EXCEPT !.where = Place(token)]]
       /\ keys' = [keys EXCEPT ![c] = p]
  /\ UNCHANGED <<exports, open>>

(* The self-signed certificate that holds the request is made with a key   *)
(* of its own, which is deleted again.                                     *)
CreateRequest(s, o, token) ==
  /\ \E x \in Contexts :
       /\ FreshContext(x)
       /\ Adds(o, Thing(s, "request", None, token, x))
       /\ certs' = [certs EXCEPT ![x] = [Plain("request", None) EXCEPT !.where = Place(token)]]
  /\ UNCHANGED <<keys, exports, open>>

(* It is left if it cannot be found again.                                 *)
CreateRequestFails(s) ==
  /\ "find" \in Faults
  /\ \E c \in Containers, p \in Pairs :
       /\ FreshContainer(c) /\ FreshPair(p)
       /\ keys' = [keys EXCEPT ![c] = p]
  /\ UNCHANGED <<exports, certs, open, objects>>

(* A copy that the template does not ask to be stored has no context, and  *)
(* cannot be stored by a further copy: that dereferences NULL.             *)
CopyRequest(o, n, asked) ==
  /\ Copyable(o, "request")
  /\ LET old == objects[o]
     IN  IF asked
         THEN \E x \in Contexts :
                /\ old.at # None /\ FreshContext(x)
                /\ Adds(n, [old EXCEPT !.token = TRUE, !.at = x])
                /\ certs' = [certs EXCEPT ![x] = [certs[old.at] EXCEPT !.where = "store"]]
         ELSE \E token \in {FALSE, old.token} :
                /\ Adds(n, [old EXCEPT !.token = token, !.at = None])
                /\ UNCHANGED certs
  /\ UNCHANGED <<keys, exports, open>>

(* The context is deleted from the store that it is in.  Calling this for  *)
(* an object that has lost its context dereferences NULL.                  *)
DestroyStored(o) ==
  /\ objects[o].class \in {"certificate", "request"}
  /\ objects[o].at # None
  /\ objects' = [objects EXCEPT ![o] = None]
  /\ LET at == objects[o].at
         deleted == IF certs[at].where = "store"
                    THEN [certs EXCEPT ![at].where = "deleted"] ELSE certs
     IN  certs' = Kept(deleted, objects')
  /\ UNCHANGED <<keys, exports, open>>

(* A refused deletion costs the object its context all the same.           *)
DestroyStoredFails(o) ==
  /\ objects[o].class \in {"certificate", "request"}
  /\ objects[o].at # None
  /\ \/ certs[objects[o].at].where = "deleted"
     \/ "delete" \in Faults /\ certs[objects[o].at].where = "store"
  /\ objects' = [objects EXCEPT ![o].at = None]
  /\ certs' = Kept(certs, objects')
  /\ UNCHANGED <<keys, exports, open>>

-----------------------------------------------------------------------------
(* Keys.                                                                   *)

(* Mutant of Exporting: the policy that memory keys need for being copied  *)
(* is given to all.                                                        *)
ExportingAll(c, ext) == exports \cup {c}

(* A key that is stored may be exported if it is extractable, one in       *)
(* memory always (CKA_EXTRACTABLE is then only the attribute).             *)
Exporting(c, ext) == IF ext THEN exports \cup {c} ELSE exports \ {c}

(* Pair p comes into a container of its own.                               *)
Persists(c, p, ext) ==
  /\ FreshContainer(c)
  /\ keys' = [keys EXCEPT ![c] = p]
  /\ exports' = Exporting(c, ext)

InMemory == UNCHANGED <<keys, exports>>

(* The objects of a key may have CKA_EXTRACTABLE or not, with each copy.   *)
Declarable(p, ext) == ext => p \in Extractable

GenerateKeyPair(s, o, token, ext) ==
  /\ \E p \in Pairs :
       /\ FreshPair(p)
       /\ Declarable(p, ext)
       /\ \/ ~token /\ InMemory /\ Adds(o, Thing(s, "key", p, FALSE, Memory))
          \/ token /\ \E c \in Containers :
               Persists(c, p, ext) /\ Adds(o, Thing(s, "key", p, TRUE, c))
  /\ UNCHANGED <<certs, open>>

(* The attributes of a finished key cannot be read: it stays.              *)
GenerateKeyPairFails(s, ext) ==
  /\ "read" \in Faults
  /\ \E c \in Containers, p \in Pairs :
       FreshPair(p) /\ Declarable(p, ext) /\ Persists(c, p, ext)
  /\ UNCHANGED <<certs, open, objects>>

(* What LinkKeyToCertificate makes of the store: certificates of the key   *)
(* that have no link get one.  The public key that it compares them with   *)
(* has been freed, so it may miss any.                                     *)
KeyLinkings(c, p) ==
  {[x \in Contexts |-> IF x \in linked THEN [certs[x] EXCEPT !.link = c] ELSE certs[x]] :
     linked \in SUBSET {x \in Stored(certs) : certs[x].kind = "certificate"
                                              /\ certs[x].link = None /\ certs[x].pair = p}}

CanExport(o) == objects[o].at \in exports \cup {Memory}

(* A copy in memory has no name to link a certificate with.                *)
CopyKey(o, n, token, ext) ==
  /\ Copyable(o, "key") /\ CanExport(o)
  /\ LET old == objects[o]
         copy == [old EXCEPT !.token = token]
     IN  /\ Declarable(old.pair, ext)
         /\ \/ ~token /\ InMemory /\ UNCHANGED certs
               /\ Adds(n, [copy EXCEPT !.at = Memory])
            \/ token /\ \E c \in Containers :
                 /\ Persists(c, old.pair, ext)
                 /\ certs' \in KeyLinkings(c, old.pair)
                 /\ Adds(n, [copy EXCEPT !.at = c])
  /\ UNCHANGED open

(* A certificate cannot be linked: the key stays, and links made before.   *)
CopyKeyFails(o, ext) ==
  /\ "link" \in Faults
  /\ Copyable(o, "key") /\ CanExport(o)
  /\ Declarable(objects[o].pair, ext)
  /\ \E c \in Containers :
       Persists(c, objects[o].pair, ext) /\ certs' \in KeyLinkings(c, objects[o].pair)
  /\ UNCHANGED <<open, objects>>

(* Mutant of DestroyKey: the key is looked for by its hash, as             *)
(* AddToMyStorage does.                                                    *)
DestroyKeyByHash(o) ==
  /\ objects[o].class = "key"
  /\ objects' = [objects EXCEPT ![o] = None]
  /\ LET found == Holding(objects[o].pair)
     IN  /\ keys' = [d \in Containers |-> IF d \in found THEN None ELSE keys[d]]
         /\ exports' = exports \ found
  /\ UNCHANGED <<certs, open>>

DestroyKey(o) ==
  /\ objects[o].class = "key"
  /\ objects' = [objects EXCEPT ![o] = None]
  /\ LET c == objects[o].at
     IN  /\ keys' = [d \in Containers |-> IF d = c THEN None ELSE keys[d]]
         /\ exports' = exports \ {c}
  /\ UNCHANGED <<certs, open>>

-----------------------------------------------------------------------------
Next ==
  \/ \E s \in Sessions : OpenSession(s)
  \/ \E s \in open :
       \/ CloseSession(s) \/ CreateRequestFails(s)
       \/ \E ext \in BOOLEAN : GenerateKeyPairFails(s, ext)
       \/ \E o \in Objects \ Live, token \in BOOLEAN :
            \/ CreateRequest(s, o, token)
            \/ \E p \in Pairs : CreateCertificate(s, o, p, token)
            \/ \E ext \in BOOLEAN : GenerateKeyPair(s, o, token, ext)
  \/ \E o \in Live :
       \/ CopyCertificateFails(o) \/ DestroyStored(o) \/ DestroyStoredFails(o) \/ DestroyKey(o)
       \/ \E ext \in BOOLEAN : CopyKeyFails(o, ext)
       \/ \E n \in Objects \ Live, token \in BOOLEAN :
            \/ CopyCertificate(o, n, token) \/ CopyRequest(o, n, token)
            \/ \E ext \in BOOLEAN : CopyKey(o, n, token, ext)

Spec == Init /\ [][Next]_vars

-----------------------------------------------------------------------------
(* Every variable holds a value of its type, and what an object stands for *)
(* is there, in memory or in a store.                                      *)
TypeOK ==
  /\ keys \in [Containers -> Pairs \cup {None}]
  /\ exports \subseteq Held
  /\ certs \in [Contexts -> Context \cup {None}]
  /\ open \subseteq Sessions
  /\ objects \in [Objects -> Object \cup {None}]
  /\ \A o \in Live : objects[o].session \in open

(* A certificate in the store names the container of its own key, or one   *)
(* that is gone; never that of another key: neither AddToMyStorage nor     *)
(* LinkKeyToCertificate links a wrong pair, and names are not used again.  *)
LinksNameOwnKey ==
  \A x \in Stored(certs) :
    certs[x].link # None => keys[certs[x].link] \in {certs[x].pair, None}

(* A stored key can be exported only if a template has made an object of   *)
(* its pair CKA_EXTRACTABLE, although every key in memory can be exported  *)
(* and copied to the store.                                                *)
ExportOnlyIfExtractable ==
  \A c \in exports : keys[c] \in Extractable

(* A key object of a session, however long ago it was read from the store, *)
(* stands for the key in its container or, when another session has        *)
(* destroyed that, for none; never for one that has come there since.      *)
TokensBacked ==
  \A o \in Live :
    objects[o].class = "key" /\ objects[o].at \in Containers =>
      keys[objects[o].at] \in {objects[o].pair, None}

(* What leaves a store leaves it with its object: only the call that       *)
(* destroys an object takes something away, a certificate, a request, or   *)
(* the key that the object was made for, never that of another pair.  To   *)
(* open and close sessions, to create and copy, and to fail takes away     *)
(* nothing.                                                                *)
LossesAreOwn ==
  [][/\ \A x \in Stored(certs) \ Stored(certs') :
          \E o \in Live : /\ objects'[o] = None /\ open' = open
                          /\ objects[o].class # "key" /\ objects[o].at = x
     /\ \A c \in Held : keys'[c] # keys[c] =>
          \E o \in Live : /\ objects'[o] = None /\ open' = open
                          /\ objects[o].class = "key" /\ objects[o].at = c
                          /\ objects[o].pair = keys[c]]_vars

(* Making an object that is not a token object leaves the stores as they   *)
(* are.                                                                    *)
SessionObjectsStayOut ==
  [][\A o \in Objects :
       objects[o] = None /\ objects'[o] # None /\ ~objects'[o].token =>
         keys' = keys /\ \A x \in Stored(certs) \cup Stored(certs') : certs'[x] = certs[x]]_vars

(* What a call has newly put into the store of certificates or requests is *)
(* that of an object it made: a failed call leaves keys behind and links,  *)
(* but no certificate.                                                     *)
StoredWithObject ==
  [][\A x \in Stored(certs') \ Stored(certs) :
       \E o \in Objects : objects[o] = None /\ objects'[o] # None /\ objects'[o].at = x]_vars

(* "C_CopyObject copies an object, creating a new object for the copy."    *)
(* (pkcs11.cpp:490): destroying what is only a session object leaves the   *)
(* stores as they are.                                                     *)
SessionDestroyKeepsStore ==
  [][\A o \in Live :
       ~objects[o].token /\ objects'[o] = None => Stored(certs) \subseteq Stored(certs')]_vars

=============================================================================
