------------------------------- MODULE EcKeys -------------------------------
(***************************************************************************)
(* The public half of elliptic curve keys: how a point goes from the       *)
(* library of the platform into CKA_EC_POINT and back, and a signature     *)
(* from there to the caller and back (src/src/core/objects/ec_key.cpp,     *)
(* mscapi/ec.cpp, osx/ec.cpp, osx/crypto/ec.cpp).                          *)
(*                                                                         *)
(* An attribute holds an OCTET STRING with the byte 4 and both coordinates *)
(* in it.  mscapi takes it apart by looking for the second byte that is 4, *)
(* osx by decoding it; osx derives the curve from the length, mscapi the   *)
(* length from the curve.  What one makes the other must understand.       *)
(*                                                                         *)
(* The sizes of the curves are constants: those of the code, 32, 48 and    *)
(* 66, are one choice of them.  The bytes that say which curve it is are   *)
(* the curve.  A refused call changes nothing and is a stuttering step.    *)
(***************************************************************************)
EXTENDS Integers, Sequences

CONSTANTS
  Objects,   \* addresses an object can have
  Curves,    \* named curves the library knows
  Size,      \* curve -> bytes of a coordinate
  Bytes,     \* the values of a byte of a coordinate
  LongFrom,  \* lengths from here on take two bytes in DER: 128
  None       \* no object, no signature, not a curve

ASSUME SizeAssumption == Size \in [Curves -> Nat \ {0}]
ASSUME SizesDiffer == \A c, d \in Curves : Size[c] = Size[d] => c = d
ASSUME BytesAssumption == Bytes \subseteq Nat
ASSUME LongFromAssumption == LongFrom \in 0..129
ASSUME NoneAssumption == None \notin Curves

VARIABLES
  backend,    \* the library the build is linked with
  objects,    \* address -> the key pair or public key there
  signature   \* the last signature made

vars == <<backend, objects, signature>>

Coordinates(n) == [1..2 * n -> Bytes]

(* A public key of the platform: a curve and x, y as one sequence.         *)
Key == UNION {[curve : {c}, xy : Coordinates(Size[c])] : c \in Curves}

-----------------------------------------------------------------------------
(* Points.                                                                 *)

(* Tag and length of an OCTET STRING of n bytes.  For the three curves it  *)
(* is what the code spells out: 04 41, 04 61 and 04 81 85.                 *)
OctetHeader(n, long) == IF n < long THEN <<4, n>> ELSE <<4, 129, n>>

Uncompressed(xy) == <<4>> \o xy

(* CKA_EC_POINT of a key.                                                  *)
EncodedPoint(k) ==
  OctetHeader(1 + 2 * Size[k.curve], LongFrom) \o Uncompressed(k.xy)

Fours(d) == {i \in 1..Len(d) : d[i] = 4}

(* Mutant of Seconds: the first byte that is 4.                            *)
Firsts(d) == {i \in Fours(d) : \A j \in Fours(d) : i <= j}

(* Where d has its second byte that is 4, if it has one.                   *)
Seconds(d) ==
  {i \in Fours(d) : \E j \in Fours(d) : j < i /\ \A m \in Fours(d) : m < i => m = j}

(* Mutant of DecodePoint: what is longer is cut off.                       *)
DecodeLonger(d, n) ==
  {SubSeq(d, i + 1, i + 2 * n) : i \in {j \in Seconds(d) : Len(d) - j >= 2 * n}}

(* The coordinates in d, if they have n bytes each.                        *)
DecodePoint(d, n) ==
  {SubSeq(d, i + 1, Len(d)) : i \in {j \in Seconds(d) : Len(d) - j = 2 * n}}

(* Where the content begins of the OCTET STRING at the head of d, if there *)
(* is one: the decoder does not mind a length in more bytes than it needs, *)
(* nor what is left behind.  (Of the forms of a length, those with more    *)
(* bytes are left out.)                                                    *)
Starts(d) ==
  {i \in {3, 4} :
     /\ i <= Len(d) + 1
     /\ d[1] = 4
     /\ IF i = 3 THEN d[2] < LongFrom ELSE d[2] = 129
     /\ i - 1 + d[i - 1] <= Len(d)}

Content(d) == {SubSeq(d, i, i - 1 + d[i - 1]) : i \in Starts(d)}

(* The curve that GetKeySize finds for a point: half its length decides.   *)
CurveOf(c) ==
  {k \in Curves : Len(c) > 0 /\ c[1] = 4 /\ (Len(c) - 1) \div 2 = Size[k]}

(* The public keys that C_CreateObject may make from CKA_EC_PARAMS and     *)
(* CKA_EC_POINT: at most one.                                              *)
ImportedMscapi(params, d) ==
  {[curve |-> c, xy |-> xy] : c \in {params} \cap Curves,
                              xy \in IF params \in Curves THEN DecodePoint(d, Size[params]) ELSE {}}

(* osx does not look at the curve that the template names.  The platform   *)
(* refuses a point with a byte too many in the string.                     *)
ImportedOsx(d) ==
  UNION {{[curve |-> k, xy |-> Tail(c)] : k \in {n \in CurveOf(c) : Len(c) = 1 + 2 * Size[n]}} :
           c \in Content(d)}

Imported(b, params, d) == IF b = "mscapi" THEN ImportedMscapi(params, d) ELSE ImportedOsx(d)

-----------------------------------------------------------------------------
(* Signatures: a pair of numbers, each the sequence of its bytes without   *)
(* leading zeros.  DER marks their sign; its coder adds and strips that.   *)

LeadingZeros(v) ==
  CHOOSE m \in 0..Len(v) :
    (\A j \in 1..m : v[j] = 0) /\ (m < Len(v) => v[m + 1] # 0)

Stripped(v) ==
  LET m == LeadingZeros(v)
  IN  IF m = Len(v) THEN v ELSE SubSeq(v, m + 1, Len(v))

Zeros(n) == [i \in 1..n |-> 0]

(* Mutant of Padded: the zeros come last.                                  *)
PaddedRight(v, n) == v \o Zeros(n - Len(v))

(* Mutant of Padded: numbers keep their length.                            *)
NotPadded(v, n) == v

Padded(v, n) == Zeros(n - Len(v)) \o v

ToWebcrypto(der, n) == Padded(der[1], n) \o Padded(der[2], n)

FromWebcrypto(s) ==
  LET n == Len(s) \div 2
  IN  <<Stripped(SubSeq(s, 1, n)), Stripped(SubSeq(s, n + 1, 2 * n))>>

Numbers(n) == {v \in UNION {[1..m -> Bytes] : m \in 1..n} : v[1] # 0}

(* C_VerifyFinal with signature s of a key on curve c whose platform made  *)
(* der of it.                                                              *)
Verifies(s, c, der) == Len(s) = 2 * Size[c] /\ FromWebcrypto(s) = der

-----------------------------------------------------------------------------
(* Objects.                                                                *)

Init ==
  /\ backend \in {"mscapi", "osx"}
  /\ objects = [o \in Objects |-> None]
  /\ signature = None

(* A key object once the platform has its key: what the template said has  *)
(* been replaced by what the key says.  private: there is a private key    *)
(* with it; given: the point it was created from, or nothing.              *)
Assigned(k, params, d, private) ==
  [key |-> k, params |-> k.curve, point |-> EncodedPoint(k), private |-> private, given |-> d]

GenerateKeyPair(o, params) ==
  /\ objects[o] = None
  /\ \E xy \in Coordinates(Size[params]) :
       LET k == [curve |-> params, xy |-> xy]
       IN  objects' = [objects EXCEPT ![o] = Assigned(k, params, <<>>, TRUE)]
  /\ UNCHANGED <<backend, signature>>

CreatePublicKey(o, params, d) ==
  /\ objects[o] = None
  /\ \E k \in Imported(backend, params, d) :
       objects' = [objects EXCEPT ![o] = Assigned(k, params, d, FALSE)]
  /\ UNCHANGED <<backend, signature>>

(* The copy has the attributes and shares the key; osx refuses.            *)
CopyPublicKey(o, n) ==
  /\ backend = "mscapi"
  /\ objects[o] # None /\ objects[n] = None
  /\ objects' = [objects EXCEPT ![n] = [objects[o] EXCEPT !.private = FALSE]]
  /\ UNCHANGED <<backend, signature>>

DestroyKey(o) ==
  /\ backend = "mscapi"
  /\ objects[o] # None
  /\ objects' = [objects EXCEPT ![o] = None]
  /\ UNCHANGED <<backend, signature>>

Close ==
  /\ objects' = [o \in Objects |-> None]
  /\ UNCHANGED <<backend, signature>>

(* Signing with a private key: on mscapi the platform makes signatures in  *)
(* this form by itself.                                                    *)
Sign(o) ==
  /\ objects[o] # None
  /\ objects[o].private
  /\ LET c == objects[o].key.curve
         n == Size[c]
     IN  \E der \in Numbers(n) \X Numbers(n) :
           signature' = [curve |-> c, der |-> der, bytes |-> ToWebcrypto(der, n)]
  /\ UNCHANGED <<backend, objects>>

(* What applications give as a point: the attribute of a key, its bare     *)
(* coordinates with and without the leading 4, the attribute with its      *)
(* length in two bytes and with a byte too many in it or behind it, or as  *)
(* many bytes behind it as would make a key on another curve.              *)
Points ==
  UNION {LET p == Uncompressed(k.xy) e == EncodedPoint(k) n == Len(p)
         IN  {e, k.xy, p, e \o <<0>>, <<4, 129, n>> \o p,
              OctetHeader(n + 1, LongFrom) \o p \o <<0>>}
             \cup {e \o Zeros(2 * (Size[c] - Size[k.curve])) :
                     c \in {m \in Curves : Size[m] > Size[k.curve]}} : k \in Key}

Next ==
  \/ Close
  \/ \E o \in Objects :
       \/ \E c \in Curves : GenerateKeyPair(o, c)
       \/ \E params \in Curves \cup {None}, d \in Points : CreatePublicKey(o, params, d)
       \/ \E n \in Objects : CopyPublicKey(o, n)
       \/ DestroyKey(o)
       \/ Sign(o)

Spec == Init /\ [][Next]_vars

-----------------------------------------------------------------------------
(* Every variable holds a value of its type, the coordinates of a key have *)
(* the size of its curve, and a signature has twice that size, which is    *)
(* the length C_VerifyFinal asks for.                                      *)
IsKey(k) ==
  /\ k \in [curve : Curves, xy : Seq(Nat)]
  /\ Len(k.xy) = 2 * Size[k.curve]

Object == [key : [curve : Curves, xy : Seq(Nat)], params : Curves, point : Seq(Nat),
           private : BOOLEAN, given : Seq(Nat)]

TypeOK ==
  /\ backend \in {"mscapi", "osx"}
  /\ objects \in [Objects -> Object \cup {None}]
  /\ \A o \in Objects : objects[o] # None => IsKey(objects[o].key)
  /\ signature # None =>
       signature.curve \in Curves /\ Len(signature.bytes) = 2 * Size[signature.curve]

(* What is read from a key object makes the same key again, on this        *)
(* platform and on the other.                                              *)
ReadCreatesSame ==
  \A o \in Objects, b \in {"mscapi", "osx"} : objects[o] # None =>
    Imported(b, objects[o].params, objects[o].point) = {objects[o].key}

(* Point p stands in the octets d where platform b looks for it: on mscapi *)
(* they end with it, on osx it is what the string at their head announces  *)
(* by its length.                                                          *)
StandsIn(b, p, d) ==
  \E i \in 1..Len(d) :
    /\ i - 1 + Len(p) <= Len(d)
    /\ SubSeq(d, i, i - 1 + Len(p)) = p
    /\ b = "mscapi" => i - 1 + Len(p) = Len(d)
    /\ b = "osx" => i \in {3, 4} /\ d[1] = 4 /\ d[i - 1] = Len(p)

(* No key is made with other coordinates than stand in the given octets,   *)
(* whatever bytes are 4 in them.                                           *)
ImportedAsGiven ==
  \A o \in Objects : objects[o] # None /\ objects[o].given # <<>> =>
    StandsIn(backend, Uncompressed(objects[o].key.xy), objects[o].given)

(* A signature that has been handed out is, handed back, the one that the  *)
(* platform made, however many leading zeros its numbers have.             *)
SignatureVerifies ==
  signature # None => Verifies(signature.bytes, signature.curve, signature.der)
=============================================================================
