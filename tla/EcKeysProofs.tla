---------------------------- MODULE EcKeysProofs ----------------------------
(***************************************************************************)
(* Proofs about module EcKeys.  The length of a point is odd, so no byte   *)
(* between the tag of the OCTET STRING and the 4 that begins the point can *)
(* be 4: looking for the second 4 finds the point, whatever the curve.     *)
(***************************************************************************)
EXTENDS EcKeys, SequenceTheorems, WellFoundedInduction, TLAPS

(* What is known of a sequence put together of two.                        *)
LEMMA Concat ==
  ASSUME NEW s \in Seq(Nat), NEW t \in Seq(Nat)
  PROVE  /\ s \o t \in Seq(Nat)
         /\ Len(s \o t) = Len(s) + Len(t)
         /\ Len(s) \in Nat /\ Len(t) \in Nat
         /\ \A i \in 1..Len(s) : (s \o t)[i] = s[i]
         /\ \A i \in 1..Len(t) : (s \o t)[Len(s) + i] = t[i]
<1>1. /\ s \o t \in Seq(Nat)
      /\ Len(s \o t) = Len(s) + Len(t)
      /\ \A i \in 1..Len(s) + Len(t) :
           (s \o t)[i] = IF i <= Len(s) THEN s[i] ELSE t[i - Len(s)]
  BY ConcatProperties
<1>2. Len(s) \in Nat /\ Len(t) \in Nat
  OBVIOUS
<1> QED
  BY <1>1, <1>2

(* What is left of a sequence from its element a on.                       *)
LEMMA Suffix ==
  ASSUME NEW d \in Seq(Nat), NEW a \in Nat, 0 < a, a <= Len(d) + 1
  PROVE  /\ SubSeq(d, a, Len(d)) \in Seq(Nat)
         /\ Len(SubSeq(d, a, Len(d))) = Len(d) - a + 1
         /\ \A j \in 1..Len(d) - a + 1 : SubSeq(d, a, Len(d))[j] = d[a + j - 1]
<1>1. a \in Int /\ Len(d) \in Int
  OBVIOUS
<1>2. \A j \in a..Len(d) : d[j] \in Nat
  OBVIOUS
<1>3. PICK w : w = SubSeq(d, a, Len(d))
  OBVIOUS
<1>4. /\ w \in Seq(Nat)
      /\ Len(w) = IF a <= Len(d) THEN Len(d) - a + 1 ELSE 0
      /\ \A j \in 1..Len(d) - a + 1 : w[j] = d[a + j - 1]
  BY <1>1, <1>2, <1>3, SubSeqProperties
<1>5. Len(w) = Len(d) - a + 1
  <2>1. CASE a <= Len(d)
    BY <1>4, <2>1
  <2>2. CASE ~(a <= Len(d))
    BY <1>1, <1>4, <2>2
  <2> QED
    BY <2>1, <2>2
<1> QED
  BY <1>3, <1>4, <1>5, Zenon

(* The end of such a sequence is the second one.                           *)
LEMMA EndOfConcat ==
  ASSUME NEW s \in Seq(Nat), NEW t \in Seq(Nat)
  PROVE  SubSeq(s \o t, Len(s) + 1, Len(s \o t)) = t
<1>1. PICK d : d = s \o t
  OBVIOUS
<1>2. PICK a : a = Len(s) + 1
  OBVIOUS
<1>3. d \in Seq(Nat) /\ Len(d) = Len(s) + Len(t) /\ Len(s) \in Nat /\ Len(t) \in Nat
  BY <1>1, Concat
<1>4. a \in Nat /\ 0 < a /\ a <= Len(d) + 1 /\ Len(d) - a + 1 = Len(t)
  BY <1>2, <1>3
<1>5. PICK w : w = SubSeq(d, a, Len(d))
  OBVIOUS
<1>6. w \in Seq(Nat) /\ Len(w) = Len(d) - a + 1
      /\ \A j \in 1..Len(d) - a + 1 : w[j] = d[a + j - 1]
  BY <1>3, <1>4, <1>5, Suffix
<1>7. \A i \in 1..Len(t) : d[Len(s) + i] = t[i]
  BY <1>1, Concat
<1>8. ASSUME NEW i \in 1..Len(t) PROVE w[i] = t[i]
  <2>1. a + i - 1 = Len(s) + i
    BY <1>2, <1>3
  <2>2. w[i] = d[a + i - 1]
    BY <1>4, <1>6, Zenon
  <2> QED
    BY <1>7, <2>1, <2>2, Zenon
<1>9. w = t
  BY <1>4, <1>6, <1>8, SeqEqual
<1> QED
  BY <1>1, <1>2, <1>5, <1>9, Zenon

-----------------------------------------------------------------------------
LEMMA LongFromBound == LongFrom \in Nat /\ LongFrom <= 129
BY LongFromAssumption

(* The header of n bytes: two or three bytes, and only the first is 4 if n *)
(* is odd.                                                                 *)
LEMMA Header ==
  ASSUME NEW n \in Nat
  PROVE  LET h == OctetHeader(n, LongFrom)
         IN  /\ h \in Seq(Nat)
             /\ Len(h) = IF n < LongFrom THEN 2 ELSE 3
             /\ h[1] = 4
             /\ n # 4 => \A i \in 2..Len(h) : h[i] # 4
  BY LongFromBound DEF OctetHeader

(* A point, and the attribute made of it.                                  *)
LEMMA Encoded ==
  ASSUME NEW k, IsKey(k)
  PROVE  /\ Size[k.curve] \in Nat \ {0}
         /\ k.xy \in Seq(Nat)
         /\ Uncompressed(k.xy) \in Seq(Nat)
         /\ Len(Uncompressed(k.xy)) = 1 + 2 * Size[k.curve]
         /\ Uncompressed(k.xy)[1] = 4
         /\ EncodedPoint(k) \in Seq(Nat)
         /\ EncodedPoint(k) = OctetHeader(1 + 2 * Size[k.curve], LongFrom) \o Uncompressed(k.xy)
<1>1. Size[k.curve] \in Nat \ {0} /\ k.xy \in Seq(Nat) /\ Len(k.xy) = 2 * Size[k.curve]
  BY SizeAssumption DEF IsKey
<1>2. <<4>> \in Seq(Nat) /\ Len(<<4>>) = 1 /\ <<4>>[1] = 4
  OBVIOUS
<1>3. /\ Uncompressed(k.xy) \in Seq(Nat)
      /\ Len(Uncompressed(k.xy)) = 1 + 2 * Size[k.curve]
      /\ Uncompressed(k.xy)[1] = 4
  BY <1>1, <1>2, Concat DEF Uncompressed
<1>4. OctetHeader(1 + 2 * Size[k.curve], LongFrom) \in Seq(Nat)
  BY <1>1, Header
<1>5. EncodedPoint(k) \in Seq(Nat)
  BY <1>3, <1>4, Concat DEF EncodedPoint
<1> QED
  BY <1>1, <1>3, <1>5 DEF EncodedPoint

(* The second byte that is 4 is where the point begins.                    *)
LEMMA SecondFour ==
  ASSUME NEW h \in Seq(Nat), NEW p \in Seq(Nat),
         Len(h) > 0, h[1] = 4, \A i \in 2..Len(h) : h[i] # 4,
         Len(p) > 0, p[1] = 4
  PROVE  Seconds(h \o p) = {Len(h) + 1}
<1> DEFINE d == h \o p
           n == Len(h) + 1
<1>1. /\ d \in Seq(Nat) /\ Len(d) = Len(h) + Len(p)
      /\ Len(h) \in Nat /\ Len(p) \in Nat
      /\ \A i \in 1..Len(h) : d[i] = h[i]
      /\ \A i \in 1..Len(p) : d[Len(h) + i] = p[i]
  BY Concat
<1>2. d[n] = 4 /\ d[1] = 4 /\ \A i \in 2..Len(h) : d[i] # 4
  BY <1>1
<1>3. n \in Nat /\ n > 1 /\ Len(h) = n - 1
  BY <1>1
<1> HIDE DEF d, n
<1>4. 1 \in Fours(d) /\ n \in Fours(d)
  BY <1>1, <1>2, <1>3, SMTT(30) DEF Fours
<1>5. \A i \in Fours(d) : i = 1 \/ i >= n
  <2> SUFFICES ASSUME NEW i \in Fours(d), i # 1, i < n
               PROVE  FALSE
    BY <1>1, <1>3, SMTT(30) DEF Fours
  <2>1. i \in 1..Len(d) /\ d[i] = 4
    BY DEF Fours
  <2>2. i \in 2..Len(h)
    BY <1>1, <1>3, <2>1
  <2> QED
    BY <1>2, <2>1, <2>2
<1>6. Fours(d) \subseteq Nat
  BY <1>1 DEF Fours
<1>7. n \in Seconds(d)
  BY <1>3, <1>4, <1>5, <1>6 DEF Seconds
<1>8. ASSUME NEW i \in Seconds(d) PROVE i = n
  <2>1. i \in Fours(d)
    BY DEF Seconds
  <2>2. PICK j \in Fours(d) : j < i /\ \A m \in Fours(d) : m < i => m = j
    BY DEF Seconds
  <2>3. j = 1 /\ i >= n
    BY <1>3, <1>4, <1>5, <1>6, <2>1, <2>2
  <2> QED
    BY <1>3, <1>4, <1>6, <2>1, <2>2, <2>3
<1> QED
  BY <1>7, <1>8 DEF d, n

(* The header of a point has the one 4 that is its tag.                    *)
LEMMA HeaderOfPoint ==
  ASSUME NEW s \in Nat \ {0}
  PROVE  LET h == OctetHeader(1 + 2 * s, LongFrom)
         IN  /\ h \in Seq(Nat)
             /\ Len(h) > 0
             /\ h[1] = 4
             /\ \A i \in 2..Len(h) : h[i] # 4
<1>1. 1 + 2 * s \in Nat /\ 1 + 2 * s # 4
  OBVIOUS
<1> QED
  BY <1>1, Header, LongFromBound

(* Coordinates that follow such a header and a 4 are found behind it.      *)
LEMMA DecodedBehind ==
  ASSUME NEW h \in Seq(Nat), NEW c \in Seq(Nat), NEW n \in Nat,
         Len(h) > 0, h[1] = 4, \A i \in 2..Len(h) : h[i] # 4,
         Len(c) = 2 * n
  PROVE  DecodePoint(h \o (<<4>> \o c), n) = {c}
<1>1. <<4>> \in Seq(Nat) /\ Len(<<4>>) = 1 /\ <<4>>[1] = 4
  OBVIOUS
<1>2. PICK p : p = <<4>> \o c
  OBVIOUS
<1>3. p \in Seq(Nat) /\ Len(p) = 1 + 2 * n /\ Len(p) > 0 /\ p[1] = 4
  BY <1>1, <1>2, Concat
<1>4. PICK d : d = h \o p
  OBVIOUS
<1>5. d \in Seq(Nat) /\ Len(d) = Len(h) + Len(p) /\ Len(h) \in Nat
  BY <1>3, <1>4, Concat
<1>6. Seconds(d) = {Len(h) + 1}
  <2>1. Seconds(h \o p) = {Len(h) + 1}
    BY <1>3, SecondFour
  <2> QED
    BY <1>4, <2>1
<1>7. SubSeq(d, Len(h) + 2, Len(d)) = c
  <2>1. PICK a : a = Len(h) + 2
    OBVIOUS
  <2>2. PICK w : w = SubSeq(d, a, Len(d))
    OBVIOUS
  <2>3. a \in Nat /\ 0 < a /\ a <= Len(d) + 1 /\ Len(d) - a + 1 = Len(c)
    <3>1. Len(p) = 1 + Len(c) /\ Len(c) \in Nat /\ Len(p) \in Nat
      BY <1>1, <1>2, Concat
    <3>2. Len(h) \in Nat /\ Len(d) = Len(h) + Len(p)
      BY <1>5
    <3>3. a \in Nat /\ 0 < a
      BY <2>1, <3>2
    <3>4. Len(d) - a + 1 = Len(c) /\ a <= Len(d) + 1
      BY <2>1, <3>1, <3>2
    <3> QED
      BY <3>3, <3>4
  <2>4. w \in Seq(Nat) /\ Len(w) = Len(d) - a + 1
        /\ \A i \in 1..Len(d) - a + 1 : w[i] = d[a + i - 1]
    BY <1>5, <2>2, <2>3, Suffix
  <2>5. \A i \in 1..Len(p) : d[Len(h) + i] = p[i]
    BY <1>3, <1>4, Concat
  <2>6. \A i \in 1..Len(c) : p[1 + i] = c[i]
    BY <1>1, <1>2, Concat
  <2>7. ASSUME NEW i \in 1..Len(c) PROVE w[i] = c[i]
    <3>1. 1 + i \in 1..Len(p) /\ a + i - 1 = Len(h) + (1 + i)
      BY <1>3, <1>5, <2>1
    <3>2. w[i] = d[a + i - 1]
      BY <2>3, <2>4, Zenon
    <3>3. d[Len(h) + (1 + i)] = p[1 + i]
      BY <2>5, <3>1, Zenon
    <3>4. p[1 + i] = c[i]
      BY <2>6, Zenon
    <3> QED
      BY <3>1, <3>2, <3>3, <3>4, Zenon
  <2>8. w = c
    BY <2>3, <2>4, <2>7, SeqEqual
  <2> QED
    BY <2>1, <2>2, <2>8, Zenon
<1>8. {i \in {Len(h) + 1} : Len(d) - i = 2 * n} = {Len(h) + 1}
  <2>1. Len(d) - (Len(h) + 1) = 2 * n
    BY <1>3, <1>5
  <2> QED
    BY <2>1, Zenon
<1>9. (Len(h) + 1) + 1 = Len(h) + 2
  BY <1>5
<1>10. DecodePoint(d, n) = {SubSeq(d, i + 1, Len(d)) : i \in {Len(h) + 1}}
  BY <1>6, <1>8, Zenon DEF DecodePoint
<1>11. DecodePoint(d, n) = {SubSeq(d, (Len(h) + 1) + 1, Len(d))}
  BY <1>10
<1>12. DecodePoint(d, n) = {c}
  BY <1>7, <1>9, <1>11, Zenon
<1> QED
  BY <1>2, <1>4, <1>12, Zenon

(* What mscapi finds in the attribute of a key.                            *)
LEMMA Decoded ==
  ASSUME NEW k, IsKey(k)
  PROVE  DecodePoint(EncodedPoint(k), Size[k.curve]) = {k.xy}
<1>1. PICK s : s = Size[k.curve]
  OBVIOUS
<1>2. PICK h : h = OctetHeader(1 + 2 * s, LongFrom)
  OBVIOUS
<1>3. s \in Nat \ {0} /\ k.xy \in Seq(Nat) /\ Len(k.xy) = 2 * s
  BY <1>1, SizeAssumption DEF IsKey
<1>4. h \in Seq(Nat) /\ Len(h) > 0 /\ h[1] = 4 /\ \A i \in 2..Len(h) : h[i] # 4
  BY <1>2, <1>3, HeaderOfPoint
<1>5. DecodePoint(h \o (<<4>> \o k.xy), s) = {k.xy}
  BY <1>3, <1>4, DecodedBehind
<1> QED
  BY <1>1, <1>2, <1>5, Zenon DEF EncodedPoint, Uncompressed

(* An OCTET STRING has one content: the lengths 129 and LongFrom do not    *)
(* meet, so its header has one end.                                        *)
LEMMA OneStart ==
  ASSUME NEW d \in Seq(Nat), NEW i \in Starts(d), NEW j \in Starts(d)
  PROVE  i = j
<1>1. \A m \in Starts(d) : m = 3 \/ m = 4
  BY DEF Starts
<1>2. 3 \in Starts(d) => d[2] < LongFrom
  BY DEF Starts
<1>3. 4 \in Starts(d) => d[2] = 129
  BY DEF Starts
<1>4. ~(3 \in Starts(d) /\ 4 \in Starts(d))
  BY <1>2, <1>3, LongFromBound
<1> QED
  BY <1>1, <1>4, Zenon

(* What is known of the content of an OCTET STRING.                        *)
LEMMA Started ==
  ASSUME NEW d \in Seq(Nat), NEW i \in Starts(d), NEW c, c = SubSeq(d, i, i - 1 + d[i - 1])
  PROVE  /\ i \in {3, 4} /\ d[1] = 4
         /\ c \in Seq(Nat) /\ Len(c) = d[i - 1]
         /\ i - 1 + Len(c) <= Len(d)
         /\ Len(c) > 0 => c[1] = d[i]
<1>1. /\ i \in {3, 4} /\ i <= Len(d) + 1 /\ d[1] = 4 /\ Len(d) \in Nat
      /\ i - 1 + d[i - 1] <= Len(d)
  BY DEF Starts
<1>2. PICK n : n = d[i - 1]
  OBVIOUS
<1>3. n \in Nat
  <2>1. i - 1 \in 1..Len(d)
    BY <1>1
  <2> QED
    BY <1>2, <2>1
<1>4. PICK b : b = i - 1 + n
  OBVIOUS
<1>5. i \in Int /\ b \in Int /\ b - i + 1 = n /\ b <= Len(d) /\ 1 <= i
  <2>1. i \in Nat /\ 1 <= i
    BY <1>1
  <2>2. b <= Len(d)
    BY <1>1, <1>2, <1>4, Zenon
  <2> QED
    BY <1>3, <1>4, <2>1, <2>2
<1>6. \A j \in i..b : d[j] \in Nat
  <2>1. \A j \in i..b : j \in 1..Len(d)
    BY <1>5
  <2> QED
    BY <2>1
<1>7. c = SubSeq(d, i, b)
  BY <1>2, <1>4, Zenon
<1>8. /\ c \in Seq(Nat)
      /\ Len(c) = IF i <= b THEN b - i + 1 ELSE 0
      /\ \A j \in 1..b - i + 1 : c[j] = d[i + j - 1]
  <2>1. i \in Int /\ b \in Int
    BY <1>5, Zenon
  <2>2. /\ SubSeq(d, i, b) \in Seq(Nat)
        /\ Len(SubSeq(d, i, b)) = IF i <= b THEN b - i + 1 ELSE 0
        /\ \A j \in 1..b - i + 1 : SubSeq(d, i, b)[j] = d[i + j - 1]
    BY <2>1, <1>6, SubSeqProperties
  <2> QED
    BY <1>7, <2>2, Zenon
<1>9. Len(c) = n
  <2>1. CASE i <= b
    BY <1>5, <1>8, <2>1
  <2>2. CASE ~(i <= b)
    BY <1>3, <1>5, <1>8, <2>2
  <2> QED
    BY <2>1, <2>2
<1>10. Len(c) > 0 => c[1] = d[i]
  <2> SUFFICES ASSUME Len(c) > 0 PROVE c[1] = d[i]
    OBVIOUS
  <2>1. 1 \in 1..b - i + 1 /\ i + 1 - 1 = i
    <3>1. n > 0 /\ b - i + 1 = n
      BY <1>5, <1>9
    <3>2. 1 \in 1..n /\ i + 1 - 1 = i
      BY <1>3, <1>5, <3>1
    <3> QED
      BY <3>1, <3>2, Zenon
  <2>2. c[1] = d[i + 1 - 1]
    BY <1>8, <2>1, Zenon
  <2> QED
    BY <2>1, <2>2, Zenon
<1>11. i - 1 + Len(c) <= Len(d)
  BY <1>4, <1>5, <1>9
<1> QED
  BY <1>1, <1>2, <1>8, <1>9, <1>10, <1>11

(* What osx finds in the attribute of a key.                               *)
LEMMA ContentOfPoint ==
  ASSUME NEW k, IsKey(k)
  PROVE  Content(EncodedPoint(k)) = {Uncompressed(k.xy)}
<1>1. PICK p : p = Uncompressed(k.xy)
  OBVIOUS
<1>2. PICK e : e = EncodedPoint(k)
  OBVIOUS
<1>3. p \in Seq(Nat) /\ Len(p) = 1 + 2 * Size[k.curve] /\ e \in Seq(Nat)
  BY <1>1, <1>2, Encoded
<1>4. e = OctetHeader(1 + 2 * Size[k.curve], LongFrom) \o p
  BY <1>1, <1>2, Zenon DEF EncodedPoint
<1>5. PICK h : h = OctetHeader(Len(p), LongFrom)
  OBVIOUS
<1>6. e = h \o p
  BY <1>3, <1>4, <1>5, Zenon
<1>7. Len(p) \in Nat /\ LongFrom \in Nat
  BY <1>3, LongFromBound
<1>8. h \in Seq(Nat) /\ (Len(h) = 2 \/ Len(h) = 3)
  BY <1>5, <1>7, Header
<1>9. /\ Len(e) = Len(h) + Len(p)
      /\ \A j \in 1..Len(h) : e[j] = h[j]
  <2>1. /\ Len(h \o p) = Len(h) + Len(p)
        /\ \A j \in 1..Len(h) : (h \o p)[j] = h[j]
    BY <1>3, <1>8, Concat, Zenon
  <2> QED
    BY <1>6, <2>1, Zenon
<1>10. PICK i : i = Len(h) + 1
  OBVIOUS
<1>11. i \in {3, 4} /\ i - 1 = Len(h)
  <2>1. CASE Len(h) = 2
    BY <1>10, <2>1
  <2>2. CASE Len(h) = 3
    BY <1>10, <2>2
  <2> QED
    BY <1>8, <2>1, <2>2
<1>12. e[i - 1] = Len(p) /\ i \in Starts(e)
  <2>1. CASE Len(p) < LongFrom
    <3>1. h = <<4, Len(p)>>
      BY <1>5, <2>1 DEF OctetHeader
    <3>2. Len(h) = 2 /\ h[1] = 4 /\ h[2] = Len(p)
      BY <3>1
    <3>3. e[1] = 4 /\ e[2] = Len(p) /\ i = 3
      BY <1>9, <1>10, <3>2
    <3> QED
      BY <1>7, <1>9, <2>1, <3>2, <3>3 DEF Starts
  <2>2. CASE ~(Len(p) < LongFrom)
    <3>1. h = <<4, 129, Len(p)>>
      BY <1>5, <2>2 DEF OctetHeader
    <3>2. Len(h) = 3 /\ h[1] = 4 /\ h[2] = 129 /\ h[3] = Len(p)
      BY <3>1
    <3>3. e[1] = 4 /\ e[2] = 129 /\ e[3] = Len(p) /\ i = 4
      BY <1>9, <1>10, <3>2
    <3> QED
      BY <1>7, <1>9, <3>2, <3>3 DEF Starts
  <2> QED
    BY <2>1, <2>2
<1>13. i - 1 + e[i - 1] = Len(e)
  BY <1>7, <1>9, <1>11, <1>12
<1>14. SubSeq(e, i, i - 1 + e[i - 1]) = p
  <2>1. SubSeq(h \o p, Len(h) + 1, Len(h \o p)) = p
    BY <1>3, <1>8, EndOfConcat
  <2> QED
    BY <1>6, <1>10, <1>13, <2>1, Zenon
<1>15. Starts(e) = {i}
  <2>1. \A j \in Starts(e) : j = i
    BY <1>3, <1>12, OneStart
  <2> QED
    BY <1>12, <2>1
<1>16. Content(e) = {p}
  BY <1>14, <1>15 DEF Content
<1> QED
  BY <1>1, <1>2, <1>16, Zenon

-----------------------------------------------------------------------------
(* Reading a key and creating one from that gives the key, on either       *)
(* platform.                                                               *)
LEMMA ReadMscapi ==
  ASSUME NEW k, IsKey(k)
  PROVE  ImportedMscapi(k.curve, EncodedPoint(k)) = {k}
<1>1. k = [curve |-> k.curve, xy |-> k.xy] /\ k.curve \in Curves
  BY DEF IsKey
<1>2. DecodePoint(EncodedPoint(k), Size[k.curve]) = {k.xy}
  BY Decoded
<1>3. {k.curve} \cap Curves = {k.curve}
  BY <1>1
<1>4. ImportedMscapi(k.curve, EncodedPoint(k)) =
        {[curve |-> c, xy |-> xy] : c \in {k.curve}, xy \in {k.xy}}
  BY <1>1, <1>2, <1>3 DEF ImportedMscapi
<1> QED
  BY <1>1, <1>4

LEMMA CurveOfPoint ==
  ASSUME NEW k, IsKey(k)
  PROVE  CurveOf(Uncompressed(k.xy)) = {k.curve}
<1> DEFINE p == Uncompressed(k.xy)
           s == Size[k.curve]
<1>1. s \in Nat \ {0} /\ Len(p) = 1 + 2 * s /\ p[1] = 4
  BY Encoded
<1>2. k.curve \in Curves
  BY DEF IsKey
<1> HIDE DEF p
<1>3. Len(p) > 0 /\ (Len(p) - 1) \div 2 = s
  BY <1>1, SMTT(30)
<1>4. CurveOf(p) = {k.curve}
  BY <1>1, <1>2, <1>3, SizesDiffer DEF CurveOf
<1> QED
  BY <1>4 DEF p

LEMMA TailOfConcat ==
  ASSUME NEW c \in Seq(Nat)
  PROVE  Tail(<<4>> \o c) = c
<1>1. <<4>> \in Seq(Nat) /\ Len(<<4>>) = 1
  OBVIOUS
<1>2. PICK p : p = <<4>> \o c
  OBVIOUS
<1>3. /\ p \in Seq(Nat) /\ Len(p) = 1 + Len(c) /\ Len(c) \in Nat
      /\ \A i \in 1..Len(c) : p[1 + i] = c[i]
  BY <1>1, <1>2, Concat
<1>4. Tail(p) \in Seq(Nat) /\ Len(Tail(p)) = Len(c)
  <2>1. p # <<>> /\ Len(p) - 1 = Len(c)
    BY <1>3
  <2> QED
    BY <1>3, <2>1
<1>5. \A i \in 1..Len(c) : Tail(p)[i] = c[i]
  BY <1>3, <1>4
<1>6. Tail(p) = c
  BY <1>4, <1>5, SeqEqual
<1> QED
  BY <1>2, <1>6

LEMMA TailOfPoint ==
  ASSUME NEW k, IsKey(k)
  PROVE  Tail(Uncompressed(k.xy)) = k.xy
BY Encoded, TailOfConcat DEF Uncompressed

LEMMA ReadOsx ==
  ASSUME NEW k, IsKey(k)
  PROVE  ImportedOsx(EncodedPoint(k)) = {k}
<1>1. k = [curve |-> k.curve, xy |-> k.xy] /\ k.curve \in Curves
  BY DEF IsKey
<1> DEFINE p == Uncompressed(k.xy)
<1>2. Content(EncodedPoint(k)) = {p} /\ CurveOf(p) = {k.curve} /\ Tail(p) = k.xy
  BY ContentOfPoint, CurveOfPoint, TailOfPoint
<1>3. Len(p) = 1 + 2 * Size[k.curve]
  BY Encoded
<1> HIDE DEF p
<1>4. {n \in CurveOf(p) : Len(p) = 1 + 2 * Size[n]} = {k.curve}
  BY <1>2, <1>3
<1>5. {[curve |-> n, xy |-> Tail(p)] : n \in {m \in CurveOf(p) : Len(p) = 1 + 2 * Size[m]}} = {k}
  BY <1>1, <1>2, <1>4
<1>6. ImportedOsx(EncodedPoint(k)) =
        UNION {{[curve |-> n, xy |-> Tail(c)] : n \in {m \in CurveOf(c) : Len(c) = 1 + 2 * Size[m]}} :
                 c \in {p}}
  BY <1>2 DEF ImportedOsx
<1> QED
  BY <1>5, <1>6

-----------------------------------------------------------------------------
(* A sequence behind a byte 4.                                             *)
LEMMA BehindFour ==
  ASSUME NEW c \in Seq(Nat), NEW p, p = Uncompressed(c)
  PROVE  p \in Seq(Nat) /\ Len(p) = 1 + Len(c) /\ p[1] = 4 /\ \A j \in 1..Len(c) : p[1 + j] = c[j]
<1>1. <<4>> \in Seq(Nat) /\ Len(<<4>>) = 1 /\ <<4>>[1] = 4
  OBVIOUS
<1> QED
  BY <1>1, Concat DEF Uncompressed

(* A byte 4 and what follows it.                                           *)
LEMMA FromFourOn ==
  ASSUME NEW d \in Seq(Nat), NEW i \in Nat, 0 < i, i <= Len(d), d[i] = 4
  PROVE  LET c == SubSeq(d, i + 1, Len(d))
         IN  /\ c \in Seq(Nat) /\ Len(c) = Len(d) - i
             /\ Len(Uncompressed(c)) = Len(d) - i + 1
             /\ SubSeq(d, i, Len(d)) = Uncompressed(c)
<1>1. PICK a : a = i + 1
  OBVIOUS
<1>2. a \in Nat /\ 0 < a /\ a <= Len(d) + 1 /\ Len(d) \in Nat
  BY <1>1
<1>3. PICK c : c = SubSeq(d, a, Len(d))
  OBVIOUS
<1>4. c \in Seq(Nat) /\ Len(c) = Len(d) - a + 1
      /\ \A j \in 1..Len(d) - a + 1 : c[j] = d[a + j - 1]
  BY <1>2, <1>3, Suffix
<1>5. Len(c) = Len(d) - i
  BY <1>1, <1>2, <1>4
<1>7. PICK p : p = Uncompressed(c)
  OBVIOUS
<1>8. p \in Seq(Nat) /\ Len(p) = 1 + Len(c) /\ p[1] = 4 /\ \A j \in 1..Len(c) : p[1 + j] = c[j]
  BY <1>4, <1>7, BehindFour, Zenon
<1>9. PICK w : w = SubSeq(d, i, Len(d))
  OBVIOUS
<1>10. i <= Len(d) + 1
  BY <1>2
<1>11. w \in Seq(Nat) /\ Len(w) = Len(d) - i + 1
       /\ \A j \in 1..Len(d) - i + 1 : w[j] = d[i + j - 1]
  BY <1>9, <1>10, Suffix
<1>12. Len(p) = Len(d) - i + 1
  BY <1>2, <1>5, <1>8
<1>13. ASSUME NEW j \in 1..Len(p) PROVE w[j] = p[j]
  <2>1. w[j] = d[i + j - 1]
    BY <1>11, <1>12, Zenon
  <2>2. CASE j = 1
    <3>1. i + 1 - 1 = i
      OBVIOUS
    <3> QED
      BY <1>8, <2>1, <2>2, <3>1, Zenon
  <2>3. CASE j # 1
    <3>1. PICK m \in 1..Len(c) : j = 1 + m
      <4>1. j - 1 \in 1..Len(c) /\ j = 1 + (j - 1)
        BY <1>2, <1>5, <1>12, <2>3
      <4> QED
        BY <4>1
    <3>2. i + j - 1 = a + m - 1
      BY <1>1, <3>1
    <3>3. c[m] = d[a + m - 1]
      <4>1. m \in 1..Len(d) - a + 1
        BY <1>4
      <4> QED
        BY <1>4, <4>1, Zenon
    <3>4. p[1 + m] = c[m]
      BY <1>8
    <3> QED
      BY <2>1, <3>1, <3>2, <3>3, <3>4, Zenon
  <2> QED
    BY <2>2, <2>3
<1>14. w = p
  BY <1>8, <1>11, <1>12, <1>13, SeqEqual
<1> QED
  BY <1>1, <1>3, <1>4, <1>5, <1>7, <1>9, <1>12, <1>14, Zenon

(* The octets d end with the point of the key k.                           *)
Ends(k, d) ==
  LET p == Uncompressed(k.xy)
  IN  Len(p) <= Len(d) /\ SubSeq(d, Len(d) - Len(p) + 1, Len(d)) = p

LEMMA MscapiImportsKeys ==
  ASSUME NEW params, NEW d \in Seq(Nat), NEW k \in ImportedMscapi(params, d)
  PROVE  IsKey(k) /\ Ends(k, d)
<1>1. PICK c \in Curves : \E xy \in DecodePoint(d, Size[c]) : k = [curve |-> c, xy |-> xy]
  BY DEF ImportedMscapi
<1>0. PICK xy \in DecodePoint(d, Size[c]) : k = [curve |-> c, xy |-> xy]
  BY <1>1
<1>2. PICK n : n = Size[c]
  OBVIOUS
<1>3. n \in Nat
  BY <1>2, SizeAssumption
<1>4. PICK i \in Seconds(d) : Len(d) - i = 2 * n /\ xy = SubSeq(d, i + 1, Len(d))
  BY <1>0, <1>2 DEF DecodePoint
<1>5. i \in 1..Len(d) /\ d[i] = 4
  BY <1>4 DEF Seconds, Fours
<1>6. i \in Nat /\ 0 < i /\ i <= Len(d) /\ Len(d) \in Nat
  BY <1>5
<1>7. /\ xy \in Seq(Nat) /\ Len(xy) = Len(d) - i
      /\ Len(Uncompressed(xy)) = Len(d) - i + 1
      /\ SubSeq(d, i, Len(d)) = Uncompressed(xy)
  BY <1>4, <1>5, <1>6, FromFourOn
<1>8. IsKey(k)
  BY <1>0, <1>2, <1>4, <1>7 DEF IsKey
<1>9. k.xy = xy
  BY <1>0
<1>10. PICK m : m = Len(Uncompressed(xy))
  OBVIOUS
<1>11. m <= Len(d) /\ Len(d) - m + 1 = i
  BY <1>6, <1>7, <1>10
<1>12. Ends(k, d)
  BY <1>7, <1>9, <1>10, <1>11, Zenon DEF Ends
<1> QED
  BY <1>8, <1>12

(* The point of the key k is the content of the OCTET STRING at the head   *)
(* of d.                                                                   *)
Heads(k, d) ==
  LET p == Uncompressed(k.xy)
  IN  \E i \in Starts(d) : Len(p) = d[i - 1] /\ SubSeq(d, i, i - 1 + d[i - 1]) = p

LEMMA OsxImportsKeys ==
  ASSUME NEW d \in Seq(Nat), NEW k \in ImportedOsx(d)
  PROVE  IsKey(k) /\ Heads(k, d)
<1>0. PICK c \in Content(d) : \E n \in CurveOf(c) :
        Len(c) = 1 + 2 * Size[n] /\ k = [curve |-> n, xy |-> Tail(c)]
  BY DEF ImportedOsx
<1>1. PICK n \in CurveOf(c) : Len(c) = 1 + 2 * Size[n] /\ k = [curve |-> n, xy |-> Tail(c)]
  BY <1>0
<1>2. n \in Curves /\ Len(c) > 0 /\ c[1] = 4
  BY <1>1 DEF CurveOf
<1>3. Size[n] \in Nat
  BY <1>2, SizeAssumption
<1>4. PICK i \in Starts(d) : c = SubSeq(d, i, i - 1 + d[i - 1])
  BY DEF Content
<1>5. c \in Seq(Nat) /\ Len(c) = d[i - 1] /\ Len(c) \in Nat
  <2>1. c \in Seq(Nat) /\ Len(c) = d[i - 1]
    BY <1>4, Started, Zenon
  <2> QED
    BY <2>1
<1>6. c = Uncompressed(Tail(c))
  <2>1. PICK t : t = SubSeq(c, 1 + 1, Len(c))
    OBVIOUS
  <2>2. SubSeq(c, 1, Len(c)) = Uncompressed(t) /\ t \in Seq(Nat) /\ Len(t) = Len(c) - 1
    <3>1. 1 \in Nat /\ 0 < 1 /\ 1 <= Len(c)
      BY <1>2, <1>5
    <3> QED
      BY <1>2, <1>5, <2>1, <3>1, FromFourOn
  <2>3. SubSeq(c, 1, Len(c)) = c
    BY <1>5, SubSeqFull
  <2>4. Tail(c) = t
    <3>1. Uncompressed(t) = <<4>> \o t
      BY DEF Uncompressed
    <3>2. c = <<4>> \o t
      BY <2>2, <2>3, <3>1, Zenon
    <3> QED
      BY <2>2, <3>2, TailOfConcat
  <2> QED
    BY <2>2, <2>3, <2>4, Zenon
<1>7. IsKey(k)
  <2>1. Tail(c) \in Seq(Nat) /\ Len(Tail(c)) = Len(c) - 1
    BY <1>2, <1>5
  <2>2. Len(Tail(c)) = 2 * Size[n]
    BY <1>1, <1>3, <2>1
  <2> QED
    BY <1>1, <1>2, <2>1, <2>2 DEF IsKey
<1>8. Heads(k, d)
  <2>1. Uncompressed(k.xy) = c
    BY <1>1, <1>6
  <2> QED
    BY <1>4, <1>5, <2>1, Zenon DEF Heads
<1> QED
  BY <1>7, <1>8

(* Where a given point stands in the octets, as each platform reads them.  *)
Given(b, k, d) == IF b = "mscapi" THEN Ends(k, d) ELSE Heads(k, d)

LEMMA GivenStands ==
  ASSUME NEW b, NEW d \in Seq(Nat), NEW k, IsKey(k), Given(b, k, d),
         NEW p, p = Uncompressed(k.xy)
  PROVE  StandsIn(b, p, d)
<1>1. Len(p) \in Nat /\ Len(p) > 0 /\ Len(d) \in Nat
  <2>1. Size[k.curve] \in Nat /\ Len(p) = 1 + 2 * Size[k.curve]
    BY Encoded
  <2> QED
    BY <2>1
<1>2. CASE b = "mscapi"
  <2>1. Len(p) <= Len(d) /\ SubSeq(d, Len(d) - Len(p) + 1, Len(d)) = p
    BY <1>2, Zenon DEF Given, Ends
  <2>2. PICK i : i = Len(d) - Len(p) + 1
    OBVIOUS
  <2>3. i \in 1..Len(d) /\ i - 1 + Len(p) = Len(d) /\ i - 1 + Len(p) <= Len(d)
    BY <1>1, <2>1, <2>2
  <2>4. SubSeq(d, i, i - 1 + Len(p)) = p
    BY <2>1, <2>2, <2>3, Zenon
  <2> QED
    BY <1>2, <2>3, <2>4 DEF StandsIn
<1>3. CASE b # "mscapi"
  <2>1. PICK i \in Starts(d) : Len(p) = d[i - 1] /\ SubSeq(d, i, i - 1 + d[i - 1]) = p
    BY <1>3, Zenon DEF Given, Heads
  <2>2. i \in {3, 4} /\ d[1] = 4 /\ i - 1 + Len(p) <= Len(d)
    BY <2>1 DEF Starts
  <2>3. i \in 1..Len(d)
    BY <1>1, <2>2
  <2>4. SubSeq(d, i, i - 1 + Len(p)) = p
    BY <2>1, Zenon
  <2> QED
    BY <1>3, <2>1, <2>2, <2>3, <2>4 DEF StandsIn
<1> QED
  BY <1>2, <1>3

-----------------------------------------------------------------------------
(* Numbers.                                                                *)

LEMMA NumberSeq ==
  ASSUME NEW n \in Nat \ {0}, NEW v \in Numbers(n)
  PROVE  v \in Seq(Nat) /\ Len(v) \in 1..n /\ v[1] # 0
<1>1. PICK m \in 1..n : v \in [1..m -> Bytes]
  BY DEF Numbers
<1>2. v \in Seq(Nat) /\ Len(v) = m
  <2>1. v \in [1..m -> Nat] /\ m \in Nat
    <3>1. m \in Nat
      OBVIOUS
    <3>2. \A i \in 1..m : v[i] \in Nat
      BY <1>1, BytesAssumption
    <3>3. v = [i \in 1..m |-> v[i]]
      BY <1>1
    <3> QED
      BY <3>1, <3>2, <3>3
  <2> QED
    BY <2>1
<1> QED
  BY <1>2 DEF Numbers

LEMMA PaddedSeq ==
  ASSUME NEW n \in Nat \ {0}, NEW v \in Numbers(n)
  PROVE  /\ Padded(v, n) \in Seq(Nat) /\ Len(Padded(v, n)) = n
         /\ Zeros(n - Len(v)) \in Seq(Nat) /\ Len(Zeros(n - Len(v))) = n - Len(v)
         /\ n - Len(v) \in 0..n - 1
<1>1. v \in Seq(Nat) /\ Len(v) \in 1..n
  BY NumberSeq
<1>2. PICK m : m = n - Len(v)
  OBVIOUS
<1>3. m \in Nat /\ m + Len(v) = n /\ m \in 0..n - 1
  BY <1>1, <1>2
<1>4. PICK z : z = Zeros(m)
  OBVIOUS
<1>5. z \in Seq(Nat) /\ Len(z) = m
  BY <1>3, <1>4 DEF Zeros
<1>6. z \o v \in Seq(Nat) /\ Len(z \o v) = n
  BY <1>1, <1>3, <1>5, Concat
<1> QED
  BY <1>2, <1>3, <1>4, <1>5, <1>6, Zenon DEF Padded

(* The zeros that padding adds are those that stripping removes.           *)
LEMMA PaddedStripped ==
  ASSUME NEW n \in Nat \ {0}, NEW v \in Numbers(n)
  PROVE  Stripped(Padded(v, n)) = v
<1>1. v \in Seq(Nat) /\ Len(v) \in 1..n /\ v[1] # 0
  BY NumberSeq
<1>2. PICK m : m = n - Len(v)
  OBVIOUS
<1>3. PICK z : z = Zeros(m)
  OBVIOUS
<1>4. z \in Seq(Nat) /\ Len(z) = m /\ m \in 0..n - 1
  BY <1>2, <1>3, PaddedSeq
<1>5. PICK w : w = z \o v
  OBVIOUS
<1>6. w = Padded(v, n)
  BY <1>2, <1>3, <1>5, Zenon DEF Padded
<1>7. w \in Seq(Nat) /\ Len(w) = n
  BY <1>6, PaddedSeq
<1>8. (\A i \in 1..m : w[i] = z[i]) /\ (\A i \in 1..Len(v) : w[m + i] = v[i])
  BY <1>1, <1>4, <1>5, Concat, SMTT(30)
<1>9. \A i \in 1..m : z[i] = 0
  BY <1>3 DEF Zeros
<1>10. \A i \in 1..m : w[i] = 0
  BY <1>8, <1>9
<1>11. w[m + 1] # 0
  BY <1>1, <1>8
<1>12. LeadingZeros(w) = m
  <2>1. m \in 0..n /\ (\A j \in 1..m : w[j] = 0) /\ (m < n => w[m + 1] # 0)
    BY <1>4, <1>10, <1>11
  <2>2. ASSUME NEW i \in 0..n, \A j \in 1..i : w[j] = 0, i < n => w[i + 1] # 0
        PROVE  i = m
    <3>1. CASE i < m
      <4>1. i + 1 \in 1..m /\ i < n
        BY <1>4, <3>1
      <4> QED
        BY <1>10, <2>2, <4>1
    <3>2. CASE m < i
      <4>1. m + 1 \in 1..i
        BY <1>4, <3>2
      <4> QED
        BY <1>11, <2>2, <4>1
    <3> QED
      BY <1>4, <3>1, <3>2
  <2>3. PICK k : k = LeadingZeros(w)
    OBVIOUS
  <2>4. k \in 0..n /\ (\A j \in 1..k : w[j] = 0) /\ (k < n => w[k + 1] # 0)
    BY <1>7, <2>1, <2>3, Zenon DEF LeadingZeros
  <2> QED
    BY <2>2, <2>3, <2>4, Zenon
<1>15. m # Len(w)
  BY <1>4, <1>7
<1>16. SubSeq(w, m + 1, Len(w)) = v
  BY <1>1, <1>4, <1>5, EndOfConcat
<1>17. Stripped(w) = v
  BY <1>12, <1>15, <1>16, Zenon DEF Stripped
<1> QED
  BY <1>6, <1>17, Zenon

(* The beginning of a sequence put together of two.                        *)
LEMMA StartOfConcat ==
  ASSUME NEW s \in Seq(Nat), NEW t \in Seq(Nat)
  PROVE  SubSeq(s \o t, 1, Len(s)) = s
<1>1. PICK d : d = s \o t
  OBVIOUS
<1>2. d \in Seq(Nat) /\ Len(d) = Len(s) + Len(t) /\ Len(s) \in Nat /\ Len(t) \in Nat
      /\ \A i \in 1..Len(s) : d[i] = s[i]
  BY <1>1, Concat
<1>3. PICK w : w = SubSeq(d, 1, Len(s))
  OBVIOUS
<1>4. \A i \in 1..Len(s) : d[i] \in Nat
  BY <1>2
<1>5. w \in Seq(Nat) /\ Len(w) = Len(s) /\ \A i \in 1..Len(s) : w[i] = d[i]
  BY <1>2, <1>3, <1>4
<1>6. w = s
  BY <1>2, <1>5, SeqEqual
<1> QED
  BY <1>1, <1>3, <1>6, Zenon

(* What was made of a pair of numbers becomes that pair again.             *)
LEMMA FromTo ==
  ASSUME NEW n \in Nat \ {0}, NEW v \in Numbers(n), NEW u \in Numbers(n),
         NEW der, der = <<v, u>>
  PROVE  /\ Len(ToWebcrypto(der, n)) = 2 * n
         /\ FromWebcrypto(ToWebcrypto(der, n)) = der
<1>1. PICK s : s = Padded(v, n)
  OBVIOUS
<1>2. PICK t : t = Padded(u, n)
  OBVIOUS
<1>3. PICK d : d = s \o t
  OBVIOUS
<1>4. ToWebcrypto(der, n) = d
  BY <1>1, <1>2, <1>3 DEF ToWebcrypto
<1>5. s \in Seq(Nat) /\ Len(s) = n /\ t \in Seq(Nat) /\ Len(t) = n
  BY <1>1, <1>2, PaddedSeq
<1>6. Len(d) = 2 * n
  <2>1. Len(d) = Len(s) + Len(t)
    BY <1>3, <1>5, Concat
  <2>2. n + n = 2 * n
    OBVIOUS
  <2> QED
    BY <1>5, <2>1, <2>2, Zenon
<1>7. Len(d) \div 2 = n
  BY <1>6
<1>8. SubSeq(d, 1, n) = s
  BY <1>3, <1>5, StartOfConcat
<1>9. SubSeq(d, n + 1, 2 * n) = t
  BY <1>3, <1>5, <1>6, EndOfConcat
<1>10. Stripped(s) = v /\ Stripped(t) = u
  BY <1>1, <1>2, PaddedStripped
<1>11. FromWebcrypto(d) = <<Stripped(SubSeq(d, 1, n)), Stripped(SubSeq(d, n + 1, 2 * n))>>
  BY <1>7, Zenon DEF FromWebcrypto
<1>12. FromWebcrypto(d) = <<v, u>>
  BY <1>8, <1>9, <1>10, <1>11, Zenon
<1> QED
  BY <1>4, <1>6, <1>12, Zenon

-----------------------------------------------------------------------------
(* The invariant: every object is made by Assigned from a key, from octets *)
(* in which its point stands or from none, and every signature is what     *)
(* ToWebcrypto makes of a pair of numbers.                                 *)

Made(b, x) ==
  /\ x \in Object
  /\ IsKey(x.key)
  /\ x.params = x.key.curve
  /\ x.point = EncodedPoint(x.key)
  /\ x.given # <<>> => Given(b, x.key, x.given)

Signed(s) ==
  \E c \in Curves : \E v, u \in Numbers(Size[c]) :
    s = [curve |-> c, der |-> <<v, u>>, bytes |-> ToWebcrypto(<<v, u>>, Size[c])]

Inv ==
  /\ backend \in {"mscapi", "osx"}
  /\ objects \in [Objects -> Object \cup {None}]
  /\ \A o \in Objects : objects[o] # None => Made(backend, objects[o])
  /\ signature # None => Signed(signature)

LEMMA AssignedMade ==
  ASSUME NEW b, NEW k, IsKey(k), NEW params, NEW d \in Seq(Nat), NEW private \in BOOLEAN,
         d # <<>> => Given(b, k, d)
  PROVE  Made(b, Assigned(k, params, d, private))
<1>1. k \in [curve : Curves, xy : Seq(Nat)] /\ k.curve \in Curves
  BY DEF IsKey
<1>2. EncodedPoint(k) \in Seq(Nat)
  BY Encoded
<1>3. PICK e : e = EncodedPoint(k)
  OBVIOUS
<1>4. PICK x : x = [key |-> k, params |-> k.curve, point |-> e, private |-> private, given |-> d]
  OBVIOUS
<1>5. x = Assigned(k, params, d, private)
  BY <1>3, <1>4, Zenon DEF Assigned
<1>6. x \in Object
  BY <1>1, <1>2, <1>3, <1>4 DEF Object
<1>7. x.key = k /\ x.params = k.curve /\ x.point = e /\ x.given = d
  BY <1>4
<1>8. Made(b, x)
  BY <1>3, <1>6, <1>7, Zenon DEF Made
<1> QED
  BY <1>5, <1>8, Zenon

(* Adding a made object keeps the invariant.                               *)
LEMMA Added ==
  ASSUME Inv, NEW o \in Objects, NEW x, Made(backend, x),
         objects' = [objects EXCEPT ![o] = x], UNCHANGED <<backend, signature>>
  PROVE  Inv'
<1>1. x \in Object
  BY DEF Made
<1>2. objects' \in [Objects -> Object \cup {None}]
  BY <1>1 DEF Inv
<1>3. ASSUME NEW p \in Objects, objects'[p] # None PROVE Made(backend, objects'[p])
  <2>1. CASE p = o
    <3>1. objects'[p] = x
      BY <2>1 DEF Inv
    <3> QED
      BY <3>1, Zenon
  <2>2. CASE p # o
    <3>1. objects'[p] = objects[p]
      BY <2>2 DEF Inv
    <3>2. objects[p] # None
      BY <1>3, <3>1, Zenon
    <3>3. Made(backend, objects[p])
      BY <3>2, Zenon DEF Inv
    <3> QED
      BY <3>1, <3>3, Zenon
  <2> QED
    BY <2>1, <2>2
<1> QED
  BY <1>2, <1>3, Zenon DEF Inv

LEMMA Removed ==
  ASSUME Inv,
         objects' \in [Objects -> Object \cup {None}],
         \A p \in Objects : objects'[p] = None \/ objects'[p] = objects[p],
         UNCHANGED <<backend, signature>>
  PROVE  Inv'
<1>1. ASSUME NEW p \in Objects, objects'[p] # None PROVE Made(backend, objects'[p])
  <2>1. objects'[p] = objects[p]
    BY <1>1, Zenon
  <2>2. objects[p] # None
    BY <1>1, <2>1, Zenon
  <2>3. Made(backend, objects[p])
    BY <2>2, Zenon DEF Inv
  <2> QED
    BY <2>1, <2>3, Zenon
<1> QED
  BY <1>1, Zenon DEF Inv

(* The points that applications give are sequences of bytes.               *)
LEMMA KeyIsKey ==
  ASSUME NEW k \in Key
  PROVE  IsKey(k)
<1>1. PICK c \in Curves : k \in [curve : {c}, xy : Coordinates(Size[c])]
  BY DEF Key
<1>2. k = [curve |-> k.curve, xy |-> k.xy] /\ k.curve = c /\ k.xy \in Coordinates(Size[c])
  BY <1>1
<1>3. PICK n : n = 2 * Size[c]
  OBVIOUS
<1>4. n \in Nat
  BY <1>3, SizeAssumption
<1>5. PICK xy : xy = k.xy
  OBVIOUS
<1>6. xy \in [1..n -> Bytes]
  BY <1>2, <1>3, <1>5, Zenon DEF Coordinates
<1>7. xy \in Seq(Nat) /\ Len(xy) = n
  <2>1. \A i \in 1..n : xy[i] \in Nat
    BY <1>6, BytesAssumption
  <2>2. xy = [i \in 1..n |-> xy[i]]
    BY <1>6
  <2> QED
    BY <1>4, <2>1, <2>2
<1>8. k = [curve |-> c, xy |-> xy]
  BY <1>2, <1>5
<1> QED
  BY <1>3, <1>7, <1>8 DEF IsKey

LEMMA PointsAreBytes ==
  ASSUME NEW d \in Points
  PROVE  d \in Seq(Nat)
<1>1. PICK k \in Key :
        \/ d \in {EncodedPoint(k), k.xy, Uncompressed(k.xy), EncodedPoint(k) \o <<0>>,
                  <<4, 129, Len(Uncompressed(k.xy))>> \o Uncompressed(k.xy),
                  OctetHeader(Len(Uncompressed(k.xy)) + 1, LongFrom) \o Uncompressed(k.xy) \o <<0>>}
        \/ \E c \in {m \in Curves : Size[m] > Size[k.curve]} :
             d = EncodedPoint(k) \o Zeros(2 * (Size[c] - Size[k.curve]))
  <2>1. PICK k \in Key :
          d \in LET p == Uncompressed(k.xy) e == EncodedPoint(k) n == Len(p)
                IN  {e, k.xy, p, e \o <<0>>, <<4, 129, n>> \o p,
                     OctetHeader(n + 1, LongFrom) \o p \o <<0>>}
                    \cup {e \o Zeros(2 * (Size[c] - Size[k.curve])) :
                            c \in {m \in Curves : Size[m] > Size[k.curve]}}
    BY Zenon DEF Points
  <2> QED
    BY <2>1, Zenon
<1>2. IsKey(k)
  BY KeyIsKey
<1>3. PICK e : e = EncodedPoint(k)
  OBVIOUS
<1>4. PICK p : p = Uncompressed(k.xy)
  OBVIOUS
<1>5. e \in Seq(Nat) /\ p \in Seq(Nat) /\ k.xy \in Seq(Nat)
  BY <1>2, <1>3, <1>4, Encoded
<1>6. PICK h : h = OctetHeader(Len(p) + 1, LongFrom)
  OBVIOUS
<1>7. h \in Seq(Nat)
  <2>1. Len(p) + 1 \in Nat
    BY <1>5
  <2> QED
    BY <1>6, <2>1, Header
<1>8. <<0>> \in Seq(Nat)
  OBVIOUS
<1>9. PICK z : z = <<0>>
  OBVIOUS
<1>10. e \o z \in Seq(Nat) /\ h \o p \o z \in Seq(Nat)
  <2>1. z \in Seq(Nat)
    BY <1>8, <1>9, Zenon
  <2>2. h \o p \in Seq(Nat)
    BY <1>5, <1>7, Concat
  <2> QED
    BY <1>5, <2>1, <2>2, Concat
<1>11. <<4, 129, Len(p)>> \o p \in Seq(Nat)
  <2>1. PICK g : g = <<4, 129, Len(p)>>
    OBVIOUS
  <2>2. g \in Seq(Nat)
    BY <1>5, <2>1
  <2> QED
    BY <1>5, <2>1, <2>2, Concat
<1>12. ASSUME NEW c \in Curves, Size[c] > Size[k.curve]
       PROVE  e \o Zeros(2 * (Size[c] - Size[k.curve])) \in Seq(Nat)
  <2>1. PICK n : n = 2 * (Size[c] - Size[k.curve])
    OBVIOUS
  <2>2. n \in Nat
    <3>1. PICK a : a = Size[c]
      OBVIOUS
    <3>2. PICK b : b = Size[k.curve]
      OBVIOUS
    <3>3. a \in Nat /\ b \in Nat
      BY <1>2, <3>1, <3>2, SizeAssumption, Encoded
    <3>4. a > b /\ n = 2 * (a - b)
      BY <1>12, <2>1, <3>1, <3>2, Zenon
    <3> QED
      BY <3>3, <3>4
  <2>3. Zeros(n) \in Seq(Nat)
    BY <2>2 DEF Zeros
  <2> QED
    BY <1>5, <2>1, <2>3, Concat
<1>13. CASE \E c \in {m \in Curves : Size[m] > Size[k.curve]} :
              d = EncodedPoint(k) \o Zeros(2 * (Size[c] - Size[k.curve]))
  BY <1>3, <1>12, <1>13
<1> QED
  BY <1>1, <1>3, <1>4, <1>5, <1>6, <1>9, <1>10, <1>11, <1>13, Zenon

-----------------------------------------------------------------------------
(* One lemma for each action.                                              *)

LEMMA GeneratePreserves ==
  ASSUME Inv, NEW o \in Objects, NEW c \in Curves, GenerateKeyPair(o, c)
  PROVE  Inv'
<1>1. PICK xy \in Coordinates(Size[c]) :
        objects' = [objects EXCEPT ![o] = Assigned([curve |-> c, xy |-> xy], c, <<>>, TRUE)]
  BY DEF GenerateKeyPair
<1>2. UNCHANGED <<backend, signature>>
  BY DEF GenerateKeyPair
<1>3. PICK k : k = [curve |-> c, xy |-> xy]
  OBVIOUS
<1>4. k \in Key
  BY <1>3 DEF Key
<1>5. IsKey(k)
  BY <1>4, KeyIsKey
<1>6. <<>> \in Seq(Nat) /\ TRUE \in BOOLEAN
  OBVIOUS
<1>7. Made(backend, Assigned(k, c, <<>>, TRUE))
  BY <1>5, <1>6, AssignedMade, Zenon
<1>8. objects' = [objects EXCEPT ![o] = Assigned(k, c, <<>>, TRUE)]
  BY <1>1, <1>3, Zenon
<1> QED
  BY <1>2, <1>7, <1>8, Added, Zenon

LEMMA CreatePreserves ==
  ASSUME Inv, NEW o \in Objects, NEW params, NEW d \in Points, CreatePublicKey(o, params, d)
  PROVE  Inv'
<1>1. PICK k \in Imported(backend, params, d) :
        objects' = [objects EXCEPT ![o] = Assigned(k, params, d, FALSE)]
  BY DEF CreatePublicKey
<1>2. UNCHANGED <<backend, signature>>
  BY DEF CreatePublicKey
<1>3. d \in Seq(Nat) /\ FALSE \in BOOLEAN
  BY PointsAreBytes
<1>4. IsKey(k) /\ Given(backend, k, d)
  <2>1. CASE backend = "mscapi"
    <3>1. k \in ImportedMscapi(params, d)
      BY <2>1, Zenon DEF Imported
    <3> QED
      BY <1>3, <2>1, <3>1, MscapiImportsKeys, Zenon DEF Given
  <2>2. CASE backend # "mscapi"
    <3>1. k \in ImportedOsx(d)
      BY <2>2, Zenon DEF Imported
    <3> QED
      BY <1>3, <2>2, <3>1, OsxImportsKeys, Zenon DEF Given
  <2> QED
    BY <2>1, <2>2
<1>5. Made(backend, Assigned(k, params, d, FALSE))
  BY <1>3, <1>4, AssignedMade, Zenon
<1> QED
  BY <1>1, <1>2, <1>5, Added, Zenon

LEMMA CopyPreserves ==
  ASSUME Inv, NEW o \in Objects, NEW n \in Objects, CopyPublicKey(o, n)
  PROVE  Inv'
<1>1. PICK x : x = [objects[o] EXCEPT !.private = FALSE]
  OBVIOUS
<1>2. objects' = [objects EXCEPT ![n] = x] /\ objects[o] # None
  BY <1>1 DEF CopyPublicKey
<1>3. UNCHANGED <<backend, signature>>
  BY DEF CopyPublicKey
<1>4. Made(backend, objects[o])
  BY <1>2, Zenon DEF Inv
<1>5. PICK y : y = objects[o]
  OBVIOUS
<1>6. y \in Object /\ x = [y EXCEPT !.private = FALSE]
  BY <1>1, <1>4, <1>5, Zenon DEF Made
<1>7. x \in Object
  BY <1>6 DEF Object
<1>8. x.key = y.key /\ x.params = y.params /\ x.point = y.point /\ x.given = y.given
  BY <1>6 DEF Object
<1>9. Made(backend, x)
  BY <1>4, <1>5, <1>7, <1>8, Zenon DEF Made
<1> QED
  BY <1>2, <1>3, <1>9, Added, Zenon

LEMMA DestroyPreserves ==
  ASSUME Inv, NEW o \in Objects, DestroyKey(o)
  PROVE  Inv'
<1>1. objects' \in [Objects -> Object \cup {None}]
  BY DEF DestroyKey, Inv
<1>2. \A p \in Objects : objects'[p] = None \/ objects'[p] = objects[p]
  BY DEF DestroyKey, Inv
<1>3. UNCHANGED <<backend, signature>>
  BY DEF DestroyKey
<1> QED
  BY <1>1, <1>2, <1>3, Removed

LEMMA ClosePreserves ==
  ASSUME Inv, Close
  PROVE  Inv'
<1>1. objects' \in [Objects -> Object \cup {None}]
  BY DEF Close
<1>2. \A p \in Objects : objects'[p] = None
  BY DEF Close
<1>3. UNCHANGED <<backend, signature>>
  BY DEF Close
<1> QED
  BY <1>1, <1>2, <1>3, Removed

LEMMA SignPreserves ==
  ASSUME Inv, NEW o \in Objects, Sign(o)
  PROVE  Inv'
<1>1. objects[o] # None /\ UNCHANGED <<backend, objects>>
  BY DEF Sign
<1>2. Made(backend, objects[o])
  BY <1>1, Zenon DEF Inv
<1>3. PICK c : c = objects[o].key.curve
  OBVIOUS
<1>4. c \in Curves
  BY <1>2, <1>3 DEF Made, IsKey
<1>5. PICK der \in Numbers(Size[c]) \X Numbers(Size[c]) :
        signature' = [curve |-> c, der |-> der, bytes |-> ToWebcrypto(der, Size[c])]
  BY <1>3, Zenon DEF Sign
<1>6. PICK v \in Numbers(Size[c]), u \in Numbers(Size[c]) : der = <<v, u>>
  BY <1>5
<1>7. Signed(signature')
  BY <1>4, <1>5, <1>6, Zenon DEF Signed
<1>8. backend' \in {"mscapi", "osx"} /\ objects' \in [Objects -> Object \cup {None}]
  BY <1>1 DEF Inv
<1>9. \A p \in Objects : objects'[p] # None => Made(backend', objects'[p])
  BY <1>1, Zenon DEF Inv
<1> QED
  BY <1>7, <1>8, <1>9, Zenon DEF Inv

LEMMA InvInit ==
  ASSUME Init PROVE Inv
<1>1. objects \in [Objects -> Object \cup {None}]
  BY DEF Init
<1>2. (\A o \in Objects : objects[o] = None) /\ signature = None /\ backend \in {"mscapi", "osx"}
  BY DEF Init
<1> QED
  BY <1>1, <1>2, Zenon DEF Inv

LEMMA InvNext ==
  ASSUME Inv, [Next]_vars PROVE Inv'
<1>1. CASE Close
  BY <1>1, ClosePreserves
<1>2. CASE \E o \in Objects : \E c \in Curves : GenerateKeyPair(o, c)
  BY <1>2, GeneratePreserves
<1>3. CASE \E o \in Objects : \E params \in Curves \cup {None}, d \in Points :
             CreatePublicKey(o, params, d)
  BY <1>3, CreatePreserves
<1>4. CASE \E o \in Objects : \E n \in Objects : CopyPublicKey(o, n)
  BY <1>4, CopyPreserves
<1>5. CASE \E o \in Objects : DestroyKey(o)
  BY <1>5, DestroyPreserves
<1>6. CASE \E o \in Objects : Sign(o)
  BY <1>6, SignPreserves
<1>7. CASE UNCHANGED vars
  <2>1. UNCHANGED <<backend, objects, signature>>
    BY <1>7 DEF vars
  <2> QED
    BY <2>1 DEF Inv
<1> QED
  BY <1>1, <1>2, <1>3, <1>4, <1>5, <1>6, <1>7, Zenon DEF Next

THEOREM Invariant == Spec => []Inv
BY InvInit, InvNext, PTL DEF Spec

-----------------------------------------------------------------------------
(* Every variable holds a value of its type: the coordinates of a key have *)
(* the size of its curve and a signature has twice that size.              *)
THEOREM TypeCorrect == Spec => []TypeOK
<1>1. ASSUME Inv PROVE TypeOK
  <2>1. \A o \in Objects : objects[o] # None => IsKey(objects[o].key)
    BY <1>1, Zenon DEF Inv, Made
  <2>2. ASSUME signature # None
        PROVE  signature.curve \in Curves /\ Len(signature.bytes) = 2 * Size[signature.curve]
    <3>1. PICK c \in Curves : \E v, u \in Numbers(Size[c]) :
            signature = [curve |-> c, der |-> <<v, u>>, bytes |-> ToWebcrypto(<<v, u>>, Size[c])]
      BY <1>1, <2>2, Zenon DEF Inv, Signed
    <3>2. PICK v \in Numbers(Size[c]), u \in Numbers(Size[c]) :
            signature = [curve |-> c, der |-> <<v, u>>, bytes |-> ToWebcrypto(<<v, u>>, Size[c])]
      BY <3>1
    <3>3. Size[c] \in Nat \ {0}
      BY SizeAssumption
    <3>4. Len(ToWebcrypto(<<v, u>>, Size[c])) = 2 * Size[c]
      BY <3>3, FromTo, Zenon
    <3>5. signature.curve = c /\ signature.bytes = ToWebcrypto(<<v, u>>, Size[c])
      BY <3>2
    <3> QED
      BY <3>4, <3>5, Zenon
  <2> QED
    BY <1>1, <2>1, <2>2, Zenon DEF Inv, TypeOK
<1> QED
  BY <1>1, Invariant, PTL

(* What C_GetAttributeValue reads from a key makes that key again, on      *)
(* either platform: for every size of a curve, since sizes differ.         *)
THEOREM RoundTrip == Spec => []ReadCreatesSame
<1>1. ASSUME Inv PROVE ReadCreatesSame
  <2> SUFFICES ASSUME NEW o \in Objects, NEW b \in {"mscapi", "osx"}, objects[o] # None
               PROVE  Imported(b, objects[o].params, objects[o].point) = {objects[o].key}
    BY Zenon DEF ReadCreatesSame
  <2>1. PICK k : k = objects[o].key
    OBVIOUS
  <2>2. IsKey(k) /\ objects[o].params = k.curve /\ objects[o].point = EncodedPoint(k)
    BY <1>1, <2>1, Zenon DEF Inv, Made
  <2>3. ImportedMscapi(k.curve, EncodedPoint(k)) = {k} /\ ImportedOsx(EncodedPoint(k)) = {k}
    BY <2>2, ReadMscapi, ReadOsx
  <2>4. Imported(b, k.curve, EncodedPoint(k)) = {k}
    BY <2>3, Zenon DEF Imported
  <2> QED
    BY <2>1, <2>2, <2>4, Zenon
<1> QED
  BY <1>1, Invariant, PTL

(* C_CreateObject makes no key with other coordinates than those that      *)
(* stand in the given octets where the platform looks for them: at their   *)
(* end, or in the string at their head.                                    *)
THEOREM CreatesWhatIsGiven == Spec => []ImportedAsGiven
<1>1. ASSUME Inv PROVE ImportedAsGiven
  <2> SUFFICES ASSUME NEW o \in Objects, objects[o] # None, objects[o].given # <<>>
               PROVE  StandsIn(backend, Uncompressed(objects[o].key.xy), objects[o].given)
    BY Zenon DEF ImportedAsGiven
  <2>1. Made(backend, objects[o])
    BY <1>1, Zenon DEF Inv
  <2>2. IsKey(objects[o].key) /\ Given(backend, objects[o].key, objects[o].given)
    BY <2>1, Zenon DEF Made
  <2>3. objects[o].given \in Seq(Nat)
    BY <2>1 DEF Made, Object
  <2> QED
    BY <2>2, <2>3, GivenStands, Zenon
<1> QED
  BY <1>1, Invariant, PTL

(* C_Verify gets back the signature that the platform made, for numbers    *)
(* with any count of leading zeros.                                        *)
THEOREM SignaturesComeBack == Spec => []SignatureVerifies
<1>1. ASSUME Inv PROVE SignatureVerifies
  <2> SUFFICES ASSUME signature # None
               PROVE  Verifies(signature.bytes, signature.curve, signature.der)
    BY DEF SignatureVerifies
  <2>1. PICK c \in Curves : \E v, u \in Numbers(Size[c]) :
          signature = [curve |-> c, der |-> <<v, u>>, bytes |-> ToWebcrypto(<<v, u>>, Size[c])]
    BY <1>1, Zenon DEF Inv, Signed
  <2>2. PICK v \in Numbers(Size[c]), u \in Numbers(Size[c]) :
          signature = [curve |-> c, der |-> <<v, u>>, bytes |-> ToWebcrypto(<<v, u>>, Size[c])]
    BY <2>1
  <2>3. PICK der : der = <<v, u>>
    OBVIOUS
  <2>4. Size[c] \in Nat \ {0}
    BY SizeAssumption
  <2>5. /\ Len(ToWebcrypto(der, Size[c])) = 2 * Size[c]
        /\ FromWebcrypto(ToWebcrypto(der, Size[c])) = der
    BY <2>3, <2>4, FromTo, Zenon
  <2>6. /\ signature.curve = c /\ signature.der = der
        /\ signature.bytes = ToWebcrypto(der, Size[c])
    BY <2>2, <2>3
  <2> QED
    BY <2>5, <2>6, Zenon DEF Verifies
<1> QED
  BY <1>1, Invariant, PTL

-----------------------------------------------------------------------------
(* Octets mean one key.  Of a curve there is only one key with whose point *)
(* given octets end.                                                       *)
LEMMA SameEnd ==
  ASSUME NEW d, NEW k, IsKey(k), Ends(k, d), NEW m, IsKey(m), Ends(m, d),
         k.curve = m.curve
  PROVE  k = m
<1>1. Len(Uncompressed(k.xy)) = Len(Uncompressed(m.xy))
  BY Encoded
<1>2. Uncompressed(k.xy) = Uncompressed(m.xy)
  BY <1>1, Zenon DEF Ends
<1>3. k.xy = m.xy
  BY <1>2, TailOfPoint, Zenon
<1>4. /\ k \in [curve : Curves, xy : Seq(Nat)]
      /\ m \in [curve : Curves, xy : Seq(Nat)]
  BY Zenon DEF IsKey
<1> QED
  BY <1>3, <1>4

LEMMA CurveMscapi ==
  ASSUME NEW params, NEW d \in Seq(Nat), NEW k \in ImportedMscapi(params, d)
  PROVE  /\ k.curve = params /\ params \in Curves
         /\ \E i \in Seconds(d) : Len(d) - i = 2 * Size[params]
<1>1. PICK c \in {params} \cap Curves : \E xy \in DecodePoint(d, Size[params]) :
        k = [curve |-> c, xy |-> xy]
  BY DEF ImportedMscapi
<1>2. PICK xy \in DecodePoint(d, Size[params]) : k = [curve |-> c, xy |-> xy]
  BY <1>1
<1>3. \E i \in Seconds(d) : Len(d) - i = 2 * Size[params]
  BY <1>2 DEF DecodePoint
<1> QED
  BY <1>1, <1>2, <1>3

(* Octets have one head.                                                   *)
LEMMA SameHead ==
  ASSUME NEW d \in Seq(Nat), NEW k, IsKey(k), Heads(k, d), NEW m, IsKey(m), Heads(m, d)
  PROVE  k = m
<1>1. PICK i \in Starts(d) : /\ Len(Uncompressed(k.xy)) = d[i - 1]
                             /\ SubSeq(d, i, i - 1 + d[i - 1]) = Uncompressed(k.xy)
  BY Zenon DEF Heads
<1>2. PICK j \in Starts(d) : /\ Len(Uncompressed(m.xy)) = d[j - 1]
                             /\ SubSeq(d, j, j - 1 + d[j - 1]) = Uncompressed(m.xy)
  BY Zenon DEF Heads
<1>3. i = j
  BY OneStart
<1>4. Uncompressed(k.xy) = Uncompressed(m.xy)
  BY <1>1, <1>2, <1>3, Zenon
<1>5. k.xy = m.xy
  BY <1>4, TailOfPoint, Zenon
<1>6. k.curve \in Curves /\ m.curve \in Curves
  BY DEF IsKey
<1>7. Size[k.curve] = Size[m.curve]
  <2>1. /\ Size[k.curve] \in Nat /\ Len(Uncompressed(k.xy)) = 1 + 2 * Size[k.curve]
        /\ Size[m.curve] \in Nat /\ Len(Uncompressed(m.xy)) = 1 + 2 * Size[m.curve]
    BY Encoded
  <2> QED
    BY <1>4, <2>1
<1>8. k.curve = m.curve
  BY <1>6, <1>7, SizesDiffer
<1>9. /\ k \in [curve : Curves, xy : Seq(Nat)]
      /\ m \in [curve : Curves, xy : Seq(Nat)]
  BY Zenon DEF IsKey
<1> QED
  BY <1>5, <1>8, <1>9

(* C_CreateObject has no choice: on either platform the octets of the      *)
(* caller make one key or none.                                            *)
THEOREM OneKeyImported ==
  ASSUME NEW b \in {"mscapi", "osx"}, NEW params, NEW d \in Seq(Nat),
         NEW k \in Imported(b, params, d), NEW m \in Imported(b, params, d)
  PROVE  k = m
<1>1. CASE b = "mscapi"
  <2>1. k \in ImportedMscapi(params, d) /\ m \in ImportedMscapi(params, d)
    BY <1>1 DEF Imported
  <2>2. k.curve = m.curve
    BY <2>1, CurveMscapi
  <2> QED
    BY <2>1, <2>2, MscapiImportsKeys, SameEnd
<1>2. CASE b = "osx"
  <2>1. k \in ImportedOsx(d) /\ m \in ImportedOsx(d)
    BY <1>2 DEF Imported
  <2> QED
    BY <2>1, OsxImportsKeys, SameHead
<1> QED
  BY <1>1, <1>2

(* The platforms agree on octets that are one OCTET STRING and no more:    *)
(* what both of them take makes the same key, whatever curve the template  *)
(* names and however the length is written.  (Of a point of a small curve  *)
(* with enough bytes behind it for a larger one, mscapi makes a key on the *)
(* larger and osx one on the smaller.)                                     *)
THEOREM PlatformsAgree ==
  ASSUME NEW params, NEW d \in Seq(Nat),
         \A i \in Starts(d) : i - 1 + d[i - 1] = Len(d),
         NEW k \in ImportedMscapi(params, d), NEW m \in ImportedOsx(d)
  PROVE  k = m
<1>1. PICK i \in Seconds(d) : Len(d) - i = 2 * Size[params]
  BY CurveMscapi
<1>2. k.curve = params /\ params \in Curves
  BY CurveMscapi
<1>3. IsKey(m) /\ Heads(m, d)
  BY OsxImportsKeys
<1>4. PICK p : p = Uncompressed(m.xy)
  OBVIOUS
<1>5. PICK a \in Starts(d) : Len(p) = d[a - 1] /\ SubSeq(d, a, a - 1 + d[a - 1]) = p
  BY <1>3, <1>4, Zenon DEF Heads
<1>6. a - 1 + d[a - 1] = Len(d)
  OBVIOUS
<1>7. PICK x : x = Size[params]
  OBVIOUS
<1>8. PICK y : y = Size[m.curve]
  OBVIOUS
<1>9. x \in Nat /\ y \in Nat /\ Len(p) = 1 + 2 * y /\ p[1] = 4
  BY <1>2, <1>3, <1>4, <1>7, <1>8, SizeAssumption, Encoded
<1>10. /\ a \in {3, 4} /\ d[1] = 4 /\ p \in Seq(Nat)
       /\ Len(p) > 0 => p[1] = d[a]
  <2>1. p = SubSeq(d, a, a - 1 + d[a - 1])
    BY <1>5, Zenon
  <2>2. d \in Seq(Nat) /\ a \in Starts(d)
    OBVIOUS
  <2>3. a \in {3, 4} /\ d[1] = 4 /\ p \in Seq(Nat)
    BY <2>1, <2>2, Started, Zenon
  <2>4. Len(p) > 0 => p[1] = d[a]
    BY <2>1, <2>2, Started, Zenon
  <2> QED
    BY <2>3, <2>4, Zenon
<1>11. d[a] = 4 /\ Len(d) = a + 2 * y
  <2>1. Len(p) > 0
    BY <1>9
  <2>2. p[1] = d[a]
    BY <1>10, <2>1
  <2>3. d[a] = 4
    BY <1>9, <2>2
  <2>4. Len(p) = d[a - 1]
    BY <1>5
  <2>5. a \in Nat /\ Len(d) \in Nat
    BY <1>10
  <2>6. Len(d) = a - 1 + (1 + 2 * y)
    BY <1>6, <1>9, <2>4
  <2> QED
    BY <1>9, <2>3, <2>5, <2>6
<1>12. \A j \in 2..a - 1 : d[j] # 4
  <2>1. d[a - 1] # 4
    BY <1>5, <1>9
  <2>2. a = 4 => d[2] = 129
    BY <1>5 DEF Starts
  <2> QED
    BY <1>10, <2>1, <2>2, SMTT(30)
<1>13. i = a
  <2>1. Fours(d) \subseteq Nat \ {0}
    BY DEF Fours
  <2>2. 1 \in Fours(d) /\ a \in Fours(d)
    BY <1>9, <1>10, <1>11 DEF Fours
  <2>3. \A j \in Fours(d) : j = 1 \/ j >= a
    BY <1>10, <1>12, <2>1 DEF Fours
  <2>4. i \in Fours(d)
    BY DEF Seconds
  <2>5. PICK j \in Fours(d) : j < i /\ \A n \in Fours(d) : n < i => n = j
    BY DEF Seconds
  <2>6. i # 1
    BY <2>1, <2>5
  <2>7. i >= a
    BY <2>3, <2>4, <2>6
  <2> QED
    BY <1>10, <2>1, <2>2, <2>4, <2>5, <2>7
<1>14. x = y
  <2>1. Len(d) - i = 2 * x
    BY <1>1, <1>7, Zenon
  <2>2. (a + 2 * y) - a = 2 * x
    BY <1>11, <1>13, <2>1, Zenon
  <2> QED
    BY <1>9, <1>10, <2>2
<1>15. k.curve = m.curve
  BY <1>2, <1>3, <1>7, <1>8, <1>14, SizesDiffer DEF IsKey
<1>16. Ends(m, d)
  <2>1. Len(p) <= Len(d) /\ Len(d) - Len(p) + 1 = a
    BY <1>9, <1>10, <1>11
  <2>2. SubSeq(d, Len(d) - Len(p) + 1, Len(d)) = p
    BY <1>5, <1>6, <2>1, Zenon
  <2> QED
    BY <1>4, <2>1, <2>2, Zenon DEF Ends
<1> QED
  BY <1>3, <1>15, <1>16, MscapiImportsKeys, SameEnd

-----------------------------------------------------------------------------
(* A signature means one pair of numbers, and a pair of numbers is written *)
(* in one way.                                                             *)

LEMMA LeadingZerosExist ==
  ASSUME NEW v \in Seq(Nat)
  PROVE  /\ LeadingZeros(v) \in 0..Len(v)
         /\ \A j \in 1..LeadingZeros(v) : v[j] = 0
<1>1. Len(v) \in Nat
  OBVIOUS
<1>2. PICK S : S = {j \in 1..Len(v) : v[j] # 0}
  OBVIOUS
<1>3. \E m \in 0..Len(v) : (\A j \in 1..m : v[j] = 0) /\ (m < Len(v) => v[m + 1] # 0)
  <2>1. CASE S = {}
    <3>1. Len(v) \in 0..Len(v) /\ \A j \in 1..Len(v) : v[j] = 0
      BY <1>1, <1>2, <2>1
    <3> QED
      BY <1>1, <3>1
  <2>2. CASE S # {}
    <3>1. S \subseteq Nat
      BY <1>2
    <3>2. PICK p \in S : \A x \in S : ~(<<x, p>> \in OpToRel(<, Nat))
      BY <2>2, <3>1, NatLessThanWellFounded, WFMin
    <3>3. \A x \in S : ~(x < p)
      BY <3>1, <3>2 DEF OpToRel
    <3>4. p \in 1..Len(v) /\ v[p] # 0
      BY <1>2, <3>2
    <3>5. PICK m : m = p - 1
      OBVIOUS
    <3>6. m \in 0..Len(v) /\ m + 1 = p
      BY <1>1, <3>4, <3>5
    <3>7. ASSUME NEW j \in 1..m PROVE v[j] = 0
      <4>1. j \in 1..Len(v) /\ j < p
        BY <1>1, <3>4, <3>6
      <4> QED
        BY <1>2, <3>3, <4>1
    <3>8. v[m + 1] # 0
      BY <3>4, <3>6
    <3> QED
      BY <3>6, <3>7, <3>8
  <2> QED
    BY <2>1, <2>2
<1>4. PICK k : k = LeadingZeros(v)
  OBVIOUS
<1>5. k \in 0..Len(v) /\ (\A j \in 1..k : v[j] = 0) /\ (k < Len(v) => v[k + 1] # 0)
  BY <1>3, <1>4, Zenon DEF LeadingZeros
<1> QED
  BY <1>4, <1>5, Zenon

LEMMA StrippedPadded ==
  ASSUME NEW v \in Seq(Nat)
  PROVE  Padded(Stripped(v), Len(v)) = v
<1>1. PICK m : m = LeadingZeros(v)
  OBVIOUS
<1>2. PICK n : n = Len(v)
  OBVIOUS
<1>3. m \in 0..n /\ n \in Nat /\ \A j \in 1..m : v[j] = 0
  BY <1>1, <1>2, LeadingZerosExist
<1>4. CASE m = n
  <2>1. Stripped(v) = v
    BY <1>1, <1>2, <1>4, Zenon DEF Stripped
  <2>2. PICK z : z = Zeros(n - n)
    OBVIOUS
  <2>3. z = <<>>
    BY <1>3, <2>2 DEF Zeros
  <2>4. z \o v = v
    BY <2>3, ConcatEmptySeq
  <2> QED
    BY <1>2, <2>1, <2>2, <2>4, Zenon DEF Padded
<1>5. CASE m # n
  <2>1. PICK w : w = SubSeq(v, m + 1, Len(v))
    OBVIOUS
  <2>2. PICK a : a = m + 1
    OBVIOUS
  <2>3. a \in Nat /\ 0 < a /\ a <= Len(v) + 1 /\ Len(v) - a + 1 = n - m
    BY <1>2, <1>3, <2>2
  <2>4. w \in Seq(Nat) /\ Len(w) = n - m /\ \A j \in 1..n - m : w[j] = v[a + j - 1]
    BY <2>1, <2>2, <2>3, Suffix
  <2>5. Stripped(v) = w
    BY <1>1, <1>2, <1>5, <2>1, Zenon DEF Stripped
  <2>6. n - Len(w) = m
    BY <1>3, <2>4
  <2>7. PICK z : z = Zeros(m)
    OBVIOUS
  <2>8. z \in Seq(Nat) /\ Len(z) = m /\ \A j \in 1..m : z[j] = 0
    <3>1. z = [j \in 1..m |-> 0]
      BY <2>7, Zenon DEF Zeros
    <3>2. m \in Nat
      BY <1>3
    <3> QED
      BY <3>1, <3>2
  <2>9. PICK s : s = z \o w
    OBVIOUS
  <2>10. /\ s \in Seq(Nat) /\ Len(s) = Len(z) + Len(w)
         /\ \A j \in 1..Len(z) : s[j] = z[j]
         /\ \A j \in 1..Len(w) : s[Len(z) + j] = w[j]
    BY <2>4, <2>8, <2>9, Concat, Zenon
  <2>11. Len(s) = n
    BY <1>3, <2>4, <2>8, <2>10
  <2>12. ASSUME NEW j \in 1..n PROVE s[j] = v[j]
    <3>1. CASE j <= m
      <4>1. j \in 1..m
        BY <1>3, <3>1
      <4>2. s[j] = z[j] /\ z[j] = 0
        BY <2>8, <2>10, <4>1
      <4> QED
        BY <1>3, <4>1, <4>2
    <3>2. CASE m < j
      <4>1. PICK i : i = j - m
        OBVIOUS
      <4>2. i \in 1..n - m /\ m + i = j /\ a + i - 1 = j
        BY <1>3, <2>2, <3>2, <4>1
      <4>3. s[m + i] = w[i]
        BY <2>4, <2>8, <2>10, <4>2
      <4>4. w[i] = v[a + i - 1]
        BY <2>4, <4>2
      <4> QED
        BY <4>2, <4>3, <4>4
    <3> QED
      BY <1>3, <3>1, <3>2
  <2>13. s = v
    BY <1>2, <2>10, <2>11, <2>12, SeqEqual
  <2> QED
    BY <1>2, <2>5, <2>6, <2>7, <2>9, <2>13, Zenon DEF Padded
<1> QED
  BY <1>4, <1>5

LEMMA ToFrom ==
  ASSUME NEW n \in Nat \ {0}, NEW s \in Seq(Nat), Len(s) = 2 * n
  PROVE  ToWebcrypto(FromWebcrypto(s), n) = s
<1>1. Len(s) \div 2 = n
  BY Z3
<1>2. PICK x : x = SubSeq(s, 1, n)
  OBVIOUS
<1>3. PICK y : y = SubSeq(s, n + 1, 2 * n)
  OBVIOUS
<1>4. /\ x \in Seq(Nat) /\ Len(x) = n
      /\ \A j \in 1..n : x[j] = s[j]
  <2>1. \A j \in 1..n : s[j] \in Nat
    OBVIOUS
  <2> QED
    BY <1>2, <2>1
<1>5. /\ y \in Seq(Nat) /\ Len(y) = n
      /\ \A j \in 1..n : y[j] = s[n + j]
  <2>1. PICK a : a = n + 1
    OBVIOUS
  <2>2. a \in Nat /\ 0 < a /\ a <= Len(s) + 1 /\ Len(s) - a + 1 = n
    BY <2>1
  <2>3. y \in Seq(Nat) /\ Len(y) = n /\ \A j \in 1..n : y[j] = s[a + j - 1]
    BY <1>3, <2>1, <2>2, Suffix
  <2>4. \A j \in 1..n : a + j - 1 = n + j
    BY <2>1
  <2> QED
    BY <2>3, <2>4
<1>6. FromWebcrypto(s) = <<Stripped(x), Stripped(y)>>
  BY <1>1, <1>2, <1>3, Zenon DEF FromWebcrypto
<1>7. Padded(Stripped(x), n) = x /\ Padded(Stripped(y), n) = y
  BY <1>4, <1>5, StrippedPadded
<1>8. PICK der : der = <<Stripped(x), Stripped(y)>>
  OBVIOUS
<1>9. der[1] = Stripped(x) /\ der[2] = Stripped(y)
  BY <1>8
<1>10. ToWebcrypto(der, n) = x \o y
  BY <1>7, <1>9, Zenon DEF ToWebcrypto
<1>11. x \o y = s
  <2>1. PICK t : t = x \o y
    OBVIOUS
  <2>2. /\ t \in Seq(Nat) /\ Len(t) = Len(x) + Len(y)
        /\ \A j \in 1..Len(x) : t[j] = x[j]
        /\ \A j \in 1..Len(y) : t[Len(x) + j] = y[j]
    BY <1>4, <1>5, <2>1, Concat, Zenon
  <2>3. Len(t) = 2 * n
    BY <1>4, <1>5, <2>2
  <2>4. ASSUME NEW j \in 1..2 * n PROVE t[j] = s[j]
    <3>1. CASE j <= n
      BY <1>4, <2>2, <3>1
    <3>2. CASE n < j
      <4>1. PICK i : i = j - n
        OBVIOUS
      <4>2. i \in 1..n /\ n + i = j
        BY <3>2, <4>1
      <4>3. t[n + i] = y[i] /\ y[i] = s[n + i]
        BY <1>4, <1>5, <2>2, <4>2
      <4> QED
        BY <4>2, <4>3
    <3> QED
      BY <3>1, <3>2
  <2>5. t = s
    BY <2>2, <2>3, <2>4, SeqEqual
  <2> QED
    BY <2>1, <2>5
<1> QED
  BY <1>6, <1>8, <1>10, <1>11, Zenon

(* Only one sequence of bytes is accepted for a signature of the platform: *)
(* two that C_VerifyFinal hands on as the same are the same.               *)
THEOREM OneEncoding ==
  ASSUME NEW c \in Curves, NEW der,
         NEW s \in Seq(Nat), Verifies(s, c, der),
         NEW t \in Seq(Nat), Verifies(t, c, der)
  PROVE  s = t
<1>1. Size[c] \in Nat \ {0}
  BY SizeAssumption
<1>2. ToWebcrypto(FromWebcrypto(s), Size[c]) = s
  BY <1>1, ToFrom DEF Verifies
<1>3. ToWebcrypto(FromWebcrypto(t), Size[c]) = t
  BY <1>1, ToFrom DEF Verifies
<1> QED
  BY <1>2, <1>3, Zenon DEF Verifies
=============================================================================
