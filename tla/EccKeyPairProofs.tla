-------------------------- MODULE EccKeyPairProofs --------------------------
(***************************************************************************)
(* Key pairs, for any threads, keys, signatures and platforms, and any     *)
(* interleaving:                                                           *)
(*                                                                         *)
(*   the reference count of EccKeyRef is right, and pairs are shared in    *)
(*   that way;                                                             *)
(*                                                                         *)
(*   what a pair shows is its key, signatures travel between the platforms *)
(*   and fit the room, and nothing leaks.                                  *)
(*                                                                         *)
(* First comes what the operators on bytes and documents compute, then     *)
(* each constructor and call of each platform, then the reference count,   *)
(* and last the invariants.                                                *)
(***************************************************************************)
EXTENDS EccKeyPair, FiniteSetTheorems, TLAPS

-----------------------------------------------------------------------------
(* Bytes. *)

\* Numbers have a least element; what a recursive count would find.
LEMMA Least ==
  ASSUME NEW T \in SUBSET Nat, T # {}
  PROVE  \E m \in T : \A n \in T : m <= n
<1>1. PICK m \in T : \A n \in T : ~ (<<n, m>> \in OpToRel(<, Nat))
  BY NatLessThanWellFounded, WFMin, Zenon
<1>2. \A n \in T : ~(n < m)
  BY <1>1, Zenon DEF OpToRel
<1> QED
  BY <1>2

\* Byte strings of one length with the same bytes are equal.
LEMMA SameBytes ==
  ASSUME NEW a \in Seq(Byte), NEW b \in Seq(Byte), Len(a) = Len(b),
         \A i \in 1..Len(b) : a[i] = b[i]
  PROVE  a = b
OBVIOUS

\* Trim is defined: every byte string starts with some number of zeros and no more
\* (bcrypt_ecc.c:85-87).
LEMMA SomeZeros ==
  ASSUME NEW bytes \in Seq(Byte)
  PROVE  \E z \in 0..Len(bytes) : StartsWithZeros(bytes, z)
<1> DEFINE T == {z \in Nat : z <= Len(bytes) /\ (z < Len(bytes) => bytes[z + 1] # 0)}
<1>1. Len(bytes) \in Nat
  OBVIOUS
<1>2. Len(bytes) \in T
  BY <1>1
<1>3. PICK m \in T : \A n \in T : m <= n
  BY <1>2, Least, Zenon
<1>4. m \in Nat /\ m <= Len(bytes) /\ (m < Len(bytes) => bytes[m + 1] # 0)
  OBVIOUS
<1>5. ASSUME NEW i \in 1..m PROVE bytes[i] = 0
  <2>1. i - 1 \in Nat /\ i - 1 < Len(bytes) /\ (i - 1) + 1 = i /\ ~(m <= i - 1)
    BY <1>1, <1>4
  <2>2. i - 1 \notin T
    BY <1>3, <2>1, Zenon
  <2> QED
    BY <1>1, <2>1, <2>2
<1> QED
  BY <1>1, <1>4, <1>5 DEF StartsWithZeros

\* ... and with one such number only.
LEMMA OneCount ==
  ASSUME NEW bytes \in Seq(Byte), NEW y \in 0..Len(bytes), NEW z \in 0..Len(bytes),
         StartsWithZeros(bytes, y), StartsWithZeros(bytes, z)
  PROVE  y = z
<1>1. y \in Nat /\ z \in Nat /\ Len(bytes) \in Nat /\ y <= Len(bytes) /\ z <= Len(bytes)
  OBVIOUS
<1>2. ~(y < z)
  BY <1>1 DEF StartsWithZeros
<1>3. ~(z < y)
  BY <1>1 DEF StartsWithZeros
<1> QED
  BY <1>1, <1>2, <1>3

\* What trimming leaves is the rest from that place on.
LEMMA TrimIs ==
  ASSUME NEW bytes \in Seq(Byte), NEW z \in 0..Len(bytes), StartsWithZeros(bytes, z)
  PROVE  Trim(bytes) = SubSeq(bytes, z + 1, Len(bytes))
<1>1. \A n \in 0..Len(bytes) : StartsWithZeros(bytes, n) <=> n = z
  BY OneCount, Zenon
<1>2. (CHOOSE n \in 0..Len(bytes) : StartsWithZeros(bytes, n)) = z
  BY <1>1
<1> QED
  BY <1>2, Zenon DEF Trim

\* ... byte by byte.
LEMMA Trimmed ==
  ASSUME NEW bytes \in Seq(Byte)
  PROVE  \E z \in 0..Len(bytes) :
           /\ StartsWithZeros(bytes, z)
           /\ Trim(bytes) \in Seq(Byte)
           /\ Len(Trim(bytes)) = Len(bytes) - z
           /\ \A i \in 1..(Len(bytes) - z) : Trim(bytes)[i] = bytes[z + i]
<1>1. PICK z \in 0..Len(bytes) : StartsWithZeros(bytes, z)
  BY SomeZeros
<1>2. Trim(bytes) = SubSeq(bytes, z + 1, Len(bytes))
  BY <1>1, TrimIs, Zenon
<1>3. Len(bytes) \in Nat /\ z \in Nat /\ z <= Len(bytes)
  OBVIOUS
<1>4. Len(Trim(bytes)) = Len(bytes) - z /\ Trim(bytes) \in Seq(Byte)
  BY <1>2, <1>3
<1>5. \A i \in 1..(Len(bytes) - z) : Trim(bytes)[i] = bytes[z + i]
  BY <1>2, <1>3
<1> QED
  BY <1>1, <1>4, <1>5

\* A number above zero.
Positive(bytes) == \E i \in 1..Len(bytes) : bytes[i] # 0

\* Of a number above zero trimming leaves something, and its first byte is not zero: the
\* encoder can look at it (bcrypt_ecc.c:129-138).
LEMMA TrimPositive ==
  ASSUME NEW bytes \in Seq(Byte), Positive(bytes)
  PROVE  /\ Trim(bytes) \in Seq(Byte)
         /\ Len(Trim(bytes)) \in 1..Len(bytes)
         /\ Trim(bytes)[1] \in Byte \ {0}
<1>1. PICK z \in 0..Len(bytes) :
           /\ StartsWithZeros(bytes, z)
           /\ Trim(bytes) \in Seq(Byte)
           /\ Len(Trim(bytes)) = Len(bytes) - z
           /\ \A i \in 1..(Len(bytes) - z) : Trim(bytes)[i] = bytes[z + i]
  BY Trimmed
<1>2. z # Len(bytes)
  BY <1>1 DEF Positive, StartsWithZeros
<1>3. Len(bytes) \in Nat /\ z \in Nat /\ z < Len(bytes) /\ bytes[z + 1] \in Byte
  BY <1>1, <1>2
<1>4. 1 \in 1..(Len(bytes) - z)
  BY <1>3
<1> QED
  BY <1>1, <1>3, <1>4 DEF StartsWithZeros

\* Trimming once is enough.
LEMMA TrimAgain ==
  ASSUME NEW bytes \in Seq(Byte)
  PROVE  Trim(Trim(bytes)) = Trim(bytes)
<1>1. PICK z \in 0..Len(bytes) :
           /\ StartsWithZeros(bytes, z)
           /\ Trim(bytes) \in Seq(Byte)
           /\ Len(Trim(bytes)) = Len(bytes) - z
           /\ \A i \in 1..(Len(bytes) - z) : Trim(bytes)[i] = bytes[z + i]
  BY Trimmed
<1>2. Len(bytes) \in Nat /\ z \in Nat /\ z <= Len(bytes)
  OBVIOUS
<1>3. StartsWithZeros(Trim(bytes), 0)
  BY <1>1, <1>2 DEF StartsWithZeros
<1>4. 0 \in 0..Len(Trim(bytes)) /\ Trim(bytes) \in Seq(Byte)
  BY <1>1, <1>2
<1>5. Trim(Trim(bytes)) = SubSeq(Trim(bytes), 0 + 1, Len(Trim(bytes)))
  BY <1>3, <1>4, TrimIs, Zenon
<1> QED
  BY <1>4, <1>5

\* Of nothing trimming leaves nothing.
LEMMA TrimEmpty == Trim(<<>>) = <<>>
<1>1. <<>> \in Seq(Byte) /\ 0 \in 0..Len(<<>>) /\ StartsWithZeros(<<>>, 0)
  BY DEF StartsWithZeros
<1>2. Trim(<<>>) = SubSeq(<<>>, 0 + 1, Len(<<>>))
  BY <1>1, TrimIs, Zenon
<1> QED
  BY <1>2

\* Two strings of one length that are the same number are equal: with the length checked,
\* a part is exactly the bytes of the key.
LEMMA SameLength ==
  ASSUME NEW a \in Seq(Byte), NEW b \in Seq(Byte), Same(a, b), Len(a) = Len(b)
  PROVE  a = b
<1>1. PICK y \in 0..Len(a) :
           /\ StartsWithZeros(a, y)
           /\ Trim(a) \in Seq(Byte)
           /\ Len(Trim(a)) = Len(a) - y
           /\ \A i \in 1..(Len(a) - y) : Trim(a)[i] = a[y + i]
  BY Trimmed
<1>2. PICK z \in 0..Len(b) :
           /\ StartsWithZeros(b, z)
           /\ Trim(b) \in Seq(Byte)
           /\ Len(Trim(b)) = Len(b) - z
           /\ \A i \in 1..(Len(b) - z) : Trim(b)[i] = b[z + i]
  BY Trimmed, Zenon
<1>3. Len(a) \in Nat /\ y \in Nat /\ y = z /\ y <= Len(a)
  BY <1>1, <1>2 DEF Same
<1>4. ASSUME NEW i \in 1..Len(a) PROVE a[i] = b[i]
  <2>1. CASE i <= y
    BY <1>1, <1>2, <1>3, <2>1 DEF StartsWithZeros
  <2>2. CASE i > y
    <3>1. i - y \in 1..(Len(a) - y) /\ y + (i - y) = i
      BY <1>3, <2>2
    <3> QED
      BY <1>1, <1>2, <1>3, <3>1, Zenon DEF Same
  <2> QED
    BY <1>3, <2>1, <2>2
<1> QED
  BY <1>4

\* What n bytes hold, as a byte string.
LEMMA NumberIs ==
  ASSUME NEW n \in Nat, NEW bytes \in Numbers(n)
  PROVE  bytes \in Seq(Byte) /\ Len(bytes) = n /\ Positive(bytes) /\ n # 0
<1>1. bytes \in [1..n -> Byte] /\ \E i \in 1..n : bytes[i] # 0
  BY DEF Numbers
<1>2. bytes \in Seq(Byte) /\ Len(bytes) = n
  BY <1>1
<1> QED
  BY <1>1, <1>2 DEF Positive

\* Trimming does not change the number.
LEMMA SameTrim ==
  ASSUME NEW bytes \in Seq(Byte)
  PROVE  Same(Trim(bytes), bytes) /\ Same(bytes, Trim(bytes)) /\ Same(bytes, bytes)
BY TrimAgain DEF Same

\* bcrypt_ecc.c:171-185.  Padding to the length of the curve gives back what trimming took.
LEMMA PadTrim ==
  ASSUME NEW n \in Nat, NEW r \in Numbers(n)
  PROVE  (IF Len(Trim(r)) < n THEN Pad(Trim(r), n) ELSE Trim(r)) = r
<1>1. r \in Seq(Byte) /\ Len(r) = n
  BY NumberIs
<1>2. PICK z \in 0..Len(r) :
           /\ StartsWithZeros(r, z)
           /\ Trim(r) \in Seq(Byte)
           /\ Len(Trim(r)) = Len(r) - z
           /\ \A i \in 1..(Len(r) - z) : Trim(r)[i] = r[z + i]
  BY <1>1, Trimmed, Zenon
<1>3. z \in Nat /\ z <= n
  BY <1>1
<1>4. Zeros(z) \in Seq(Byte) /\ Len(Zeros(z)) = z /\ \A i \in 1..z : Zeros(z)[i] = 0
  BY <1>3 DEF Zeros, Byte
<1> DEFINE padded == Zeros(z) \o Trim(r)
<1>5. padded \in Seq(Byte) /\ Len(padded) = n
  <2>1. \A s, t \in Seq(Byte) : s \o t \in Seq(Byte) /\ Len(s \o t) = Len(s) + Len(t)
    OBVIOUS
  <2>2. padded \in Seq(Byte) /\ Len(padded) = Len(Zeros(z)) + Len(Trim(r))
    BY <1>2, <1>4, <2>1, Zenon
  <2> HIDE DEF padded
  <2> QED
    BY <1>1, <1>2, <1>3, <1>4, <2>2
<1>6. ASSUME NEW i \in 1..n PROVE padded[i] = r[i]
  <2>1. CASE i <= z
    BY <1>1, <1>2, <1>3, <1>4, <2>1 DEF StartsWithZeros
  <2>2. CASE i > z
    <3>1. i - z \in 1..(Len(r) - z) /\ z + (i - z) = i
      BY <1>1, <1>3, <2>2
    <3>2. padded[i] = Trim(r)[i - z]
      BY <1>1, <1>2, <1>3, <1>4, <2>2
    <3> QED
      BY <1>2, <3>1, <3>2
  <2>3. i <= z \/ i > z
    BY <1>3
  <2> QED
    BY <2>1, <2>2, <2>3, Zenon
<1>7. padded = r
  <2> HIDE DEF padded
  <2> QED
    BY <1>1, <1>5, <1>6
<1>8. Pad(Trim(r), n) = r
  <2>1. n - Len(Trim(r)) = z
    BY <1>1, <1>2, <1>3
  <2> QED
    BY <1>7, <2>1 DEF Pad
<1>9. CASE z = 0
  BY <1>1, <1>2, <1>9
<1> QED
  BY <1>1, <1>2, <1>3, <1>8, <1>9

\* A number written to DER and read back is the trimmed number, and takes at most one byte
\* more than the curve has (bcrypt_ecc.c:129-138 and der.c:39-52).
LEMMA DerRead ==
  ASSUME NEW n \in Nat, NEW r \in Numbers(n)
  PROVE  (IF DerNumber(r)[1] = 0 THEN Tail(DerNumber(r))
          ELSE DerNumber(r)) = Trim(r) /\ Len(DerNumber(r)) \in 1..(n + 1)
<1>1. r \in Seq(Byte) /\ Len(r) = n /\ Positive(r)
  BY NumberIs
<1>2. Trim(r) \in Seq(Byte) /\ Len(Trim(r)) \in 1..n /\ Trim(r)[1] \in Byte \ {0}
  BY <1>1, TrimPositive
<1>3. CASE Trim(r)[1] >= SignBit
  <2>1. DerNumber(r) = <<0>> \o Trim(r)
    BY <1>3 DEF DerNumber
  <2>2. Len(<<0>> \o Trim(r)) = 1 + Len(Trim(r)) /\ (<<0>> \o Trim(r))[1] = 0
        /\ Tail(<<0>> \o Trim(r)) = Trim(r)
    BY <1>2
  <2> QED
    BY <1>2, <2>1, <2>2
<1>4. CASE ~(Trim(r)[1] >= SignBit)
  BY <1>2, <1>4 DEF DerNumber
<1> QED
  BY <1>3, <1>4

\* A provider makes one key of a private scalar, with its leading zeros or without.
LEMMA PrivateIsOne ==
  ASSUME NEW k \in Keys, NEW d \in Seq(Byte), Same(d, D[k])
  PROVE  OfPrivate(CurveOf[k], d) = {k}
<1>1. ASSUME NEW j \in Keys, CurveOf[j] = CurveOf[k], Same(D[j], d) PROVE j = k
  <2>1. CoordinateBytes[CurveOf[k]] \in Nat /\ CoordinateBytes[CurveOf[j]] \in Nat
    BY KeysAssumption
  <2>2. D[k] \in Numbers(CoordinateBytes[CurveOf[k]]) /\ D[j] \in Numbers(CoordinateBytes[CurveOf[k]])
    BY <1>1, KeysAssumption
  <2>3. D[k] \in Seq(Byte) /\ D[j] \in Seq(Byte) /\ Len(D[k]) = Len(D[j])
    BY <2>1, <2>2, NumberIs
  <2>4. Same(D[j], D[k])
    BY <1>1 DEF Same
  <2>5. D[j] = D[k]
    BY <2>3, <2>4, SameLength
  <2> QED
    BY <1>1, <2>5, KeysAssumption
<1> QED
  BY <1>1 DEF OfPrivate, Same

\* ... and one of a point.
LEMMA PublicIsOne ==
  ASSUME NEW k \in Keys, NEW x \in Seq(Byte), NEW y \in Seq(Byte), Same(x, X[k]), Same(y, Y[k])
  PROVE  OfPublic(CurveOf[k], x, y) = {k}
<1>1. ASSUME NEW j \in Keys, CurveOf[j] = CurveOf[k], Same(X[j], x), Same(Y[j], y) PROVE j = k
  <2>1. CoordinateBytes[CurveOf[k]] \in Nat /\ CoordinateBytes[CurveOf[j]] \in Nat
    BY KeysAssumption
  <2>2. /\ X[k] \in Numbers(CoordinateBytes[CurveOf[k]])
        /\ X[j] \in Numbers(CoordinateBytes[CurveOf[k]])
        /\ Y[k] \in Numbers(CoordinateBytes[CurveOf[k]])
        /\ Y[j] \in Numbers(CoordinateBytes[CurveOf[k]])
    BY <1>1, KeysAssumption
  <2>3. /\ X[k] \in Seq(Byte) /\ X[j] \in Seq(Byte) /\ Len(X[k]) = Len(X[j])
        /\ Y[k] \in Seq(Byte) /\ Y[j] \in Seq(Byte) /\ Len(Y[k]) = Len(Y[j])
    BY <2>1, <2>2, NumberIs
  <2>4. Same(X[j], X[k]) /\ Same(Y[j], Y[k])
    BY <1>1 DEF Same
  <2>5. X[j] = X[k] /\ Y[j] = Y[k]
    BY <2>3, <2>4, SameLength
  <2> QED
    BY <1>1, <2>5, KeysAssumption
<1> QED
  BY <1>1 DEF OfPublic, Same

\* The two digits of each byte.
LEMMA HexDigitsAre ==
  ASSUME NEW bytes \in Seq(Byte)
  PROVE  /\ HexDigits(bytes) \in Seq(Byte) /\ Len(HexDigits(bytes)) = 2 * Len(bytes)
         /\ \A i \in 1..Len(bytes) :
              /\ HexDigits(bytes)[2 * i - 1] = bytes[i] \div 2
              /\ HexDigits(bytes)[2 * i] = bytes[i] % 2
              /\ 2 * HexDigits(bytes)[2 * i - 1] + HexDigits(bytes)[2 * i] = bytes[i]
<1> DEFINE n == Len(bytes)
           h == HexDigits(bytes)
<1>1. n \in Nat
  OBVIOUS
<1>2. h \in Seq(Byte) /\ Len(h) = 2 * n
  BY <1>1 DEF HexDigits, Byte, Hex
<1>3. ASSUME NEW i \in 1..n
      PROVE  h[2 * i - 1] = bytes[i] \div 2 /\ h[2 * i] = bytes[i] % 2
  <2>1. 2 * i - 1 \in 1..(2 * n) /\ 2 * i \in 1..(2 * n) /\ (2 * i - 1 + 1) \div 2 = i
        /\ (2 * i + 1) \div 2 = i /\ (2 * i - 1) % 2 = 1 /\ (2 * i) % 2 # 1
    BY <1>1
  <2> QED
    BY <2>1 DEF HexDigits, Hex
<1>4. ASSUME NEW i \in 1..n PROVE 2 * h[2 * i - 1] + h[2 * i] = bytes[i]
  <2> HIDE DEF h
  <2>1. bytes[i] \in 0..3
    BY DEF Byte
  <2> QED
    BY <1>3, <2>1
<1> QED
  BY <1>2, <1>3, <1>4

\* ecc.c:301-340.  Decoding all the digits of a string gives the string.
LEMMA HexWhole ==
  ASSUME NEW bytes \in Seq(Byte)
  PROVE  HexDecode(HexDigits(bytes)) = bytes
<1> DEFINE n == Len(bytes)
           h == HexDigits(bytes)
<1>1. n \in Nat
  OBVIOUS
<1>2. h \in Seq(Byte) /\ Len(h) = 2 * n /\ \A i \in 1..n : 2 * h[2 * i - 1] + h[2 * i] = bytes[i]
  BY HexDigitsAre
<1> HIDE DEF h
<1>3. (2 * n) % 2 # 1 /\ (2 * n) \div 2 = n
  BY <1>1
<1>4. HexDecode(h) = [i \in 1..n |-> Hex * h[2 * i - 1] + h[2 * i]]
  <2> HIDE DEF n
  <2> QED
    BY <1>2, <1>3 DEF HexDecode
<1>5. HexDecode(h) = [i \in 1..n |-> bytes[i]]
  BY <1>2, <1>4, Zenon DEF Hex
<1>6. bytes = [i \in 1..n |-> bytes[i]]
  OBVIOUS
<1> QED
  BY <1>5, <1>6 DEF h

\* A string without some of its leading zeros is the same number.
LEMMA DropZeros ==
  ASSUME NEW bytes \in Seq(Byte), NEW q \in 0..Len(bytes), \A i \in 1..q : bytes[i] = 0,
         NEW rest \in Seq(Byte), Len(rest) = Len(bytes) - q,
         \A i \in 1..(Len(bytes) - q) : rest[i] = bytes[q + i]
  PROVE  Same(rest, bytes)
<1>1. PICK y \in 0..Len(bytes) :
           /\ StartsWithZeros(bytes, y)
           /\ Trim(bytes) \in Seq(Byte)
           /\ Len(Trim(bytes)) = Len(bytes) - y
           /\ \A i \in 1..(Len(bytes) - y) : Trim(bytes)[i] = bytes[y + i]
  BY Trimmed, Zenon
<1>2. PICK z \in 0..Len(rest) :
           /\ StartsWithZeros(rest, z)
           /\ Trim(rest) \in Seq(Byte)
           /\ Len(Trim(rest)) = Len(rest) - z
           /\ \A i \in 1..(Len(rest) - z) : Trim(rest)[i] = rest[z + i]
  BY Trimmed, Zenon
<1>3. Len(bytes) \in Nat /\ q \in Nat /\ q <= Len(bytes) /\ z \in Nat /\ q + z <= Len(bytes)
  BY <1>2
<1>4. StartsWithZeros(bytes, q + z)
  <2>1. ASSUME NEW i \in 1..(q + z) PROVE bytes[i] = 0
    <3>1. CASE i <= q
      BY <3>1, <1>3
    <3>2. CASE i > q
      <4>1. i - q \in 1..z /\ i - q \in 1..(Len(bytes) - q) /\ q + (i - q) = i
        BY <1>3, <3>2
      <4> QED
        BY <1>2, <4>1, Zenon DEF StartsWithZeros
    <3>3. i <= q \/ i > q
      BY <1>3
    <3> QED
      BY <3>1, <3>2, <3>3, Zenon
  <2>2. ASSUME q + z < Len(bytes) PROVE bytes[q + z + 1] # 0
    <3>1. z < Len(rest) /\ z + 1 \in 1..(Len(bytes) - q) /\ q + (z + 1) = q + z + 1
      BY <1>3, <2>2
    <3> QED
      BY <1>2, <3>1 DEF StartsWithZeros
  <2> QED
    BY <2>1, <2>2 DEF StartsWithZeros
<1>5. y = q + z
  <2>1. q + z \in 0..Len(bytes)
    BY <1>3
  <2> QED
    BY <1>1, <1>4, <2>1, OneCount, Zenon
<1>6. Len(Trim(rest)) = Len(Trim(bytes)) /\ Len(Trim(bytes)) = Len(bytes) - (q + z)
  BY <1>1, <1>2, <1>3, <1>5
<1>7. ASSUME NEW i \in 1..Len(Trim(bytes)) PROVE Trim(rest)[i] = Trim(bytes)[i]
  <2>1. /\ i \in Nat /\ i \in 1..(Len(rest) - z) /\ z + i \in 1..(Len(bytes) - q)
        /\ i \in 1..(Len(bytes) - y)
        /\ q + (z + i) = y + i
    BY <1>3, <1>5, <1>6
  <2> QED
    BY <1>1, <1>2, <2>1, Zenon
<1>8. Trim(rest) = Trim(bytes)
  BY <1>1, <1>2, <1>6, <1>7, SameBytes, Zenon
<1> QED
  BY <1>8 DEF Same

\* Even and odd.
LEMMA Half ==
  ASSUME NEW z \in Nat
  PROVE  \E q \in Nat : z = 2 * q \/ z = 2 * q + 1
<1>1. z % 2 \in 0..1 /\ z \div 2 \in Nat
  OBVIOUS
<1>2. z = 2 * (z \div 2) + (z % 2)
  OBVIOUS
<1> QED
  BY <1>1, <1>2

\* all is t with one byte in front.
Prefixed(all, b, t) ==
  /\ all \in Seq(Byte) /\ Len(all) = 1 + Len(t) /\ all[1] = b
  /\ \A j \in 2..(1 + Len(t)) : all[j] = t[j - 1]

\* A byte put in front, byte by byte.
LEMMA PrefixIs ==
  ASSUME NEW t \in Seq(Byte), NEW b \in Byte
  PROVE  Prefixed(<<b>> \o t, b, t)
<1> DEFINE all == <<b>> \o t
<1>1. <<b>> \in Seq(Byte) /\ Len(<<b>>) = 1 /\ Len(t) \in Nat
  OBVIOUS
<1>2. all \in Seq(Byte) /\ Len(all) = 1 + Len(t)
  BY <1>1
<1>3. all[1] = b
  BY <1>1
<1>4. \A j \in 2..(1 + Len(t)) : all[j] = t[j - 1]
  BY <1>1
<1> QED
  BY <1>2, <1>3, <1>4, Zenon DEF Prefixed

\* all is a and then b.
Joined(all, a, b) ==
  /\ all \in Seq(Byte) /\ Len(all) = Len(a) + Len(b)
  /\ \A i \in 1..Len(a) : all[i] = a[i]
  /\ \A i \in 1..Len(b) : all[Len(a) + i] = b[i]

\* Two strings joined, byte by byte.
LEMMA JoinIs ==
  ASSUME NEW a \in Seq(Byte), NEW b \in Seq(Byte)
  PROVE  Joined(a \o b, a, b)
<1>1. a \o b \in Seq(Byte) /\ Len(a \o b) = Len(a) + Len(b)
  OBVIOUS
<1>2. \A i \in 1..Len(a) : (a \o b)[i] = a[i]
  OBVIOUS
<1>3. \A i \in 1..Len(b) : (a \o b)[Len(a) + i] = b[i]
  OBVIOUS
<1> QED
  BY <1>1, <1>2, <1>3, Zenon DEF Joined

\* ecc.c:301-340.  Decoding the digits of a number without its leading zero digits, an odd
\* number of them or an even, gives the same number.
LEMMA HexTrim ==
  ASSUME NEW bytes \in Seq(Byte)
  PROVE  /\ HexDecode(Trim(HexDigits(bytes))) \in Seq(Byte)
         /\ Same(HexDecode(Trim(HexDigits(bytes))), bytes)
<1> DEFINE n == Len(bytes)
           h == HexDigits(bytes)
           t == Trim(h)
           all == IF Len(t) % 2 = 1 THEN <<0>> \o t ELSE t
           r == HexDecode(t)
<1>1. n \in Nat
  OBVIOUS
<1>2. /\ h \in Seq(Byte) /\ Len(h) = 2 * n
      /\ \A i \in 1..n : /\ 2 * h[2 * i - 1] + h[2 * i] = bytes[i]
                         /\ h[2 * i - 1] = bytes[i] \div 2
                         /\ h[2 * i] = bytes[i] % 2
  BY HexDigitsAre
<1> HIDE DEF h
<1>3. PICK z \in 0..Len(h) :
           /\ StartsWithZeros(h, z)
           /\ Trim(h) \in Seq(Byte)
           /\ Len(Trim(h)) = Len(h) - z
           /\ \A i \in 1..(Len(h) - z) : Trim(h)[i] = h[z + i]
  BY <1>2, Trimmed, Zenon
<1> HIDE DEF t
<1>4. z \in Nat /\ z <= 2 * n /\ t \in Seq(Byte) /\ Len(t) = 2 * n - z
      /\ \A i \in 1..(2 * n - z) : t[i] = h[z + i]
  BY <1>1, <1>2, <1>3 DEF t
<1>5. PICK q \in Nat : z = 2 * q \/ z = 2 * q + 1
  BY <1>4, Half, Zenon
<1>6. q <= n
  BY <1>1, <1>4, <1>5
<1>7. /\ all \in Seq(Byte) /\ Len(all) = 2 * (n - q)
      /\ \A j \in 1..(2 * (n - q)) : all[j] = h[2 * q + j]
  <2>1. CASE z = 2 * q
    <3>1. Len(t) % 2 # 1 /\ 2 * n - z = 2 * (n - q)
      BY <1>1, <1>4, <1>6, <2>1
    <3> QED
      BY <1>4, <2>1, <3>1
  <2>2. CASE z = 2 * q + 1
    <3>1. Len(t) % 2 = 1 /\ 2 * n - z + 1 = 2 * (n - q) /\ q < n
      BY <1>1, <1>4, <1>6, <2>2
    <3>2. all = <<0>> \o t
      BY <3>1
    <3>3. 0 \in Byte
      BY DEF Byte
    <3> HIDE DEF all
    <3>4. all \in Seq(Byte) /\ Len(all) = 1 + Len(t) /\ all[1] = 0
          /\ \A j \in 2..(1 + Len(t)) : all[j] = t[j - 1]
      <4>1. Prefixed(all, 0, t)
        BY <1>4, <3>2, <3>3, PrefixIs, Zenon
      <4> QED
        BY <4>1 DEF Prefixed
    <3>5. ASSUME NEW j \in 1..(2 * (n - q)) PROVE all[j] = h[2 * q + j]
      <4>1. CASE j = 1
        <5>1. z \in 1..z /\ 2 * q + j = z
          BY <1>4, <2>2, <4>1
        <5> QED
          BY <1>3, <3>4, <4>1, <5>1 DEF StartsWithZeros
      <4>2. CASE j # 1
        <5>1. j \in 2..(1 + Len(t)) /\ j - 1 \in 1..(2 * n - z) /\ z + (j - 1) = 2 * q + j
          BY <1>1, <1>4, <1>6, <2>2, <3>1, <4>2
        <5> QED
          BY <1>4, <3>4, <5>1, Zenon
      <4> QED
        BY <4>1, <4>2, Zenon
    <3> QED
      BY <1>4, <3>1, <3>4, <3>5
  <2> QED
    BY <1>5, <2>1, <2>2, Zenon
<1>8. r = [i \in 1..(n - q) |-> Hex * all[2 * i - 1] + all[2 * i]]
  <2>1. r = [i \in 1..(Len(all) \div 2) |-> Hex * all[2 * i - 1] + all[2 * i]]
    BY Zenon DEF HexDecode
  <2>2. Len(all) \div 2 = n - q
    <3> HIDE DEF all
    <3> QED
      BY <1>1, <1>6, <1>7
  <2> QED
    BY <2>1, <2>2, Zenon
<1> HIDE DEF all, r
<1>9. ASSUME NEW i \in 1..(n - q) PROVE r[i] = bytes[q + i]
  <2>1. 2 * i - 1 \in 1..(2 * (n - q)) /\ 2 * i \in 1..(2 * (n - q)) /\ q + i \in 1..n
    BY <1>1, <1>6
  <2>2. 2 * q + (2 * i - 1) = 2 * (q + i) - 1 /\ 2 * q + 2 * i = 2 * (q + i)
    BY <1>5
  <2>3. all[2 * i - 1] = h[2 * (q + i) - 1] /\ all[2 * i] = h[2 * (q + i)]
    BY <1>7, <2>1, <2>2
  <2>4. r[i] = 2 * all[2 * i - 1] + all[2 * i]
    BY <1>8 DEF Hex
  <2> QED
    BY <1>2, <2>1, <2>3, <2>4
<1>10. r \in Seq(Byte) /\ Len(r) = n - q
  <2>1. n - q \in Nat
    BY <1>1, <1>6
  <2>2. \A i \in 1..(n - q) : r[i] \in Byte
    BY <1>1, <1>6, <1>9
  <2>3. r \in [1..(n - q) -> Byte]
    BY <1>8, <2>2
  <2> QED
    BY <2>1, <2>3
<1>11. ASSUME NEW i \in 1..q PROVE bytes[i] = 0
  <2>1. 2 * i - 1 \in 1..z /\ 2 * i \in 1..z /\ i \in 1..n
    BY <1>1, <1>5, <1>6
  <2> QED
    BY <1>2, <1>3, <2>1, SMTT(30) DEF StartsWithZeros
<1>12. Same(r, bytes)
  <2>1. q \in 0..Len(bytes)
    BY <1>1, <1>6
  <2> QED
    BY <1>9, <1>10, <1>11, <2>1, DropZeros, Zenon
<1> QED
  BY <1>10, <1>12 DEF r, t, h

-----------------------------------------------------------------------------
(* Documents. *)

\* The parts of a key are numbers above zero of the length of its curve.
LEMMA KeyIs ==
  ASSUME NEW k \in Keys, NEW n, n = CoordinateBytes[CurveOf[k]]
  PROVE  /\ CurveOf[k] \in Curves /\ n \in Nat /\ n # 0
         /\ D[k] \in Seq(Byte) /\ Len(D[k]) = n /\ Positive(D[k])
         /\ X[k] \in Seq(Byte) /\ Len(X[k]) = n /\ Positive(X[k])
         /\ Y[k] \in Seq(Byte) /\ Len(Y[k]) = n /\ Positive(Y[k])
<1>1. CurveOf[k] \in Curves /\ n \in Nat
  BY KeysAssumption
<1>2. D[k] \in Numbers(n) /\ X[k] \in Numbers(n) /\ Y[k] \in Numbers(n)
  BY KeysAssumption
<1> QED
  BY <1>1, <1>2, NumberIs, Zenon

\* ecc.c:43-63.  The OID of a curve is read as that curve.
LEMMA CurveRead ==
  ASSUME NEW curve \in Curves
  PROVE  aws_ecc_curve_name_from_oid(aws_ecc_oid_from_curve_name(curve)) = {curve}
<1>1. s_ecc_p256_oid # s_ecc_p384_oid
  BY DEF s_ecc_p256_oid, s_ecc_p384_oid
<1> QED
  BY <1>1 DEF Curves, aws_ecc_curve_name_from_oid, aws_ecc_oid_from_curve_name,
              AWS_CAL_ECDSA_P256, AWS_CAL_ECDSA_P384

\* The OID of "public key" is the OID of no curve.
LEMMA OtherOid == aws_ecc_curve_name_from_oid(<<3>>) = {}
<1>1. <<3>> # <<1, 1>> /\ <<3>> # <<1, 2>>
  <2>1. Len(<<3>>) = 1 /\ Len(<<1,1>>) = 2 /\ Len(<<1,2>>) = 2
    OBVIOUS
  <2> QED
    BY <2>1
<1> QED
  BY <1>1, Zenon DEF aws_ecc_curve_name_from_oid, s_ecc_p256_oid, s_ecc_p384_oid

\* The bytes are an uncompressed point with coordinates of n bytes, and read as those.
PointIs(blob, n, x, y) == Len(blob) = 2 * n + 1 /\ PublicParts(blob, n) = [x |-> x, y |-> y]

\* ecc.c:274-280.  The two halves of a point are its coordinates.
LEMMA PointRead ==
  ASSUME NEW n \in Nat, NEW x \in Seq(Byte), NEW y \in Seq(Byte), Len(x) = n, Len(y) = n,
         NEW blob, blob = << 1 >> \o x \o y
  PROVE  PointIs(blob, n, x, y)
<1>1. 1 \in Byte
  BY DEF Byte
<1> DEFINE front == <<1>> \o x
<1>2. front \in Seq(Byte) /\ Len(front) = 1 + n /\ \A i \in 2..(1 + n) : front[i] = x[i - 1]
  <2>1. Prefixed(front, 1, x)
    BY <1>1, PrefixIs, Zenon
  <2> HIDE DEF front
  <2> QED
    BY <2>1 DEF Prefixed
<1>3. \A i \in 1..n : front[i + 1] = x[i]
  <2> HIDE DEF front
  <2> QED
    BY <1>2
<1> HIDE DEF front
<1>4. blob = front \o y
  BY Zenon DEF front
<1>5. Joined(blob, front, y)
  BY <1>2, <1>4, JoinIs, Zenon
<1>6. blob \in Seq(Byte) /\ Len(blob) = 2 * n + 1
  BY <1>2, <1>5 DEF Joined
<1>7. \A i \in 1..n : blob[i + 1] = x[i] /\ blob[n + 1 + i] = y[i]
  <2> TAKE i \in 1..n
  <2>1. i + 1 \in 1..Len(front) /\ (1 + n) + i = n + 1 + i
    BY <1>2
  <2> QED
    BY <1>2, <1>3, <1>5, <2>1 DEF Joined
<1>8. SubSeq(blob, 2, n + 1) = x
  <2>1. SubSeq(blob, 2, n + 1) \in Seq(Byte) /\ Len(SubSeq(blob, 2, n + 1)) = n
    BY <1>6
  <2>2. \A i \in 1..n : SubSeq(blob, 2, n + 1)[i] = x[i]
    BY <1>6, <1>7
  <2> QED
    BY <2>1, <2>2, SameBytes, Zenon
<1>9. SubSeq(blob, n + 2, 2 * n + 1) = y
  <2>1. SubSeq(blob, n + 2, 2 * n + 1) \in Seq(Byte) /\ Len(SubSeq(blob, n + 2, 2 * n + 1)) = n
    BY <1>6
  <2>2. \A i \in 1..n : SubSeq(blob, n + 2, 2 * n + 1)[i] = y[i]
    BY <1>6, <1>7
  <2> QED
    BY <2>1, <2>2, SameBytes, Zenon
<1> QED
  BY <1>6, <1>8, <1>9, Zenon DEF PublicParts, PointIs

\* ecc.c:217-243.  A document with the OID of one curve is of that curve.
LEMMA Named ==
  ASSUME NEW tlvs, NEW i, NEW curve \in Curves, KnownOids(tlvs) = {i},
         tlvs[i].value = aws_ecc_oid_from_curve_name(curve)
  PROVE  NamedCurve(tlvs) = curve
<1>1. Final({i}) = i
  BY DEF Final
<1>2. aws_ecc_curve_name_from_oid(tlvs[i].value) = {curve}
  BY CurveRead
<1>3. \A c \in Curves : aws_ecc_curve_name_from_oid(tlvs[Final(KnownOids(tlvs))].value) = {c} <=> c = curve
  BY <1>1, <1>2
<1> QED
  BY <1>3 DEF NamedCurve

\* What is read of a document of a curve, given the places of its private and public part.
Chosen(tlvs, curve, private, public) ==
  IF private \cup public = {} THEN [ok |-> FALSE]
  ELSE [ok |-> TRUE, curve |-> curve,
        x |-> IF public = {} THEN <<>>
              ELSE PublicParts(tlvs[Final(public)].value, CoordinateBytes[curve]).x,
        y |-> IF public = {} THEN <<>>
              ELSE PublicParts(tlvs[Final(public)].value, CoordinateBytes[curve]).y,
        d |-> IF private = {} THEN <<>> ELSE tlvs[Final(private)].value]

\* ecc.c:231-283.  The loader reads those two places.
LEMMA LoadIs ==
  ASSUME NEW tlvs, NEW curve, NEW private, NEW public,
         KnownOids(tlvs) # {}, NamedCurve(tlvs) = curve,
         OfLength(tlvs, CoordinateBytes[curve]) = private,
         OfLength(tlvs, 2 * CoordinateBytes[curve] + 1) = public
  PROVE  aws_der_decoder_load_ecc_key_pair(tlvs) = Chosen(tlvs, curve, private, public)
BY Zenon DEF aws_der_decoder_load_ecc_key_pair, Chosen,
  aws_ecc_key_coordinate_byte_size_from_curve_name

\* ecc.c:194-283.  A private key with its public key is read as the pair it was written of.
LEMMA PairLoads ==
  ASSUME NEW k \in Keys
  PROVE  aws_der_decoder_load_ecc_key_pair(PairDocument(k)) =
           [ok |-> TRUE, curve |-> CurveOf[k], x |-> X[k], y |-> Y[k], d |-> D[k]]
<1> DEFINE tlvs == PairDocument(k)
           n == CoordinateBytes[CurveOf[k]]
           oid == aws_ecc_oid_from_curve_name(CurveOf[k])
           blob == <<1>> \o X[k] \o Y[k]
<1>1. /\ CurveOf[k] \in Curves /\ n \in Nat
      /\ X[k] \in Seq(Byte) /\ Y[k] \in Seq(Byte)
      /\ Len(D[k]) = n /\ Len(X[k]) = n /\ Len(Y[k]) = n
  BY KeyIs
<1>2. Len(blob) = 2 * n + 1 /\ PublicParts(blob, n) = [x |-> X[k], y |-> Y[k]]
  <2> HIDE DEF n
  <2>1. blob = <<1>> \o X[k] \o Y[k]
    BY Zenon DEF blob
  <2> HIDE DEF blob
  <2>2. PointIs(blob, n, X[k], Y[k])
    BY <1>1, <2>1, PointRead, Zenon
  <2> QED
    BY <2>2, Zenon DEF PointIs
<1>3. aws_ecc_curve_name_from_oid(oid) = {CurveOf[k]}
  BY <1>1, CurveRead
<1> HIDE DEF oid, blob, n
<1>4. /\ DOMAIN tlvs = 1..5
      /\ tlvs[1].tag = "sequence" /\ tlvs[2].tag = "integer" /\ tlvs[3].tag = "octets"
      /\ tlvs[4].tag = "oid" /\ tlvs[5].tag = "bits"
  BY DEF PairDocument, Tlv, CurveOid, PointBits
<1>5. /\ tlvs[4].value = oid /\ tlvs[3].value = D[k] /\ tlvs[5].value = blob
  BY Zenon DEF PairDocument, Tlv, CurveOid, PointBits, oid, blob
<1> HIDE DEF tlvs
<1>6. KnownOids(tlvs) = {4} /\ Strings(tlvs) = {3, 5}
  <2>1. KnownOids(tlvs) = {4}
    BY <1>3, <1>4, <1>5 DEF KnownOids
  <2>2. Strings(tlvs) = {3, 5}
    BY <1>4 DEF Strings
  <2> QED
    BY <2>1, <2>2
<1>7. Final({3, 5}) = 5 /\ First({3, 5}) = 3 /\ Final({3}) = 3 /\ Final({5}) = 5
  BY DEF Final, First
<1>8. NamedCurve(tlvs) = CurveOf[k]
  BY <1>1, <1>6, <1>5, Named DEF oid
<1>9. OfLength(tlvs, n) = {3} /\ OfLength(tlvs, 2 * n + 1) = {5}
  <2>1. n # 2 * n + 1
    BY <1>1
  <2> QED
    BY <1>1, <1>2, <1>6, <1>5, <1>7, <2>1, Zenon DEF OfLength
<1>10. aws_der_decoder_load_ecc_key_pair(tlvs) = Chosen(tlvs, CurveOf[k], {3}, {5})
  BY <1>6, <1>8, <1>9, LoadIs DEF n
<1>11. /\ PublicParts(tlvs[Final({5})].value, CoordinateBytes[CurveOf[k]]).x = X[k]
       /\ PublicParts(tlvs[Final({5})].value, CoordinateBytes[CurveOf[k]]).y = Y[k]
       /\ tlvs[Final({3})].value = D[k]
  BY <1>2, <1>5, <1>7 DEF n
<1>12. {3} # {} /\ {5} # {} /\ {3} \cup {5} # {}
  OBVIOUS
<1> QED
  BY <1>10, <1>11, <1>12, Zenon DEF tlvs, Chosen

\* ecc.c:194-283.  A private key without its public key is read as the private part.
LEMMA PrivateLoads ==
  ASSUME NEW k \in Keys
  PROVE  aws_der_decoder_load_ecc_key_pair(PrivateDocument(k)) =
           [ok |-> TRUE, curve |-> CurveOf[k], x |-> <<>>, y |-> <<>>, d |-> D[k]]
<1> DEFINE tlvs == PrivateDocument(k)
           n == CoordinateBytes[CurveOf[k]]
           oid == aws_ecc_oid_from_curve_name(CurveOf[k])
<1>1. /\ CurveOf[k] \in Curves /\ n \in Nat /\ Len(D[k]) = n
  BY KeyIs
<1>2. aws_ecc_curve_name_from_oid(oid) = {CurveOf[k]}
  BY <1>1, CurveRead
<1> HIDE DEF oid, n
<1>3. /\ DOMAIN tlvs = 1..4
      /\ tlvs[1].tag = "sequence" /\ tlvs[2].tag = "integer" /\ tlvs[3].tag = "octets"
      /\ tlvs[4].tag = "oid"
  BY DEF PrivateDocument, Tlv, CurveOid
<1>4. /\ tlvs[4].value = oid /\ tlvs[3].value = D[k]
  BY DEF PrivateDocument, Tlv, CurveOid, oid
<1> HIDE DEF tlvs
<1>5. KnownOids(tlvs) = {4} /\ Strings(tlvs) = {3}
  <2>1. KnownOids(tlvs) = {4}
    BY <1>2, <1>3, <1>4 DEF KnownOids
  <2>2. Strings(tlvs) = {3}
    BY <1>3 DEF Strings
  <2> QED
    BY <2>1, <2>2
<1>6. First({3}) = 3 /\ Final({3}) = 3
  BY DEF Final, First
<1>7. NamedCurve(tlvs) = CurveOf[k]
  BY <1>1, <1>5, <1>4, Named, Zenon DEF oid
<1>8. OfLength(tlvs, n) = {3} /\ OfLength(tlvs, 2 * n + 1) = {}
  <2>1. n # 2 * n + 1
    BY <1>1
  <2> QED
    BY <1>1, <1>5, <1>4, <1>6, <2>1 DEF OfLength
<1>9. aws_der_decoder_load_ecc_key_pair(tlvs) = Chosen(tlvs, CurveOf[k], {3}, {})
  BY <1>5, <1>7, <1>8, LoadIs DEF n
<1>10. {3} # {} /\ {3} \cup {} # {} /\ tlvs[Final({3})].value = D[k]
  BY <1>4, <1>6
<1> QED
  BY <1>9, <1>10, Zenon DEF tlvs, Chosen

\* ecc.c:194-283.  A public key is read as the public part.
LEMMA PublicLoads ==
  ASSUME NEW k \in Keys
  PROVE  aws_der_decoder_load_ecc_key_pair(PublicDocument(k)) =
           [ok |-> TRUE, curve |-> CurveOf[k], x |-> X[k], y |-> Y[k], d |-> <<>>]
<1> DEFINE tlvs == PublicDocument(k)
           n == CoordinateBytes[CurveOf[k]]
           oid == aws_ecc_oid_from_curve_name(CurveOf[k])
           blob == <<1>> \o X[k] \o Y[k]
<1>1. /\ CurveOf[k] \in Curves /\ n \in Nat
      /\ X[k] \in Seq(Byte) /\ Y[k] \in Seq(Byte)
      /\ Len(X[k]) = n /\ Len(Y[k]) = n
  BY KeyIs
<1>2. Len(blob) = 2 * n + 1 /\ PublicParts(blob, n) = [x |-> X[k], y |-> Y[k]]
  <2> HIDE DEF n
  <2>1. blob = <<1>> \o X[k] \o Y[k]
    BY Zenon DEF blob
  <2> HIDE DEF blob
  <2>2. PointIs(blob, n, X[k], Y[k])
    BY <1>1, <2>1, PointRead, Zenon
  <2> QED
    BY <2>2, Zenon DEF PointIs
<1>3. aws_ecc_curve_name_from_oid(oid) = {CurveOf[k]}
  BY <1>1, CurveRead
<1> HIDE DEF oid, blob, n
<1>4. /\ DOMAIN tlvs = 1..5
      /\ tlvs[1].tag = "sequence" /\ tlvs[2].tag = "sequence" /\ tlvs[3].tag = "oid"
      /\ tlvs[4].tag = "oid" /\ tlvs[5].tag = "bits"
  BY DEF PublicDocument, Tlv, CurveOid, PointBits
<1>5. /\ tlvs[4].value = oid /\ tlvs[3].value = <<3>> /\ tlvs[5].value = blob
  BY Zenon DEF PublicDocument, Tlv, CurveOid, PointBits, oid, blob
<1> HIDE DEF tlvs
<1>6. KnownOids(tlvs) = {4} /\ Strings(tlvs) = {5}
  <2>1. KnownOids(tlvs) = {4}
    BY <1>3, <1>4, <1>5, OtherOid DEF KnownOids
  <2>2. Strings(tlvs) = {5}
    BY <1>4 DEF Strings
  <2> QED
    BY <2>1, <2>2
<1>7. First({5}) = 5 /\ Final({5}) = 5
  BY DEF Final, First
<1>8. NamedCurve(tlvs) = CurveOf[k]
  BY <1>1, <1>6, <1>5, Named DEF oid
<1>9. OfLength(tlvs, n) = {} /\ OfLength(tlvs, 2 * n + 1) = {5}
  <2>1. n # 2 * n + 1
    BY <1>1
  <2> QED
    BY <1>1, <1>2, <1>6, <1>5, <1>7, <2>1, Zenon DEF OfLength
<1>10. aws_der_decoder_load_ecc_key_pair(tlvs) = Chosen(tlvs, CurveOf[k], {}, {5})
  BY <1>6, <1>8, <1>9, LoadIs DEF n
<1>11. /\ PublicParts(tlvs[Final({5})].value, CoordinateBytes[CurveOf[k]]).x = X[k]
       /\ PublicParts(tlvs[Final({5})].value, CoordinateBytes[CurveOf[k]]).y = Y[k]
  BY <1>2, <1>5, <1>7 DEF n
<1>12. {5} # {} /\ {} \cup {5} # {}
  BY SMTT(30)
<1> QED
  BY <1>10, <1>11, <1>12, Zenon DEF tlvs, Chosen

\* ecc.c:239-243.  A document that names no curve is refused.
LEMMA NoCurve ==
  ASSUME NEW k \in Keys
  PROVE  aws_der_decoder_load_ecc_key_pair(<<Tlv("octets", D[k])>>).ok = FALSE
<1>1. KnownOids(<<Tlv("octets", D[k])>>) = {}
  BY SMTT(30) DEF KnownOids, Tlv
<1> QED
  BY <1>1 DEF aws_der_decoder_load_ecc_key_pair

\* ecc.c:266-283.  A document without a key is refused.
LEMMA NoParts ==
  ASSUME NEW k \in Keys
  PROVE  aws_der_decoder_load_ecc_key_pair(<<CurveOid(k)>>).ok = FALSE
<1>1. Strings(<<CurveOid(k)>>) = {}
  BY DEF Strings, CurveOid, Tlv
<1>2. \A l : OfLength(<<CurveOid(k)>>, l) = {}
  BY <1>1 DEF OfLength
<1> QED
  BY <1>2 DEF aws_der_decoder_load_ecc_key_pair

-----------------------------------------------------------------------------
(* Pairs and outcomes. *)

\* The fields of a pair.
IsKey(ky) ==
  ky \in [curve : Curves, pub_x : Seq(Byte), pub_y : Seq(Byte), priv_d : Seq(Byte),
         priv : Keys \cup {NoKey}, pub : Keys \cup {NoKey, Infinity}]
\* A part is the value: with its length, except in libcrypto.
Shows(b, part, value) == Same(part, value) /\ (b # "libcrypto" => Len(part) = Len(value))

\* The pair ky on platform b, owning ow, was made for key k and was given the parts or has
\* derived them.  The last three conjuncts are what the platforms' own derive and verify rely on.
Given(b, k, parts, ky, ow) ==
  /\ ky.curve = CurveOf[k] /\ ky.priv \in {NoKey, k} /\ ky.pub \in {NoKey, Infinity, k}
  /\ parts \subseteq {"priv", "pub"}
  /\ ow \ {"cf_error"} \subseteq PartsOf(b)
  /\ "pub" \in parts =>
       /\ Shows(b, ky.pub_x, X[k]) /\ Shows(b, ky.pub_y, Y[k]) /\ ky.pub = k
       /\ b = "darwin" => "pub_key_ref" \in ow
  /\ "priv" \in parts => Shows(b, ky.priv_d, D[k])
  /\ b = "libcrypto" =>
       /\ "pub_x" \in ow => ky.pub_x # <<>>
       /\ ky.pub_x # <<>> => Same(ky.pub_x, X[k]) /\ Same(ky.pub_y, Y[k]) /\ ky.pub = k
       /\ "priv_d" \in ow => Same(ky.priv_d, D[k])
  /\ b = "windows" => ky.pub = k
  /\ b = "darwin" => (ky.pub_x # <<>> /\ parts # {} => "pub" \in parts)

\* The fields of an outcome.
IsOutcome(o) == o \in [ret : {o.ret}, key : {o.key}, owned : {o.owned}, refused : {o.refused}]

\* An outcome of a constructor that is as it should be: nothing is left of a pair that was not
\* made, and a pair that was made has the parts of key k.
Good(b, k, parts, o) ==
  /\ IsOutcome(o)
  /\ \/ o.ret # "ok" /\ o.key = Blank /\ o.owned \subseteq {"cf_error"}
     \/ /\ o.ret = "ok" /\ IsKey(o.key)
        /\ Given(b, k, IF o.refused THEN {} ELSE parts, o.key, o.owned)

\* A part of a key is never empty.
LEMMA NotEmpty ==
  ASSUME NEW a, NEW bytes \in Seq(Byte), Positive(bytes), Same(a, bytes)
  PROVE  a # <<>>
<1>1. Len(Trim(bytes)) # 0
  BY TrimPositive
<1> QED
  BY <1>1, TrimEmpty DEF Same

\* What is known of the parts of a key.
LEMMA Material ==
  ASSUME NEW k \in Keys
  PROVE  /\ CurveOf[k] \in Curves /\ k # NoKey /\ k # Infinity
         /\ D[k] \in Seq(Byte) /\ X[k] \in Seq(Byte) /\ Y[k] \in Seq(Byte)
         /\ Len(D[k]) = CoordinateBytes[CurveOf[k]]
         /\ Len(X[k]) = CoordinateBytes[CurveOf[k]]
         /\ Len(Y[k]) = CoordinateBytes[CurveOf[k]]
         /\ D[k] # <<>> /\ X[k] # <<>> /\ Y[k] # <<>>
         /\ CoordinateBytes[CurveOf[k]] \in Nat \ {0}
<1>1. k # NoKey /\ k # Infinity
  BY KeysAssumption, PairAssumption
<1>2. CoordinateBytes[CurveOf[k]] # 0
  BY KeyIs
<1> QED
  BY <1>1, <1>2, KeyIs

\* What a document of key k is read as.
Loaded(k, has) ==
  [ok |-> TRUE, curve |-> CurveOf[k],
   x |-> IF "pub" \in has THEN X[k] ELSE <<>>, y |-> IF "pub" \in has THEN Y[k] ELSE <<>>,
   d |-> IF "priv" \in has THEN D[k] ELSE <<>>]

\* ecc.c:194-283.  A document is not parsed, or refused, or read as the key it is of.
LEMMA DocumentLoads ==
  ASSUME NEW k \in Keys, NEW doc \in Document(k)
  PROVE  \/ doc.parses = FALSE
         \/ doc.parses = TRUE /\ aws_der_decoder_load_ecc_key_pair(doc.tlvs).ok = FALSE
         \/ /\ doc.parses = TRUE /\ doc.has \in {{"priv", "pub"}, {"priv"}, {"pub"}}
            /\ aws_der_decoder_load_ecc_key_pair(doc.tlvs) = Loaded(k, doc.has)
<1>1. CASE doc = [parses |-> TRUE, tlvs |-> PairDocument(k), has |-> {"priv", "pub"}]
  <2>1. doc.parses = TRUE /\ doc.tlvs = PairDocument(k) /\ doc.has = {"priv", "pub"}
    BY <1>1
  <2>2. Loaded(k, {"priv", "pub"}) = [ok |-> TRUE, curve |-> CurveOf[k], x |-> X[k], y |-> Y[k], d |-> D[k]]
    BY DEF Loaded
  <2> QED
    BY <2>1, <2>2, PairLoads, Zenon
<1>2. CASE doc = [parses |-> TRUE, tlvs |-> PrivateDocument(k), has |-> {"priv"}]
  <2>1. doc.parses = TRUE /\ doc.tlvs = PrivateDocument(k) /\ doc.has = {"priv"}
    BY <1>2
  <2>2. Loaded(k, {"priv"}) = [ok |-> TRUE, curve |-> CurveOf[k], x |-> <<>>, y |-> <<>>, d |-> D[k]]
    BY DEF Loaded
  <2> QED
    BY <2>1, <2>2, PrivateLoads, Zenon
<1>3. CASE doc = [parses |-> TRUE, tlvs |-> PublicDocument(k), has |-> {"pub"}]
  <2>1. doc.parses = TRUE /\ doc.tlvs = PublicDocument(k) /\ doc.has = {"pub"}
    BY <1>3
  <2>2. Loaded(k, {"pub"}) = [ok |-> TRUE, curve |-> CurveOf[k], x |-> X[k], y |-> Y[k], d |-> <<>>]
    BY DEF Loaded
  <2> QED
    BY <2>1, <2>2, PublicLoads, Zenon
<1>4. CASE doc = [parses |-> TRUE, tlvs |-> <<Tlv("octets", D[k])>>, has |-> {}]
  BY <1>4, NoCurve, Zenon
<1>5. CASE doc = [parses |-> TRUE, tlvs |-> <<CurveOid(k)>>, has |-> {}]
  BY <1>5, NoParts, Zenon
<1>6. CASE doc = [parses |-> FALSE, tlvs |-> <<>>, has |-> {}]
  BY <1>6
<1> QED
  BY <1>1, <1>2, <1>3, <1>4, <1>5, <1>6, ZenonT(40) DEF Document

\* A pair to start from.
LEMMA BlankIs ==
  /\ IsKey(Blank) /\ Blank.pub_x = <<>> /\ Blank.pub_y = <<>> /\ Blank.priv_d = <<>>
  /\ Blank.priv = NoKey /\ Blank.pub = NoKey
BY DEF Blank, IsKey, Curves

\* An outcome, field by field.
Ends(o, r, ky, w) ==
  IsOutcome(o) /\ o.ret = r /\ o.key = ky /\ o.owned = w /\ o.refused = FALSE

\* Outcomes have their fields ...
LEMMA OutcomeIs ==
  ASSUME NEW r, NEW ky, NEW w
  PROVE  Ends(Outcome(r, ky, w), r, ky, w)
BY DEF Outcome, IsOutcome, Ends

\* ... that of a constructor that failed ...
LEMMA NullIs == \A w : Ends(Null(w), "null", Blank, w)
BY OutcomeIs, Zenon DEF Null

\* ... and that of one that did not.
LEMMA BuiltIs == \A ky, w : Ends(Built(ky, w), "ok", ky, w)
BY OutcomeIs, Zenon DEF Built

\* A constructor may fail if it leaves nothing.
LEMMA NullGood ==
  ASSUME NEW b, NEW k, NEW parts
  PROVE  Good(b, k, parts, Null({}))
<1> DEFINE o == Null({})
<1>1. Ends(o, "null", Blank, {})
  BY NullIs, Zenon
<1> HIDE DEF o
<1>2. Good(b, k, parts, o)
  BY <1>1 DEF Good, Ends
<1> QED
  BY <1>2 DEF o

\* A constructor may return a pair that has its parts.
LEMMA BuiltGood ==
  ASSUME NEW b, NEW k, NEW parts, NEW ky, NEW w, IsKey(ky), Given(b, k, parts, ky, w)
  PROVE  Good(b, k, parts, Built(ky, w))
<1> DEFINE o == Built(ky, w)
<1>1. Ends(o, "ok", ky, w)
  BY BuiltIs, Zenon
<1> HIDE DEF o
<1>2. Good(b, k, parts, o)
  BY <1>1, Zenon DEF Good, Ends
<1> QED
  BY <1>2 DEF o

\* What is opened for the call and released at its end.
Passing(o, extra) == [[o EXCEPT !.owned = @ \cup extra] EXCEPT !.owned = @ \ extra]

\* ... leaves no trace.
LEMMA PassingGood ==
  ASSUME NEW b \in {"libcrypto", "windows", "darwin"}, NEW k, NEW parts, NEW o, Good(b, k, parts, o),
         NEW extra, extra \cap {"impl", "ec_key", "pub_x", "pub_y", "priv_d", "key_buf", "key_handle",
                                "cf_allocator", "priv_key_ref", "pub_key_ref", "cf_error"} = {}
  PROVE  Good(b, k, parts, Passing(o, extra))
<1> DEFINE p == Passing(o, extra)
<1>1. o.owned \cap extra = {}
  <2>1. PartsOf(b) \cap extra = {}
    BY DEF PartsOf, Platform
  <2> QED
    BY <2>1 DEF Good, Given
<1>2. (o.owned \cup extra) \ extra = o.owned
  BY <1>1
<1>3. IsOutcome(p) /\ p.ret = o.ret /\ p.key = o.key /\ p.owned = o.owned /\ p.refused = o.refused
  <2>1. IsOutcome(o)
    BY DEF Good
  <2> DEFINE q == [o EXCEPT !.owned = @ \cup extra]
  <2>2. /\ q \in [ret : {o.ret}, key : {o.key}, owned : {o.owned \cup extra}, refused : {o.refused}]
        /\ q.ret = o.ret /\ q.key = o.key /\ q.owned = o.owned \cup extra /\ q.refused = o.refused
    BY <2>1 DEF IsOutcome
  <2>3. p = [q EXCEPT !.owned = q.owned \ extra]
    BY Zenon DEF Passing
  <2> HIDE DEF q, p
  <2>4. /\ p \in [ret : {o.ret}, key : {o.key}, owned : {o.owned}, refused : {o.refused}]
        /\ p.ret = o.ret /\ p.key = o.key /\ p.owned = o.owned /\ p.refused = o.refused
    BY <1>2, <2>2, <2>3
  <2> QED
    BY <2>4 DEF IsOutcome
<1> HIDE DEF p
<1>4. Good(b, k, parts, p)
  BY <1>3, Zenon DEF Good
<1> QED
  BY <1>4 DEF p

-----------------------------------------------------------------------------
(* libcrypto. *)

\* opensslcrypto_ecc.c:159-191.  From a private scalar, whose length is checked.
LEMMA OPrivate ==
  ASSUME NEW k \in Keys, NEW d \in Seq(Byte), Same(d, D[k]),
         NEW o \in aws_ecc_key_pair_new_from_private_key_impl_libcrypto(CurveOf[k], d)
  PROVE  Good("libcrypto", k, {"priv"}, o)
<1> DEFINE ow == {"impl", "ec_key", "priv_d"}
           ky == [Blank EXCEPT !.curve = CurveOf[k], !.priv_d = d, !.priv = k]
<1>1. OfPrivate(CurveOf[k], d) = {k}
  BY PrivateIsOne, Zenon
<1>2. s_key_pair_destroy(ow) = {}
  BY DEF s_key_pair_destroy
<1>3. o = Null({}) \/ o = Built(ky, ow)
  BY <1>1, <1>2, Zenon DEF aws_ecc_key_pair_new_from_private_key_impl_libcrypto
<1>4. /\ IsKey(ky) /\ ky.curve = CurveOf[k] /\ ky.pub_x = <<>> /\ ky.priv_d = d
      /\ ky.priv = k /\ ky.pub = NoKey
  BY BlankIs, Material, Zenon DEF IsKey
<1> HIDE DEF ky
<1>5. Given("libcrypto", k, {"priv"}, ky, ow)
  BY <1>4 DEF Given, Shows, PartsOf, Platform
<1> QED
  BY <1>3, <1>4, <1>5, NullGood, BuiltGood, Zenon

\* opensslcrypto_ecc.c:230-297.  From coordinates, with their leading zeros or without.
LEMMA OPublic ==
  ASSUME NEW k \in Keys, NEW x \in Seq(Byte), NEW y \in Seq(Byte), Same(x, X[k]), Same(y, Y[k]),
         NEW o \in aws_ecc_key_pair_new_from_public_key_impl_libcrypto(CurveOf[k], x, y)
  PROVE  Good("libcrypto", k, {"pub"}, o)
<1> DEFINE ow == {"impl", "ec_key", "pub_x", "pub_y"}
           ky == [Blank EXCEPT !.curve = CurveOf[k], !.pub_x = x, !.pub_y = y, !.pub = k]
<1>1. OfPublic(CurveOf[k], x, y) = {k}
  BY PublicIsOne, Zenon
<1>2. s_key_pair_destroy(ow) = {}
  BY DEF s_key_pair_destroy
<1>3. o = Null({}) \/ o = Built(ky, ow)
  BY <1>1, <1>2, Zenon DEF aws_ecc_key_pair_new_from_public_key_impl_libcrypto
<1>4. /\ IsKey(ky) /\ ky.curve = CurveOf[k] /\ ky.pub_x = x /\ ky.pub_y = y
      /\ ky.priv = NoKey /\ ky.pub = k
  BY BlankIs, Material, Zenon DEF IsKey
<1> HIDE DEF ky
<1>5. x # <<>>
  BY NotEmpty, KeyIs
<1>6. Given("libcrypto", k, {"pub"}, ky, ow)
  BY <1>4, <1>5 DEF Given, Shows, PartsOf, Platform
<1> QED
  BY <1>3, <1>4, <1>6, NullGood, BuiltGood, Zenon

\* opensslcrypto_ecc.c:193-228.  Generated: the parts are the numbers of the key.
LEMMA OGenerate ==
  ASSUME NEW k \in Keys, NEW o \in aws_ecc_key_pair_new_generate_random_libcrypto(CurveOf[k]),
         o.ret = "ok" => o.key.priv = k
  PROVE  Good("libcrypto", k, {"priv", "pub"}, o)
<1> DEFINE ow == {"impl", "ec_key"}
           From(j) == [Blank EXCEPT !.curve = CurveOf[k], !.priv_d = Trim(D[j]), !.priv = j, !.pub = j]
           To(j) == [From(j) EXCEPT !.pub_x = Trim(X[j]), !.pub_y = Trim(Y[j])]
           all == {"impl", "ec_key", "priv_d", "pub_x", "pub_y"}
           Filled(j) == s_fill_in_public_key_info(From(j), ow \cup {"priv_d"}, j)
<1>1. s_key_pair_destroy(ow) = {} /\ s_key_pair_destroy(ow \cup {"priv_d"}) = {}
  BY SMTT(30) DEF s_key_pair_destroy
<1>2. \/ o = Null({})
      \/ \E j \in Keys : \E f \in Filled(j) :
           CurveOf[j] = CurveOf[k] /\ o = IF f.ret = "ok" THEN f ELSE Null(s_key_pair_destroy(f.owned))
  BY <1>1, Zenon DEF aws_ecc_key_pair_new_generate_random_libcrypto
<1>3. ASSUME NEW j \in Keys, NEW f \in Filled(j)
      PROVE  f = Outcome("invalid_state", From(j), ow \cup {"priv_d"}) \/ f = Built(To(j), all)
  <2>1. (ow \cup {"priv_d"}) \cup {"pub_x", "pub_y"}
          \cup (IF "pub_x" \in ow \cup {"priv_d"} THEN {"lost"} ELSE {}) = all
    OBVIOUS
  <2>2. j # Infinity
    BY Material
  <2> HIDE DEF From
  <2> QED
    BY <1>3, <2>1, <2>2, Zenon DEF s_fill_in_public_key_info
<1>4. ASSUME NEW j \in Keys, NEW f \in Filled(j), CurveOf[j] = CurveOf[k],
             o = IF f.ret = "ok" THEN f ELSE Null(s_key_pair_destroy(f.owned))
      PROVE  Good("libcrypto", k, {"priv", "pub"}, o)
  <2> HIDE DEF Filled, From, To, all
  <2>1. CASE f = Outcome("invalid_state", From(j), ow \cup {"priv_d"})
    <3>1. f.ret = "invalid_state" /\ f.owned = ow \cup {"priv_d"}
      <4>1. Ends(f, "invalid_state", From(j), ow \cup {"priv_d"})
        BY <2>1, OutcomeIs, Zenon
      <4> QED
        BY <4>1, Zenon DEF Ends
    <3>2. o = Null({})
      BY <1>1, <1>4, <3>1
    <3> QED
      BY <3>2, NullGood
  <2>2. CASE f = Built(To(j), all)
    <3>1. /\ Trim(X[j]) \in Seq(Byte) /\ Trim(Y[j]) \in Seq(Byte) /\ Trim(D[j]) \in Seq(Byte)
          /\ CurveOf[k] \in Curves
      BY Material, Trimmed, Zenon
    <3>2. /\ IsKey(From(j)) /\ From(j).curve = CurveOf[k] /\ From(j).priv_d = Trim(D[j])
          /\ From(j).priv = j /\ From(j).pub = j
      BY <3>1, BlankIs, Zenon DEF From, IsKey
    <3>3. /\ IsKey(To(j)) /\ To(j).curve = CurveOf[k] /\ To(j).priv_d = Trim(D[j])
          /\ To(j).priv = j /\ To(j).pub = j /\ To(j).pub_x = Trim(X[j]) /\ To(j).pub_y = Trim(Y[j])
      BY <3>1, <3>2, Zenon DEF To, IsKey
    <3>4. o = Built(To(j), all) /\ o.ret = "ok" /\ o.key = To(j)
      <4>1. Ends(f, "ok", To(j), all)
        BY <2>2, BuiltIs, Zenon
      <4> QED
        BY <1>4, <2>2, <4>1, Zenon DEF Ends
    <3>5. j = k
      BY <3>3, <3>4, SMTT(30)
    <3>6. Same(Trim(X[k]), X[k]) /\ Same(Trim(Y[k]), Y[k]) /\ Same(Trim(D[k]), D[k])
      BY Material, SameTrim
    <3>7. Trim(X[k]) # <<>>
      BY <3>6, NotEmpty, KeyIs
    <3>8. Given("libcrypto", k, {"priv", "pub"}, To(j), all)
      BY <3>3, <3>5, <3>6, <3>7 DEF Given, Shows, PartsOf, Platform, all
    <3> QED
      BY <3>3, <3>4, <3>8, BuiltGood, ZenonT(40)
  <2> QED
    BY <1>3, <1>4, <2>1, <2>2, ZenonT(40)
<1> QED
  BY <1>2, <1>4, NullGood, Zenon

\* An outcome that is not a pair ...
LEMMA FailedGood ==
  ASSUME NEW b, NEW k, NEW parts, NEW o, NEW r, NEW w, Ends(o, r, Blank, w), r # "ok",
         w \subseteq {"cf_error"}
  PROVE  Good(b, k, parts, o)
BY DEF Good, Ends

\* ... and one that is.
LEMMA MadeGood ==
  ASSUME NEW b, NEW k, NEW parts, NEW o, NEW ky, NEW w, Ends(o, "ok", ky, w), IsKey(ky),
         Given(b, k, parts, ky, w)
  PROVE  Good(b, k, parts, o)
BY Zenon DEF Good, Ends

\* The decoder is released whatever became of the key.
LEMMA DecoderGone ==
  ASSUME NEW f, NEW r, NEW ky, NEW w, Ends(f, r, ky, w)
  PROVE  Ends(aws_der_decoder_destroy(f), r, ky, w \ {"decoder"})
<1> DEFINE p == aws_der_decoder_destroy(f)
<1>1. /\ p \in [ret : {f.ret}, key : {f.key}, owned : {f.owned \ {"decoder"}}, refused : {f.refused}]
      /\ p.ret = f.ret /\ p.key = f.key /\ p.owned = f.owned \ {"decoder"} /\ p.refused = f.refused
  BY DEF Ends, IsOutcome, aws_der_decoder_destroy
<1> HIDE DEF p
<1>2. Ends(p, r, ky, w \ {"decoder"})
  BY <1>1, Zenon DEF Ends, IsOutcome
<1> QED
  BY <1>2 DEF p

\* opensslcrypto_ecc.c:319-358.  From a document with a private part.
LEMMA OPrivateDocument ==
  ASSUME NEW k \in Keys, NEW has \in {{"priv", "pub"}, {"priv"}},
         NEW f \in s_new_from_private_document(Loaded(k, has))
  PROVE  Good("libcrypto", k, has, aws_der_decoder_destroy(f))
<1> DEFINE x == IF "pub" \in has THEN X[k] ELSE <<>>
           y == IF "pub" \in has THEN Y[k] ELSE <<>>
           load == Loaded(k, has)
           copies == {"priv_d"} \cup (IF x = <<>> THEN {} ELSE {"pub_x", "pub_y"})
           ow == {"decoder", "impl", "ec_key"} \cup copies
           ky == [curve |-> CurveOf[k], pub_x |-> x, pub_y |-> y, priv_d |-> D[k], priv |-> k, pub |-> k]
           o == aws_der_decoder_destroy(f)
<1>1. load.curve = CurveOf[k] /\ load.x = x /\ load.y = y /\ load.d = D[k]
  BY DEF Loaded
<1>2. /\ D[k] \in Seq(Byte) /\ Same(D[k], D[k]) /\ Same(X[k], X[k]) /\ Same(Y[k], Y[k])
      /\ X[k] \in Seq(Byte) /\ Y[k] \in Seq(Byte) /\ X[k] # <<>> /\ CurveOf[k] \in Curves
      /\ x \in Seq(Byte) /\ y \in Seq(Byte)
  BY Material DEF Same
<1>3. OfPrivate(load.curve, load.d) = {k}
  BY <1>1, <1>2, PrivateIsOne, ZenonT(40)
<1>4. f = Null({"decoder", "impl"} \ {"impl"}) \/ f = Built(ky, ow)
  <2> HIDE DEF load, x, y
  <2> QED
    BY <1>1, <1>3 DEF s_new_from_private_document, load
<1>5. CASE f = Null({"decoder", "impl"} \ {"impl"})
  <2>1. Ends(o, "null", Blank, ({"decoder", "impl"} \ {"impl"}) \ {"decoder"})
    BY <1>5, NullIs, DecoderGone, Zenon
  <2>2. ({"decoder", "impl"} \ {"impl"}) \ {"decoder"} \subseteq {"cf_error"}
    OBVIOUS
  <2> HIDE DEF o
  <2>3. Good("libcrypto", k, has, o)
    BY <2>1, <2>2, FailedGood
  <2> QED
    BY <2>3 DEF o
<1>6. CASE f = Built(ky, ow)
  <2> HIDE DEF ow, ky
  <2>1. Ends(o, "ok", ky, ow \ {"decoder"})
    BY <1>6, BuiltIs, DecoderGone, ZenonT(40)
  <2>2. /\ IsKey(ky) /\ ky.curve = CurveOf[k] /\ ky.pub_x = x /\ ky.pub_y = y /\ ky.priv_d = D[k]
        /\ ky.priv = k /\ ky.pub = k
    <3> HIDE DEF x, y
    <3> QED
      BY <1>2 DEF IsKey, ky
  <2>3. ow \ {"decoder"} = {"impl", "ec_key"} \cup copies
    BY DEF ow
  <2>4. Given("libcrypto", k, has, ky, {"impl", "ec_key"} \cup copies)
    BY <1>2, <2>2 DEF Given, Shows, PartsOf, Platform
  <2> HIDE DEF o
  <2>5. Good("libcrypto", k, has, o)
    BY <2>1, <2>2, <2>3, <2>4, MadeGood, ZenonT(40)
  <2> QED
    BY <2>5 DEF o
<1> QED
  BY <1>4, <1>5, <1>6, ZenonT(40)

\* opensslcrypto_ecc.c:299-376.  From any document.
LEMMA ODocument ==
  ASSUME NEW k \in Keys, NEW doc \in Document(k),
         NEW o \in aws_ecc_key_pair_new_from_asn1_libcrypto(doc)
  PROVE  Good("libcrypto", k, doc.has, o)
<1> DEFINE load == aws_der_decoder_load_ecc_key_pair(doc.tlvs)
<1>1. aws_der_decoder_load_ecc_key_pair(doc.tlvs) = load
  BY Zenon
<1> HIDE DEF load
<1>2. CASE doc.parses = FALSE
  <2>1. o = Null({})
    BY <1>2 DEF aws_ecc_key_pair_new_from_asn1_libcrypto
  <2> QED
    BY <2>1, NullGood, Zenon
<1>3. CASE doc.parses = TRUE /\ load.ok = FALSE
  <2>1. o = aws_der_decoder_destroy(Null({"decoder"}))
    BY <1>1, <1>3 DEF aws_ecc_key_pair_new_from_asn1_libcrypto
  <2>2. Ends(o, "null", Blank, {"decoder"} \ {"decoder"})
    BY <2>1, NullIs, DecoderGone, Zenon
  <2>3. {"decoder"} \ {"decoder"} \subseteq {"cf_error"}
    OBVIOUS
  <2> QED
    BY <2>2, <2>3, FailedGood
<1>4. CASE /\ doc.parses = TRUE /\ doc.has \in {{"priv", "pub"}, {"priv"}, {"pub"}}
           /\ load = Loaded(k, doc.has)
  <2>1. load.ok = TRUE /\ load.curve = CurveOf[k]
    BY <1>4 DEF Loaded
  <2>2. CASE doc.has \in {{"priv", "pub"}, {"priv"}}
    <3>1. load.d # <<>>
      BY <1>4, <2>2, Material DEF Loaded
    <3>2. PICK f \in s_new_from_private_document(load) : o = aws_der_decoder_destroy(f)
      BY <1>1, <1>4, <2>1, <3>1 DEF aws_ecc_key_pair_new_from_asn1_libcrypto
    <3> QED
      BY <1>4, <2>2, <3>2, OPrivateDocument, ZenonT(40)
  <2>3. CASE doc.has = {"pub"}
    <3>1. load.d = <<>> /\ load.x = X[k] /\ load.y = Y[k]
      BY <1>4, <2>3 DEF Loaded
    <3>2. PICK f \in aws_ecc_key_pair_new_from_public_key_impl_libcrypto(load.curve, load.x, load.y) :
            o = aws_der_decoder_destroy([f EXCEPT !.owned = @ \cup {"decoder"}])
      BY <1>1, <1>4, <2>1, <3>1, Zenon DEF aws_ecc_key_pair_new_from_asn1_libcrypto
    <3>3. X[k] \in Seq(Byte) /\ Y[k] \in Seq(Byte) /\ Same(X[k], X[k]) /\ Same(Y[k], Y[k])
      BY Material DEF Same
    <3>4. Good("libcrypto", k, {"pub"}, f)
      BY <2>1, <3>1, <3>2, <3>3, OPublic, Zenon
    <3>5. Good("libcrypto", k, {"pub"}, Passing(f, {"decoder"}))
      <4>1. {"decoder"} \cap {"impl", "ec_key", "pub_x", "pub_y", "priv_d", "key_buf", "key_handle",
                                "cf_allocator", "priv_key_ref", "pub_key_ref", "cf_error"} = {}
        OBVIOUS
      <4>2. "libcrypto" \in {"libcrypto", "windows", "darwin"}
        OBVIOUS
      <4> QED
        BY <3>4, <4>1, <4>2, PassingGood, Zenon
    <3>6. o = Passing(f, {"decoder"})
      BY <3>2, Zenon DEF aws_der_decoder_destroy, Passing
    <3> QED
      BY <2>3, <3>5, <3>6, SMTT(30)
  <2> QED
    BY <1>4, <2>2, <2>3
<1> QED
  BY <1>2, <1>3, <1>4, DocumentLoads, Zenon DEF load

\* What derive may come to for a pair of key k.
Derived(b, k, parts, o) ==
  /\ IsKey(o.key)
  /\ Given(b, k, IF o.ret = "ok" /\ parts # {} THEN parts \cup {"pub"} ELSE parts, o.key, o.owned)

\* Derive may fail and leave the pair as it was ...
LEMMA SameDerived ==
  ASSUME NEW b, NEW k, NEW parts, NEW o, NEW r, NEW ky, NEW w, Ends(o, r, ky, w),
         r # "ok", IsKey(ky), Given(b, k, parts, ky, w)
  PROVE  Derived(b, k, parts, o)
BY Zenon DEF Derived, Ends

\* ... or succeed, and then a pair that was given anything has its public part.
LEMMA NewDerived ==
  ASSUME NEW b, NEW k, NEW parts, NEW o, NEW ky, NEW w, Ends(o, "ok", ky, w), IsKey(ky),
         Given(b, k, parts, ky, w), parts # {} => Given(b, k, parts \cup {"pub"}, ky, w)
  PROVE  Derived(b, k, parts, o)
BY Zenon DEF Derived, Ends

\* opensslcrypto_ecc.c:124-149.  Derive fills in the point of the private scalar, and loses no
\* buffer: there was none before.
LEMMA ODerive ==
  ASSUME NEW k \in Keys, NEW parts, NEW ky, NEW ow, IsKey(ky), Given("libcrypto", k, parts, ky, ow),
         NEW o \in s_derive_public_key_libcrypto(ky, ow)
  PROVE  Derived("libcrypto", k, parts, o)
<1> DEFINE Point(p) == [ky EXCEPT !.pub = p]
           Filled == [Point(k) EXCEPT !.pub_x = Trim(X[k]), !.pub_y = Trim(Y[k])]
<1>1. k # Infinity /\ X[k] \in Seq(Byte) /\ Positive(X[k])
  BY Material, KeyIs
<1>2. CASE "priv_d" \notin ow
  <2>1. o = Outcome("invalid_state", ky, ow)
    BY <1>2 DEF s_derive_public_key_libcrypto
  <2> QED
    BY <2>1, OutcomeIs, SameDerived
<1>3. CASE "priv_d" \in ow /\ ky.pub_x # <<>>
  <2>1. o = Built(ky, ow)
    BY <1>3, SMTT(30) DEF s_derive_public_key_libcrypto
  <2>2. Given("libcrypto", k, parts \cup {"pub"}, ky, ow)
    BY <1>3 DEF Given, Shows
  <2> QED
    BY <2>1, <2>2, BuiltIs, NewDerived, ZenonT(40)
<1>4. CASE "priv_d" \in ow /\ ky.pub_x = <<>>
  <2>1. "pub_x" \notin ow /\ Same(ky.priv_d, D[k]) /\ ky.curve = CurveOf[k] /\ ky.priv_d \in Seq(Byte)
    BY <1>4, SMTT(30) DEF Given, IsKey
  <2>2. "pub" \notin parts
    BY <1>1, <1>4, NotEmpty DEF Given, Shows
  <2>3. OfPrivate(ky.curve, ky.priv_d) = {k}
    BY <2>1, PrivateIsOne, Zenon
  <2>4. PICK p \in {k, Infinity} : o \in s_fill_in_public_key_info(Point(p), ow, p)
    BY <1>4, <2>3, SMTT(30) DEF s_derive_public_key_libcrypto
  <2> HIDE DEF Point
  <2>5. o = Outcome("invalid_state", Point(p), ow) \/ o = Built(Filled, ow \cup {"pub_x", "pub_y"})
    BY <2>1, <2>4, Zenon DEF s_fill_in_public_key_info
  <2>6. \A q \in {k, Infinity} :
          /\ IsKey(Point(q)) /\ Point(q).curve = CurveOf[k] /\ Point(q).pub_x = <<>>
          /\ Point(q).priv_d = ky.priv_d /\ Point(q).priv = ky.priv /\ Point(q).pub = q
    BY <1>4, <2>1, SMTT(30) DEF Point, IsKey
  <2>7. CASE o = Outcome("invalid_state", Point(p), ow)
    <3>1. Given("libcrypto", k, parts, Point(p), ow)
      BY <2>1, <2>2, <2>6 DEF Given, Shows
    <3> QED
      BY <2>6, <2>7, <3>1, OutcomeIs, SameDerived, SMTT(30)
  <2>8. CASE o = Built(Filled, ow \cup {"pub_x", "pub_y"})
    <3>1. Trim(X[k]) \in Seq(Byte) /\ Trim(Y[k]) \in Seq(Byte)
      BY Material, Trimmed, Zenon
    <3>2. /\ IsKey(Filled) /\ Filled.curve = CurveOf[k] /\ Filled.pub_x = Trim(X[k])
          /\ Filled.pub_y = Trim(Y[k])
          /\ Filled.priv_d = ky.priv_d /\ Filled.priv = ky.priv /\ Filled.pub = k
      BY <2>6, <3>1, Zenon DEF IsKey
    <3> HIDE DEF Filled
    <3>3. Same(Trim(X[k]), X[k]) /\ Same(Trim(Y[k]), Y[k])
      BY Material, SameTrim
    <3>4. Trim(X[k]) # <<>>
      BY <3>3, NotEmpty, KeyIs
    <3>5. /\ Given("libcrypto", k, parts, Filled, ow \cup {"pub_x", "pub_y"})
          /\ Given("libcrypto", k, parts \cup {"pub"}, Filled, ow \cup {"pub_x", "pub_y"})
      BY <2>1, <2>2, <3>2, <3>3, <3>4 DEF Given, Shows, PartsOf, Platform
    <3> QED
      BY <2>8, <3>2, <3>5, BuiltIs, NewDerived, ZenonT(40)
  <2> QED
    BY <2>5, <2>7, <2>8, SMTT(30)
<1> QED
  BY <1>2, <1>3, <1>4, SMTT(30)

\* A signature by a key, in DER.
SigOK(sig) ==
  /\ sig.by \in Keys /\ sig.r \in Scalars[CurveOf[sig.by]] /\ sig.s \in Scalars[CurveOf[sig.by]]
  /\ sig.der = <<DerNumber(sig.r), DerNumber(sig.s)>>

\* A signature in DER has at most the length that the curve allows.
LEMMA DerFits ==
  ASSUME NEW c \in Curves, NEW r \in Scalars[c], NEW s \in Scalars[c]
  PROVE  DerSize(<<DerNumber(r), DerNumber(s)>>) \in 1..(8 + 2 * CoordinateBytes[c])
<1> DEFINE n == CoordinateBytes[c]
<1>1. n \in Nat /\ r \in Numbers(n) /\ s \in Numbers(n)
  BY KeysAssumption
<1>2. Len(DerNumber(r)) \in 1..(n + 1) /\ Len(DerNumber(s)) \in 1..(n + 1)
  BY <1>1, DerRead
<1>3. DerSize(<<DerNumber(r), DerNumber(s)>>) = 2 + (2 + Len(DerNumber(r))) + (2 + Len(DerNumber(s)))
  BY DEF DerSize
<1> HIDE DEF n
<1>4. DerSize(<<DerNumber(r), DerNumber(s)>>) \in 1..(8 + 2 * n)
  BY <1>1, <1>2, <1>3
<1> QED
  BY <1>4 DEF n

\* What signing with key k may come to.
SignedWell(b, k, w, length, room, o) ==
  /\ o.owned \in {w, w \cup {"cf_error"}}
  /\ \A sig \in o.sig : sig.by = k /\ SigOK(sig)
  /\ o.wrote \in Nat
  /\ o.ret = "ok" <=> o.wrote > 0
  /\ room >= length \/ b # "libcrypto" => o.wrote <= room
  /\ o.ret = "short_buffer" => room < length

\* Signing may fail if it writes nothing ...
LEMMA NotSignedWell ==
  ASSUME NEW b, NEW k, NEW w, NEW length \in Nat, NEW room \in Nat, NEW error, NEW v, error # "ok",
         v \in {w, w \cup {"cf_error"}}, error = "short_buffer" => room < length
  PROVE  SignedWell(b, k, w, length, room, NotSigned(error, v))
BY DEF SignedWell, NotSigned

\* ... or write the signature.
LEMMA SignedIsWell ==
  ASSUME NEW b, NEW k \in Keys, NEW w, NEW length, length = 8 + 2 * CoordinateBytes[CurveOf[k]],
         NEW room \in Int,
         NEW r \in Scalars[CurveOf[k]], NEW s \in Scalars[CurveOf[k]],
         b = "libcrypto" \/ DerSize(<<DerNumber(r), DerNumber(s)>>) <= room
  PROVE  SignedWell(b, k, w, length, room,
           Signed([by |-> k, r |-> r, s |-> s, der |-> <<DerNumber(r), DerNumber(s)>>], w))
<1> DEFINE sig == [by |-> k, r |-> r, s |-> s, der |-> <<DerNumber(r), DerNumber(s)>>]
<1>1. SigOK(sig) /\ sig.by = k /\ sig.der = <<DerNumber(r), DerNumber(s)>>
  BY DEF SigOK
<1> HIDE DEF sig
<1>2. CurveOf[k] \in Curves /\ CoordinateBytes[CurveOf[k]] \in Nat
  BY Material
<1>3. DerSize(sig.der) \in 1..length
  BY <1>1, <1>2, DerFits
<1> DEFINE o == Signed(sig, w)
<1>4. o.ret = "ok" /\ o.wrote = DerSize(sig.der) /\ o.sig = {sig} /\ o.owned = w
  BY DEF Signed
<1> HIDE DEF o
<1>5. SignedWell(b, k, w, length, room, o)
  BY <1>1, <1>2, <1>3, <1>4, SMTT(30) DEF SignedWell
<1> QED
  BY <1>5, SMTT(30) DEF o, sig

\* opensslcrypto_ecc.c:48-82.  ECDSA_size is room enough.
LEMMA OSigns ==
  ASSUME NEW k \in Keys, NEW parts, NEW ky, NEW w, IsKey(ky), Given("libcrypto", k, parts, ky, w),
         NEW room \in Nat, NEW o \in s_sign_payload(ky, w, room)
  PROVE  SignedWell("libcrypto", k, w, s_signature_length_libcrypto(ky), room, o)
<1> DEFINE length == s_signature_length_libcrypto(ky)
<1>1. ky.curve = CurveOf[k] /\ ky.priv \in {NoKey, k} /\ CoordinateBytes[CurveOf[k]] \in Nat
  BY Material DEF Given
<1>2. length = 8 + 2 * CoordinateBytes[CurveOf[k]] /\ length \in Nat
  BY <1>1 DEF s_signature_length_libcrypto, aws_ecc_key_coordinate_byte_size_from_curve_name
<1> HIDE DEF length
<1>3. \/ o = NotSigned("invalid_argument", w)
      \/ \E r, s \in Scalars[CurveOf[k]] :
           o = Signed([by |-> k, r |-> r, s |-> s, der |-> <<DerNumber(r), DerNumber(s)>>], w)
  BY <1>1 DEF s_sign_payload
<1>4. SignedWell("libcrypto", k, w, length, room, NotSigned("invalid_argument", w))
  BY <1>2, NotSignedWell
<1>5. ASSUME NEW r \in Scalars[CurveOf[k]], NEW s \in Scalars[CurveOf[k]],
             o = Signed([by |-> k, r |-> r, s |-> s, der |-> <<DerNumber(r), DerNumber(s)>>], w)
      PROVE  SignedWell("libcrypto", k, w, length, room, o)
  <2>1. room \in Int
    OBVIOUS
  <2> QED
    BY <1>2, <1>5, <2>1, SignedIsWell, ZenonT(40)
<1> QED
  BY <1>3, <1>4, <1>5, Zenon DEF length

\* What verifying with a pair of key k may come to.
Verified(k, parts, w, sig, o) ==
  /\ o.owned \in {w, w \cup {"cf_error"}}
  /\ ~o.erred => /\ o.ret = "ok" => sig.by = k
                 /\ sig.by = k /\ "pub" \in parts => o.ret = "ok"

\* A verdict: whether the signer is the key behind the pair, or an error.
Judged(ky, w, sig, o) ==
  /\ o.owned \in {w, w \cup {"cf_error"}}
  /\ o.erred = TRUE \/ (o.ret = "ok" <=> ky.pub = sig.by)

\* A verdict accepts the signatures of the pair's own key and no other.
LEMMA VerdictsAre ==
  ASSUME NEW b, NEW k \in Keys, NEW parts, NEW ky, NEW w, Given(b, k, parts, ky, w),
         NEW sig, SigOK(sig), NEW o, Judged(ky, w, sig, o)
  PROVE  Verified(k, parts, w, sig, o)
<1>1. sig.by # NoKey /\ sig.by # Infinity
  BY Material DEF SigOK
<1>2. ky.pub \in {NoKey, Infinity, k} /\ ("pub" \in parts => ky.pub = k)
  BY DEF Given
<1>3. CASE o.erred = TRUE
  BY <1>3 DEF Judged, Verified
<1>4. CASE o.ret = "ok" <=> ky.pub = sig.by
  <2>1. (o.ret = "ok" => sig.by = k) /\ (sig.by = k /\ "pub" \in parts => o.ret = "ok")
    BY <1>1, <1>2, <1>4
  <2> QED
    BY <2>1, SMTT(30) DEF Judged, Verified
<1> QED
  BY <1>3, <1>4, Zenon DEF Judged

\* opensslcrypto_ecc.c:67-76.  libcrypto reads the DER that any platform writes.
LEMMA OVerifies ==
  ASSUME NEW k \in Keys, NEW parts, NEW ky, NEW w, Given("libcrypto", k, parts, ky, w),
         NEW sig, SigOK(sig), NEW o \in s_verify_payload(ky, w, sig)
  PROVE  Verified(k, parts, w, sig, o)
<1>1. ReadsAs(sig.der, sig.r, sig.s)
  BY ZenonT(40) DEF ReadsAs, SigOK
<1>2. Judged(ky, w, sig, o)
  <2>1. \/ o = [ret |-> IF ky.pub = sig.by /\ ReadsAs(sig.der, sig.r, sig.s) THEN "ok" ELSE "invalid",
               erred |-> FALSE, owned |-> w]
        \/ o = [ret |-> "invalid", erred |-> TRUE, owned |-> w]
    BY DEF s_verify_payload, Verdicts
  <2>2. CASE o = [ret |-> "invalid", erred |-> TRUE, owned |-> w]
    BY <2>2 DEF Judged
  <2>3. CASE o = [ret |-> IF ky.pub = sig.by /\ ReadsAs(sig.der, sig.r, sig.s) THEN "ok"
                          ELSE "invalid",
                  erred |-> FALSE, owned |-> w]
    BY <1>1, <2>3 DEF Judged
  <2> QED
    BY <2>1, <2>2, <2>3, SMTT(30)
<1> QED
  BY <1>2, VerdictsAre, Zenon

-----------------------------------------------------------------------------
(* Windows. *)

\* The parts of key k as a caller passes them, with their leading zeros or without; those that
\* are not there are empty.
Passed(k, parts, x, y, d) ==
  /\ parts \in {{"priv", "pub"}, {"priv"}, {"pub"}}
  /\ x \in Seq(Byte) /\ y \in Seq(Byte) /\ d \in Seq(Byte)
  /\ IF "pub" \in parts THEN Same(x, X[k]) /\ Same(y, Y[k]) ELSE x = <<>> /\ y = <<>>
  /\ IF "priv" \in parts THEN Same(d, D[k]) ELSE d = <<>>

\* The parts tell which they are, and a provider makes key k of them.
LEMMA PassedParts ==
  ASSUME NEW k \in Keys, NEW parts, NEW x, NEW y, NEW d, Passed(k, parts, x, y, d)
  PROVE  /\ x = <<>> <=> "pub" \notin parts
         /\ y = <<>> <=> "pub" \notin parts
         /\ d = <<>> <=> "priv" \notin parts
         /\ (IF d = <<>> THEN Keys ELSE OfPrivate(CurveOf[k], d)) \cap
            (IF x = <<>> THEN Keys ELSE OfPublic(CurveOf[k], x, y)) = {k}
<1>1. "pub" \in parts => x # <<>> /\ y # <<>>
  BY NotEmpty, KeyIs DEF Passed
<1>2. "priv" \in parts => d # <<>>
  BY NotEmpty, KeyIs DEF Passed
<1>3. x = <<>> <=> "pub" \notin parts
  BY <1>1 DEF Passed
<1>4. y = <<>> <=> "pub" \notin parts
  BY <1>1 DEF Passed
<1>5. d = <<>> <=> "priv" \notin parts
  BY <1>2 DEF Passed
<1>6. "pub" \in parts => OfPublic(CurveOf[k], x, y) = {k}
  BY PublicIsOne, Zenon DEF Passed
<1>7. "priv" \in parts => OfPrivate(CurveOf[k], d) = {k}
  BY PrivateIsOne, Zenon DEF Passed
<1>8. "pub" \in parts \/ "priv" \in parts
  BY DEF Passed
<1>9. (IF d = <<>> THEN Keys ELSE OfPrivate(CurveOf[k], d)) \cap
            (IF x = <<>> THEN Keys ELSE OfPublic(CurveOf[k], x, y)) = {k}
  BY <1>3, <1>5, <1>6, <1>7, <1>8
<1> QED
  BY <1>3, <1>4, <1>5, <1>9, ZenonT(40)

\* Zeros are bytes.
LEMMA ZerosAre ==
  ASSUME NEW n \in Nat
  PROVE  Zeros(n) \in Seq(Byte)
BY DEF Zeros, Byte

\* bcrypt_ecc.c:270-385.  The lengths are checked, so the buffer has exactly the parts.
LEMMA BAlloc ==
  ASSUME NEW k \in Keys, NEW parts, NEW x, NEW y, NEW d, Passed(k, parts, x, y, d),
         NEW o \in s_alloc_pair_and_init_buffers_windows(CurveOf[k], x, y, d)
  PROVE  Good("windows", k, parts, o)
<1> DEFINE n == CoordinateBytes[CurveOf[k]]
           OrZeros(part) == IF part = <<>> THEN Zeros(n) ELSE part
           ow == {"impl", "key_buf", "key_handle"}
           ky == [curve |-> CurveOf[k], pub_x |-> OrZeros(x), pub_y |-> OrZeros(y),
                  priv_d |-> OrZeros(d), priv |-> IF d = <<>> THEN NoKey ELSE k, pub |-> k]
<1>1. (IF d = <<>> THEN Keys ELSE OfPrivate(CurveOf[k], d)) \cap
      (IF x = <<>> THEN Keys ELSE OfPublic(CurveOf[k], x, y)) = {k}
  BY PassedParts
<1>2. s_destroy_key_windows({"impl"}) = {} /\ s_destroy_key_windows({"impl", "key_buf"}) = {}
  BY DEF s_destroy_key_windows
<1>3. /\ n \in Nat /\ CurveOf[k] \in Curves /\ X[k] \in Seq(Byte) /\ Y[k] \in Seq(Byte)
      /\ D[k] \in Seq(Byte)
      /\ Len(X[k]) = n /\ Len(Y[k]) = n /\ Len(D[k]) = n /\ Zeros(n) \in Seq(Byte)
  BY Material, ZerosAre
<1> HIDE DEF n
<1>4. o = Null({}) \/ (o = Built(ky, ow) /\ \A part \in {x, y, d} \ {<<>>} : Len(part) = n)
  BY <1>1, <1>2, Zenon
    DEF s_alloc_pair_and_init_buffers_windows, aws_ecc_key_coordinate_byte_size_from_curve_name, n
<1>5. CASE o = Built(ky, ow) /\ \A part \in {x, y, d} \ {<<>>} : Len(part) = n
  <2>1. OrZeros(x) \in Seq(Byte) /\ OrZeros(y) \in Seq(Byte) /\ OrZeros(d) \in Seq(Byte)
    BY <1>3 DEF Passed
  <2>2. "pub" \in parts => OrZeros(x) = x /\ OrZeros(y) = y /\ Len(x) = n /\ Len(y) = n
    BY <1>5, PassedParts
  <2>3. "priv" \in parts => OrZeros(d) = d /\ Len(d) = n
    BY <1>5, PassedParts, SMTT(30)
  <2> HIDE DEF OrZeros
  <2>4. /\ IsKey(ky) /\ ky.curve = CurveOf[k] /\ ky.pub_x = OrZeros(x) /\ ky.pub_y = OrZeros(y)
        /\ ky.priv_d = OrZeros(d) /\ ky.priv \in {NoKey, k} /\ ky.pub = k
    BY <1>3, <2>1 DEF IsKey
  <2> HIDE DEF ky
  <2>5. Given("windows", k, parts, ky, ow)
    BY <1>3, <2>2, <2>3, <2>4 DEF Given, Shows, PartsOf, Platform, Passed
  <2> QED
    BY <1>5, <2>4, <2>5, BuiltGood, Zenon
<1> QED
  BY <1>4, <1>5, NullGood, ZenonT(40)

\* bcrypt_ecc.c:387-454.  Generated: the exported blob has the parts.
LEMMA BGenerate ==
  ASSUME NEW k \in Keys, NEW o \in aws_ecc_key_pair_new_generate_random_windows(CurveOf[k]),
         o.ret = "ok" => o.key.priv = k
  PROVE  Good("windows", k, {"priv", "pub"}, o)
<1> DEFINE n == CoordinateBytes[CurveOf[k]]
           zeros == Zeros(n)
           ow == {"impl", "key_handle", "key_buf"}
           From(j) == [curve |-> CurveOf[k], pub_x |-> zeros, pub_y |-> zeros, priv_d |-> zeros,
                       priv |-> j, pub |-> j]
           To(j) == [From(j) EXCEPT !.pub_x = X[j], !.pub_y = Y[j], !.priv_d = D[j]]
           Derives(j) == s_derive_public_key_windows(From(j), ow)
<1>1. /\ s_destroy_key_windows({"impl"}) = {} /\ s_destroy_key_windows({"impl", "key_handle"}) = {}
      /\ s_destroy_key_windows(ow) = {}
  BY DEF s_destroy_key_windows
<1>2. Zeros(n) = zeros
  BY Zenon
<1> HIDE DEF zeros
<1>3. \/ o = Null({})
      \/ \E j \in Keys : \E f \in Derives(j) :
           CurveOf[j] = CurveOf[k] /\ o = IF f.ret = "ok" THEN f
                                          ELSE Null(s_destroy_key_windows(f.owned))
  BY <1>2, <1>1, Zenon
    DEF aws_ecc_key_pair_new_generate_random_windows, aws_ecc_key_coordinate_byte_size_from_curve_name
<1>4. ASSUME NEW j \in Keys, NEW f \in Derives(j)
      PROVE  f = Outcome("missing_component", From(j), ow) \/ f = Built(To(j), ow)
  <2>1. From(j).priv = j
    OBVIOUS
  <2> HIDE DEF From
  <2> QED
    BY <1>4, <2>1, Zenon DEF s_derive_public_key_windows
<1>5. ASSUME NEW j \in Keys, NEW f \in Derives(j), CurveOf[j] = CurveOf[k],
             o = IF f.ret = "ok" THEN f ELSE Null(s_destroy_key_windows(f.owned))
      PROVE  Good("windows", k, {"priv", "pub"}, o)
  <2> HIDE DEF Derives, From, To
  <2>1. CASE f = Outcome("missing_component", From(j), ow)
    <3>1. f.ret = "missing_component" /\ f.owned = ow
      <4>1. Ends(f, "missing_component", From(j), ow)
        BY <2>1, OutcomeIs, Zenon
      <4> QED
        BY <4>1, Zenon DEF Ends
    <3>2. o = Null({})
      BY <1>1, <1>5, <3>1
    <3> QED
      BY <3>2, NullGood
  <2>2. CASE f = Built(To(j), ow)
    <3>1. /\ X[j] \in Seq(Byte) /\ Y[j] \in Seq(Byte) /\ D[j] \in Seq(Byte)
          /\ CurveOf[k] \in Curves /\ zeros \in Seq(Byte)
      BY Material, ZerosAre DEF zeros
    <3>2. /\ IsKey(From(j)) /\ From(j).curve = CurveOf[k] /\ From(j).priv = j /\ From(j).pub = j
      BY <3>1 DEF From, IsKey
    <3>3. /\ IsKey(To(j)) /\ To(j).curve = CurveOf[k] /\ To(j).priv_d = D[j]
          /\ To(j).priv = j /\ To(j).pub = j /\ To(j).pub_x = X[j] /\ To(j).pub_y = Y[j]
      BY <3>1, <3>2, Zenon DEF To, IsKey
    <3>4. o = Built(To(j), ow) /\ o.ret = "ok" /\ o.key = To(j)
      <4>1. Ends(f, "ok", To(j), ow)
        BY <2>2, BuiltIs, Zenon
      <4> QED
        BY <1>5, <2>2, <4>1, Zenon DEF Ends
    <3>5. j = k
      BY <3>3, <3>4
    <3>6. Given("windows", k, {"priv", "pub"}, To(j), ow)
      BY <3>3, <3>5 DEF Given, Shows, PartsOf, Platform, Same
    <3> QED
      BY <3>3, <3>4, <3>6, BuiltGood, ZenonT(40)
  <2> QED
    BY <1>4, <1>5, <2>1, <2>2, ZenonT(40)
<1> QED
  BY <1>3, <1>5, NullGood, Zenon

\* What was read of a document is passed on as it is.
LEMMA LoadedPassed ==
  ASSUME NEW k \in Keys, NEW has \in {{"priv", "pub"}, {"priv"}, {"pub"}},
         NEW load, load = Loaded(k, has)
  PROVE  load.ok = TRUE /\ load.curve = CurveOf[k] /\ Passed(k, has, load.x, load.y, load.d)
<1>1. /\ load.ok = TRUE /\ load.curve = CurveOf[k]
      /\ load.x = (IF "pub" \in has THEN X[k] ELSE <<>>)
      /\ load.y = (IF "pub" \in has THEN Y[k] ELSE <<>>)
      /\ load.d = (IF "priv" \in has THEN D[k] ELSE <<>>)
  BY DEF Loaded
<1> QED
  BY <1>1, Material DEF Passed, Same

\* bcrypt_ecc.c:456-484.  From any document; one that does not parse ends the program.
LEMMA BDocument ==
  ASSUME NEW k \in Keys, NEW doc \in Document(k), NEW o \in aws_ecc_key_pair_new_from_asn1_windows(doc)
  PROVE  Good("windows", k, doc.has, o)
<1> DEFINE load == aws_der_decoder_load_ecc_key_pair(doc.tlvs)
<1>1. aws_der_decoder_load_ecc_key_pair(doc.tlvs) = load
  BY Zenon
<1> HIDE DEF load
<1>2. CASE doc.parses = FALSE
  <2>1. o = Outcome("crash", Blank, {})
    BY <1>2 DEF aws_ecc_key_pair_new_from_asn1_windows
  <2>2. Ends(o, "crash", Blank, {})
    BY <2>1, OutcomeIs, Zenon
  <2> QED
    BY <2>2, FailedGood
<1>3. CASE doc.parses = TRUE /\ load.ok = FALSE
  <2>1. o = aws_der_decoder_destroy(Null({"decoder"}))
    BY <1>1, <1>3 DEF aws_ecc_key_pair_new_from_asn1_windows
  <2>2. Ends(o, "null", Blank, {"decoder"} \ {"decoder"})
    BY <2>1, NullIs, DecoderGone, Zenon
  <2>3. {"decoder"} \ {"decoder"} \subseteq {"cf_error"}
    OBVIOUS
  <2> QED
    BY <2>2, <2>3, FailedGood
<1>4. CASE /\ doc.parses = TRUE /\ doc.has \in {{"priv", "pub"}, {"priv"}, {"pub"}}
           /\ load = Loaded(k, doc.has)
  <2>1. load.ok = TRUE /\ load.curve = CurveOf[k] /\ Passed(k, doc.has, load.x, load.y, load.d)
    BY <1>4, LoadedPassed, Zenon
  <2>2. PICK f \in s_alloc_pair_and_init_buffers_windows(load.curve, load.x, load.y, load.d) :
            o = aws_der_decoder_destroy([f EXCEPT !.owned = @ \cup {"decoder"}])
    BY <1>1, <1>4, <2>1, Zenon DEF aws_ecc_key_pair_new_from_asn1_windows
  <2>3. Good("windows", k, doc.has, f)
    BY <2>1, <2>2, BAlloc, Zenon
  <2>4. Good("windows", k, doc.has, Passing(f, {"decoder"}))
    <3>1. {"decoder"} \cap {"impl", "ec_key", "pub_x", "pub_y", "priv_d", "key_buf", "key_handle",
                                "cf_allocator", "priv_key_ref", "pub_key_ref", "cf_error"} = {}
      OBVIOUS
    <3>2. "windows" \in {"libcrypto", "windows", "darwin"}
      OBVIOUS
    <3> QED
      BY <2>3, <3>1, <3>2, PassingGood, Zenon
  <2>5. o = Passing(f, {"decoder"})
    BY <2>2, Zenon DEF aws_der_decoder_destroy, Passing
  <2> QED
    BY <2>4, <2>5
<1> QED
  BY <1>2, <1>3, <1>4, DocumentLoads, Zenon DEF load

\* bcrypt_ecc.c:149-169.  The exported blob has the parts of the private key.
LEMMA BDerive ==
  ASSUME NEW k \in Keys, NEW parts, NEW ky, NEW ow, IsKey(ky), Given("windows", k, parts, ky, ow),
         NEW o \in s_derive_public_key_windows(ky, ow)
  PROVE  Derived("windows", k, parts, o)
<1> DEFINE to == [ky EXCEPT !.pub_x = X[k], !.pub_y = Y[k], !.priv_d = D[k]]
<1>1. o = Outcome("missing_component", ky, ow) \/ (ky.priv = k /\ o = Built(to, ow))
  BY Zenon DEF s_derive_public_key_windows, Given
<1>2. CASE o = Outcome("missing_component", ky, ow)
  BY <1>2, OutcomeIs, SameDerived
<1>3. CASE ky.priv = k /\ o = Built(to, ow)
  <2>1. /\ IsKey(to) /\ to.curve = ky.curve /\ to.pub_x = X[k] /\ to.pub_y = Y[k] /\ to.priv_d = D[k]
        /\ to.priv = ky.priv /\ to.pub = ky.pub
    BY Material, Zenon DEF IsKey
  <2> HIDE DEF to
  <2>2. Given("windows", k, parts, to, ow)
    BY <1>3, <2>1 DEF Given, Shows, Same
  <2>3. parts # {} => ky.pub = k
    BY DEF Given
  <2>4. parts # {} => Given("windows", k, parts \cup {"pub"}, to, ow)
    BY <1>3, <2>1, <2>3 DEF Given, Shows, Same
  <2> QED
    BY <1>3, <2>1, <2>2, <2>4, BuiltIs, NewDerived, Zenon
<1> QED
  BY <1>1, <1>2, <1>3

\* bcrypt_ecc.c:129-138.  The DER of Windows is the DER of the other platforms.
LEMMA EncodeIs == \A raw : EncodeInteger(raw) = DerNumber(raw)
BY SMTT(30) DEF EncodeInteger, DerNumber

\* bcrypt_ecc.c:80-147.  Room for signature_length bytes is asked for, and is enough.
LEMMA BSigns ==
  ASSUME NEW k \in Keys, NEW parts, NEW ky, NEW w, IsKey(ky), Given("windows", k, parts, ky, w),
         NEW room \in Nat, NEW o \in s_sign_message_windows(ky, w, room)
  PROVE  SignedWell("windows", k, w, s_signature_length_windows(ky), room, o)
<1> DEFINE length == s_signature_length_windows(ky)
           Of(r, s) == [by |-> k, r |-> r, s |-> s, der |-> <<DerNumber(r), DerNumber(s)>>]
<1>1. ky.curve = CurveOf[k] /\ ky.priv \in {NoKey, k} /\ CoordinateBytes[CurveOf[k]] \in Nat
  BY Material DEF Given
<1>2. length = 8 + 2 * CoordinateBytes[CurveOf[k]] /\ length \in Nat
  BY <1>1 DEF s_signature_length_windows, aws_ecc_key_coordinate_byte_size_from_curve_name
<1> HIDE DEF length
<1>3. \/ o = NotSigned("short_buffer", w) /\ room < length
      \/ o = NotSigned("invalid_argument", w)
      \/ \E r, s \in Scalars[CurveOf[k]] :
           /\ room >= length
           /\ o = IF Signed(Of(r, s), w).wrote <= room THEN Signed(Of(r, s), w) ELSE NotSigned("ok", w)
  <2>1. s_signature_length_windows(ky) = length
    BY DEF length
  <2> QED
    BY <1>1, <1>2, <2>1, EncodeIs DEF s_sign_message_windows
<1>4. SignedWell("windows", k, w, length, room, NotSigned("invalid_argument", w))
  BY <1>2, NotSignedWell
<1>5. CASE o = NotSigned("short_buffer", w) /\ room < length
  <2>1. SignedWell("windows", k, w, length, room, NotSigned("short_buffer", w))
    BY <1>2, <1>5, NotSignedWell
  <2> QED
    BY <1>5, <2>1 DEF length
<1>6. ASSUME NEW r \in Scalars[CurveOf[k]], NEW s \in Scalars[CurveOf[k]], room >= length,
             o = IF Signed(Of(r, s), w).wrote <= room THEN Signed(Of(r, s), w) ELSE NotSigned("ok", w)
      PROVE  SignedWell("windows", k, w, length, room, o)
  <2>1. DerSize(<<DerNumber(r), DerNumber(s)>>) \in 1..length
    BY <1>1, <1>2, Material, DerFits, SMTT(30)
  <2>2. Signed(Of(r, s), w).wrote = DerSize(<<DerNumber(r), DerNumber(s)>>)
    BY SMTT(30) DEF Signed
  <2>3. DerSize(<<DerNumber(r), DerNumber(s)>>) <= room /\ room \in Int
    BY <1>2, <1>6, <2>1, SMTT(30)
  <2>4. o = Signed(Of(r, s), w)
    BY <1>6, <2>2, <2>3, SMTT(30)
  <2> QED
    BY <1>2, <2>3, <2>4, SignedIsWell, ZenonT(40)
<1> QED
  BY <1>3, <1>4, <1>5, <1>6, Zenon DEF length

\* bcrypt_ecc.c:171-185 and der.c:39-52.  The two numbers that CNG gets are those that were signed, each with
\* its full length.
LEMMA BReads ==
  ASSUME NEW k \in Keys, NEW sig, SigOK(sig), sig.by = k, NEW ky, ky.curve = CurveOf[k]
  PROVE  s_append_coordinate(s_append_coordinate(<<>>, DecodeInteger(sig.der[1]), ky.curve),
                               DecodeInteger(sig.der[2]), ky.curve) = sig.r \o sig.s
<1> DEFINE n == CoordinateBytes[CurveOf[k]]
<1>1. /\ n \in Nat /\ sig.r \in Numbers(n) /\ sig.s \in Numbers(n)
      /\ sig.der[1] = DerNumber(sig.r) /\ sig.der[2] = DerNumber(sig.s)
  BY KeysAssumption DEF SigOK
<1>2. DecodeInteger(sig.der[1]) = Trim(sig.r) /\ DecodeInteger(sig.der[2]) = Trim(sig.s)
  <2>1. \A r \in Numbers(n) : DecodeInteger(DerNumber(r)) = Trim(r)
    BY <1>1, DerRead DEF DecodeInteger
  <2> QED
    BY <1>1, <2>1
<1>3. \A buffer, coordinate :
        s_append_coordinate(buffer, coordinate, CurveOf[k]) =
          buffer \o (IF Len(coordinate) < n THEN Pad(coordinate, n) ELSE coordinate)
  BY DEF s_append_coordinate, aws_ecc_key_coordinate_byte_size_from_curve_name
<1>4. /\ (IF Len(Trim(sig.r)) < n THEN Pad(Trim(sig.r), n) ELSE Trim(sig.r)) = sig.r
      /\ (IF Len(Trim(sig.s)) < n THEN Pad(Trim(sig.s), n) ELSE Trim(sig.s)) = sig.s
  BY <1>1, PadTrim
<1>5. <<>> \o sig.r = sig.r
  <2>1. sig.r \in Seq(Byte)
    BY <1>1, NumberIs
  <2> QED
    BY <2>1
<1> HIDE DEF n
<1>6. s_append_coordinate(<<>>, Trim(sig.r), CurveOf[k]) = sig.r
  BY <1>3, <1>4, <1>5, Zenon
<1>7. s_append_coordinate(sig.r, Trim(sig.s), CurveOf[k]) = sig.r \o sig.s
  BY <1>3, <1>4, Zenon
<1> QED
  BY <1>2, <1>6, <1>7, Zenon

\* bcrypt_ecc.c:187-260.  CNG accepts the DER that any platform writes.
LEMMA BVerifies ==
  ASSUME NEW k \in Keys, NEW parts, NEW ky, NEW w, Given("windows", k, parts, ky, w),
         NEW sig, SigOK(sig), NEW o \in s_verify_signature_windows(ky, w, sig)
  PROVE  Verified(k, parts, w, sig, o)
<1> DEFINE both == s_append_coordinate(s_append_coordinate(<<>>, DecodeInteger(sig.der[1]), ky.curve),
                                         DecodeInteger(sig.der[2]), ky.curve)
<1>1. ky.curve = CurveOf[k] /\ ky.pub = k
  BY DEF Given
<1>2. sig.by = k => both = sig.r \o sig.s
  BY <1>1, BReads, ZenonT(40)
<1> HIDE DEF both
<1>3. Judged(ky, w, sig, o)
  <2>1. \/ o = [ret |-> IF ky.pub = sig.by /\ both = sig.r \o sig.s THEN "ok" ELSE "invalid",
               erred |-> FALSE, owned |-> w]
        \/ o = [ret |-> "invalid", erred |-> TRUE, owned |-> w]
    BY Zenon DEF s_verify_signature_windows, Verdicts, both
  <2>2. CASE o = [ret |-> "invalid", erred |-> TRUE, owned |-> w]
    BY <2>2 DEF Judged
  <2>3. CASE o = [ret |-> IF ky.pub = sig.by /\ both = sig.r \o sig.s THEN "ok" ELSE "invalid",
                  erred |-> FALSE, owned |-> w]
    BY <1>1, <1>2, <2>3, Zenon DEF Judged
  <2> QED
    BY <2>1, <2>2, <2>3, Zenon
<1> QED
  BY <1>3, VerdictsAre, Zenon

-----------------------------------------------------------------------------
(* Darwin. *)

\* What s_alloc_pair_and_init_buffers takes.
DarwinBuffers == {"impl", "cf_allocator", "key_buf"}

\* A pair with its buffers and no keys yet.
Fresh(k, parts, x, y, ky) ==
  /\ IsKey(ky) /\ ky.curve = CurveOf[k] /\ ky.pub_x = x /\ ky.pub_y = y
  /\ ky.priv = NoKey /\ ky.pub = NoKey
  /\ "pub" \in parts => Shows("darwin", x, X[k]) /\ Shows("darwin", y, Y[k])
  /\ "priv" \in parts => Shows("darwin", ky.priv_d, D[k])

\* securityframework_ecc.c:135-207.  The lengths are checked, so the buffer has exactly the parts.
LEMMA SAlloc ==
  ASSUME NEW k \in Keys, NEW parts, NEW x, NEW y, NEW d, Passed(k, parts, x, y, d),
         NEW f \in s_alloc_pair_and_init_buffers_darwin(CurveOf[k], x, y, d)
  PROVE  \/ f = Null({})
         \/ \E ky : Fresh(k, parts, x, y, ky) /\ f = Built(ky, DarwinBuffers)
<1> DEFINE n == CoordinateBytes[CurveOf[k]]
           With(bytes) == [Blank EXCEPT !.curve = CurveOf[k], !.pub_x = x, !.pub_y = y, !.priv_d = bytes]
<1>1. s_destroy_key_darwin({"impl"}) = {} /\ s_destroy_key_darwin({"impl", "cf_allocator"}) = {}
  BY DEF s_destroy_key_darwin
<1>2. /\ n \in Nat /\ CurveOf[k] \in Curves /\ X[k] \in Seq(Byte) /\ Y[k] \in Seq(Byte)
      /\ D[k] \in Seq(Byte)
      /\ Len(X[k]) = n /\ Len(Y[k]) = n /\ Len(D[k]) = n /\ Zeros(n) \in Seq(Byte)
  BY Material, ZerosAre
<1>3. Unwritten(n) \subseteq Seq(Byte)
  <2>1. [i \in 1..n |-> 3] \in Seq(Byte)
    BY <1>2, SMTT(30) DEF Byte
  <2> QED
    BY <1>2, <2>1 DEF Unwritten
<1> HIDE DEF n
<1>4. \/ f = Null({})
      \/ /\ \A part \in {x, y, d} \ {<<>>} : Len(part) = n
         /\ \E bytes \in IF d = <<>> THEN Unwritten(n) ELSE {d} : f = Built(With(bytes), DarwinBuffers)
  BY <1>1, Zenon DEF s_alloc_pair_and_init_buffers_darwin,
    aws_ecc_key_coordinate_byte_size_from_curve_name, n, DarwinBuffers
<1>5. ASSUME \A part \in {x, y, d} \ {<<>>} : Len(part) = n,
             NEW bytes \in IF d = <<>> THEN Unwritten(n) ELSE {d}
      PROVE  Fresh(k, parts, x, y, With(bytes))
  <2>1. bytes \in Seq(Byte) /\ x \in Seq(Byte) /\ y \in Seq(Byte)
    BY <1>3, <1>5 DEF Passed
  <2>2. "pub" \in parts => Len(x) = n /\ Len(y) = n
    BY <1>5, PassedParts
  <2>3. "priv" \in parts => bytes = d /\ Len(d) = n
    BY <1>5, PassedParts
  <2>4. /\ IsKey(With(bytes)) /\ With(bytes).curve = CurveOf[k] /\ With(bytes).pub_x = x
        /\ With(bytes).pub_y = y /\ With(bytes).priv_d = bytes /\ With(bytes).priv = NoKey
        /\ With(bytes).pub = NoKey
    BY <1>2, <2>1, BlankIs, Zenon DEF IsKey
  <2> HIDE DEF With
  <2> QED
    BY <1>2, <2>2, <2>3, <2>4 DEF Fresh, Shows, Passed
<1> QED
  BY <1>4, <1>5, Zenon

\* A function that stops on its way has some of the things it makes.
LEMMA StagesAre ==
  ASSUME NEW T, NEW s \in Seq(T), NEW stage \in Stages(s)
  PROVE  stage \subseteq T
BY DEF Stages

\* The error path of the importing constructors releases all of them.
LEMMA ImportReleased ==
  ASSUME NEW stage \in Stages(<<"key_data", "key_attributes">>)
  PROVE  ReleaseImport(DarwinBuffers \cup stage) = {}
<1>1. stage \subseteq {"key_data", "key_attributes"}
  <2>1. <<"key_data", "key_attributes">> \in Seq({"key_data", "key_attributes"})
    OBVIOUS
  <2> QED
    BY <2>1, StagesAre, Zenon
<1> QED
  BY <1>1 DEF ReleaseImport, s_destroy_key_darwin, DarwinBuffers

\* securityframework_ecc.c:209-335.  The two importing constructors end in a pair of key k, or
\* in nothing.
LEMMA SImport ==
  ASSUME NEW k \in Keys, NEW parts, NEW x, NEW y, NEW d, Passed(k, parts, x, y, d),
         NEW ref \in {"priv_key_ref", "pub_key_ref"},
         parts = IF ref = "priv_key_ref" THEN {"priv"} ELSE {"pub"},
         NEW o \in Import(s_alloc_pair_and_init_buffers_darwin(CurveOf[k], x, y, d), {k}, ref)
  PROVE  Good("darwin", k, parts, o)
<1> DEFINE To(ky) == IF ref = "priv_key_ref" THEN [ky EXCEPT !.priv = k] ELSE [ky EXCEPT !.pub = k]
<1>1. PICK f \in s_alloc_pair_and_init_buffers_darwin(CurveOf[k], x, y, d) :
        \/ f.ret # "ok" /\ o = f
        \/ \E stage \in Stages(<<"key_data", "key_attributes">>) :
             f.ret = "ok" /\ o = Null(ReleaseImport(f.owned \cup stage))
        \/ f.ret = "ok" /\ o = Built(To(f.key), f.owned \cup {ref})
  BY Zenon DEF Import
<1>2. CASE f = Null({})
  <2>1. f.ret = "null"
    BY <1>2, NullIs, ZenonT(40) DEF Ends
  <2> QED
    BY <1>1, <1>2, <2>1, NullGood, Zenon
<1>3. ASSUME NEW ky, Fresh(k, parts, x, y, ky), f = Built(ky, DarwinBuffers)
      PROVE  Good("darwin", k, parts, o)
  <2>1. f.ret = "ok" /\ f.key = ky /\ f.owned = DarwinBuffers
    BY <1>3, BuiltIs, Zenon DEF Ends
  <2>2. o = Null({}) \/ o = Built(To(ky), DarwinBuffers \cup {ref})
    <3> HIDE DEF To
    <3> QED
      BY <1>1, <2>1, ImportReleased, Zenon
  <2>3. /\ IsKey(To(ky)) /\ To(ky).curve = ky.curve /\ To(ky).pub_x = x /\ To(ky).pub_y = y
        /\ To(ky).priv_d = ky.priv_d
        /\ To(ky).priv = (IF ref = "priv_key_ref" THEN k ELSE NoKey)
        /\ To(ky).pub = (IF ref = "priv_key_ref" THEN NoKey ELSE k)
    BY <1>3, Zenon DEF Fresh, IsKey
  <2> HIDE DEF To
  <2>4. Given("darwin", k, parts, To(ky), DarwinBuffers \cup {ref})
    <3>1. x # <<>> => "pub" \in parts
      BY PassedParts
    <3> QED
      BY <1>3, <2>3, <3>1 DEF Given, Fresh, PartsOf, Platform, DarwinBuffers
  <2>5. CASE o = Null({})
    BY <2>5, NullGood, Zenon
  <2>6. CASE o = Built(To(ky), DarwinBuffers \cup {ref})
    BY <2>3, <2>4, <2>6, BuiltGood, Zenon
  <2> QED
    BY <2>2, <2>5, <2>6, Zenon
<1>4. f = Null({}) \/ \E ky : Fresh(k, parts, x, y, ky) /\ f = Built(ky, DarwinBuffers)
  BY <1>1, SAlloc, SMTT(30)
<1> QED
  BY <1>2, <1>3, <1>4

\* securityframework_ecc.c:209-270.  From a private scalar.
LEMMA SPrivate ==
  ASSUME NEW k \in Keys, NEW d \in Seq(Byte), Same(d, D[k]),
         NEW o \in aws_ecc_key_pair_new_from_private_key_impl_darwin(CurveOf[k], d)
  PROVE  Good("darwin", k, {"priv"}, o)
<1>1. OfPrivate(CurveOf[k], d) = {k}
  BY PrivateIsOne, Zenon
<1>2. o \in Import(s_alloc_pair_and_init_buffers_darwin(CurveOf[k], <<>>, <<>>, d), {k}, "priv_key_ref")
  BY <1>1 DEF aws_ecc_key_pair_new_from_private_key_impl_darwin
<1>3. Passed(k, {"priv"}, <<>>, <<>>, d)
  BY DEF Passed
<1> QED
  BY <1>2, <1>3, SImport, Zenon

\* securityframework_ecc.c:272-335.  From coordinates.
LEMMA SPublic ==
  ASSUME NEW k \in Keys, NEW x \in Seq(Byte), NEW y \in Seq(Byte), Same(x, X[k]), Same(y, Y[k]),
         NEW o \in aws_ecc_key_pair_new_from_public_key_impl_darwin(CurveOf[k], x, y)
  PROVE  Good("darwin", k, {"pub"}, o)
<1>1. OfPublic(CurveOf[k], x, y) = {k}
  BY PublicIsOne, Zenon
<1>2. o \in Import(s_alloc_pair_and_init_buffers_darwin(CurveOf[k], x, y, <<>>), {k}, "pub_key_ref")
  BY <1>1 DEF aws_ecc_key_pair_new_from_public_key_impl_darwin
<1>3. Passed(k, {"pub"}, x, y, <<>>)
  BY DEF Passed
<1> QED
  BY <1>2, <1>3, SImport, Zenon

\* A pair that is returned although the framework did not take the key.
Refused(o, ky, w) ==
  IsOutcome(o) /\ o.ret = "ok" /\ o.key = ky /\ o.owned = w /\ o.refused = TRUE

\* Such a pair has been given nothing.
LEMMA RefusedGood ==
  ASSUME NEW b, NEW k, NEW parts, NEW o, NEW ky, NEW w, Refused(o, ky, w), IsKey(ky),
         Given(b, k, {}, ky, w)
  PROVE  Good(b, k, parts, o)
BY Zenon DEF Good, Refused

\* The decoder is released in this case, too.
LEMMA RefusedDecoderGone ==
  ASSUME NEW f, NEW ky, NEW w, Refused(f, ky, w)
  PROVE  Refused(aws_der_decoder_destroy(f), ky, w \ {"decoder"})
<1> DEFINE p == aws_der_decoder_destroy(f)
<1>1. /\ p \in [ret : {f.ret}, key : {f.key}, owned : {f.owned \ {"decoder"}}, refused : {f.refused}]
      /\ p.ret = f.ret /\ p.key = f.key /\ p.owned = f.owned \ {"decoder"} /\ p.refused = f.refused
  BY DEF Refused, IsOutcome, aws_der_decoder_destroy
<1> HIDE DEF p
<1>2. Refused(p, ky, w \ {"decoder"})
  BY <1>1, Zenon DEF Refused, IsOutcome
<1> QED
  BY <1>2 DEF p

\* How such an outcome comes about.
LEMMA RefusedIs ==
  ASSUME NEW f, NEW ky, NEW w, NEW v, Ends(f, "ok", ky, w)
  PROVE  /\ Refused([f EXCEPT !.refused = TRUE], ky, w)
         /\ Refused([f EXCEPT !.refused = TRUE, !.owned = @ \cup v], ky, w \cup v)
<1> DEFINE p == [f EXCEPT !.refused = TRUE]
           q == [f EXCEPT !.refused = TRUE, !.owned = @ \cup v]
<1>1. /\ p \in [ret : {f.ret}, key : {f.key}, owned : {f.owned}, refused : {TRUE}]
      /\ p.ret = f.ret /\ p.key = f.key /\ p.owned = f.owned /\ p.refused = TRUE
  BY Zenon DEF Ends, IsOutcome
<1>2. /\ q \in [ret : {f.ret}, key : {f.key}, owned : {f.owned \cup v}, refused : {TRUE}]
      /\ q.ret = f.ret /\ q.key = f.key /\ q.owned = f.owned \cup v /\ q.refused = TRUE
  BY Zenon DEF Ends, IsOutcome
<1> HIDE DEF p, q
<1>3. Refused(p, ky, w)
  BY <1>1, Zenon DEF Refused, IsOutcome, Ends
<1>4. Refused(q, ky, w \cup v)
  BY <1>2, Zenon DEF Refused, IsOutcome, Ends
<1> QED
  BY <1>3, <1>4 DEF p, q

\* securityframework_ecc.c:338-594.  Copying the public key gives it, or nothing.
LEMMA CopyPublic ==
  ASSUME NEW f, NEW ky, NEW w, NEW k, Ends(f, "ok", ky, w), NEW o \in SecKeyCopyPublicKey(f, k)
  PROVE  Refused(o, ky, w) \/ Ends(o, "ok", [ky EXCEPT !.pub = k], w \cup {"pub_key_ref"})
<1> DEFINE q == [f EXCEPT !.key.pub = k, !.owned = @ \cup {"pub_key_ref"}]
           to == [ky EXCEPT !.pub = k]
           v == w \cup {"pub_key_ref"}
<1>1. o = [f EXCEPT !.refused = TRUE] \/ o = q
  BY Zenon DEF SecKeyCopyPublicKey
<1>2. /\ q \in [ret : {f.ret}, key : {to}, owned : {v}, refused : {f.refused}]
      /\ q.ret = f.ret /\ q.key = to /\ q.owned = v /\ q.refused = f.refused
  BY Zenon DEF Ends, IsOutcome
<1> HIDE DEF q, to, v
<1>3. Ends(q, "ok", to, v)
  BY <1>2, Zenon DEF Ends, IsOutcome
<1>4. Refused([f EXCEPT !.refused = TRUE], ky, w)
  BY RefusedIs, Zenon
<1> QED
  BY <1>1, <1>3, <1>4, ZenonT(40) DEF to, v

\* securityframework_ecc.c:338-486.  Generated: the parts are read from the framework's document.
LEMMA SGenerate ==
  ASSUME NEW k \in Keys, NEW o \in aws_ecc_key_pair_new_generate_random_darwin(CurveOf[k]),
         o.ret = "ok" => o.key.priv = k
  PROVE  Good("darwin", k, {"priv", "pub"}, o)
<1> DEFINE until == <<"cf_allocator", "key_attributes", "size_str", "priv_key_ref", "pub_key_ref",
                      "export", "decoder">>
           all == {"cf_allocator", "key_attributes", "size_str", "priv_key_ref", "pub_key_ref",
                      "export", "decoder"}
           ow == {"impl", "cf_allocator", "priv_key_ref", "key_buf"}
           From(j) == [curve |-> CurveOf[j], pub_x |-> X[j], pub_y |-> Y[j], priv_d |-> D[j],
                       priv |-> j, pub |-> NoKey]
           To(j) == [From(j) EXCEPT !.pub = j]
<1>1. \A stage \in Stages(until) : ReleaseGenerate({"impl"} \cup stage) = {}
  <2>1. until \in Seq(all)
    OBVIOUS
  <2>2. \A stage \in Stages(until) : stage \subseteq all
    BY <2>1, StagesAre, ZenonT(40)
  <2> QED
    BY <2>2 DEF ReleaseGenerate, s_destroy_key_darwin
<1>2. ASSUME NEW j \in Keys
      PROVE  /\ aws_der_decoder_load_ecc_key_pair(PairDocument(j)).curve = CurveOf[j]
             /\ aws_der_decoder_load_ecc_key_pair(PairDocument(j)).x = X[j]
             /\ aws_der_decoder_load_ecc_key_pair(PairDocument(j)).y = Y[j]
             /\ aws_der_decoder_load_ecc_key_pair(PairDocument(j)).d = D[j]
  <2> DEFINE load == aws_der_decoder_load_ecc_key_pair(PairDocument(j))
  <2>1. load = [ok |-> TRUE, curve |-> CurveOf[j], x |-> X[j], y |-> Y[j], d |-> D[j]]
    BY PairLoads, ZenonT(40)
  <2> HIDE DEF load
  <2>2. load.curve = CurveOf[j] /\ load.x = X[j] /\ load.y = Y[j] /\ load.d = D[j]
    BY <2>1, SMTT(30)
  <2> QED
    BY <2>2 DEF load
<1> HIDE DEF until
<1>3. \/ o = Null({})
      \/ \E j \in Keys :
           CurveOf[j] = CurveOf[k] /\ o \in SecKeyCopyPublicKey(Built(From(j), ow), j)
  BY <1>1, <1>2, Zenon DEF aws_ecc_key_pair_new_generate_random_darwin, until
<1>4. ASSUME NEW j \in Keys, CurveOf[j] = CurveOf[k], o \in SecKeyCopyPublicKey(Built(From(j), ow), j)
      PROVE  Good("darwin", k, {"priv", "pub"}, o)
  <2>1. /\ IsKey(From(j)) /\ From(j).curve = CurveOf[j] /\ From(j).pub_x = X[j] /\ From(j).pub_y = Y[j]
        /\ From(j).priv_d = D[j] /\ From(j).priv = j /\ From(j).pub = NoKey
    BY Material, Zenon DEF IsKey
  <2> HIDE DEF From
  <2>2. /\ IsKey(To(j)) /\ To(j).curve = CurveOf[j] /\ To(j).pub_x = X[j] /\ To(j).pub_y = Y[j]
        /\ To(j).priv_d = D[j] /\ To(j).priv = j /\ To(j).pub = j
    BY <2>1, SMTT(30) DEF IsKey
  <2> HIDE DEF To
  <2>3. Refused(o, From(j), ow) \/ Ends(o, "ok", To(j), ow \cup {"pub_key_ref"})
    BY <1>4, BuiltIs, CopyPublic, Zenon DEF To
  <2>4. o.ret = "ok" /\ o.key.priv = j
    <3>1. o.ret = "ok" /\ o.key \in {From(j), To(j)}
      BY <2>3, ZenonT(40) DEF Refused, Ends
    <3> QED
      BY <2>1, <2>2, <3>1
  <2>5. j = k
    BY <2>4
  <2>6. Given("darwin", k, {}, From(j), ow)
    BY <2>1, <2>5 DEF Given, PartsOf, Platform
  <2>7. Given("darwin", k, {"priv", "pub"}, To(j), ow \cup {"pub_key_ref"})
    BY <2>2, <2>5 DEF Given, Shows, Same, PartsOf, Platform
  <2> QED
    BY <2>1, <2>2, <2>3, <2>6, <2>7, RefusedGood, MadeGood, Zenon
<1> QED
  BY <1>3, <1>4, NullGood, Zenon

\* securityframework_ecc.c:527-575.  The framework takes the key, or refuses it, or something
\* fails on the way.
LEMMA SImportDocument ==
  ASSUME NEW k \in Keys, NEW has, NEW load, load.curve = CurveOf[k],
         Passed(k, has, load.x, load.y, load.d),
         NEW ky, Fresh(k, has, load.x, load.y, ky),
         NEW f, Ends(f, "ok", ky, DarwinBuffers \cup {"decoder"}),
         NEW g \in ImportDocument(load, f)
  PROVE  Good("darwin", k, has, aws_der_decoder_destroy(g))
<1> DEFINE w == DarwinBuffers \cup {"decoder"}
           Priv == IF load.d = <<>> THEN NoKey ELSE k
           with_ref == [ky EXCEPT !.priv = Priv]
           pair == Built(with_ref, w \cup {"priv_key_ref"})
           full == [with_ref EXCEPT !.pub = k]
           o == aws_der_decoder_destroy(g)
<1>1. (IF load.d = <<>> THEN Keys ELSE OfPrivate(load.curve, load.d)) \cap
      (IF load.x = <<>> THEN Keys ELSE OfPublic(load.curve, load.x, load.y)) = {k}
  <2>1. /\ OfPrivate(load.curve, load.d) = OfPrivate(CurveOf[k], load.d)
        /\ OfPublic(load.curve, load.x, load.y) = OfPublic(CurveOf[k], load.x, load.y)
    BY Zenon
  <2>2. (IF load.d = <<>> THEN Keys ELSE OfPrivate(CurveOf[k], load.d)) \cap
        (IF load.x = <<>> THEN Keys ELSE OfPublic(CurveOf[k], load.x, load.y)) = {k}
    BY PassedParts, SMTT(30)
  <2> QED
    BY <2>1, <2>2
<1>2. f.key = ky /\ f.owned = w
  BY Zenon DEF Ends
<1>3. \A stage \in Stages(<<"key_data">>) : ReleaseImport(w \cup stage) = {"decoder"}
  <2>1. <<"key_data">> \in Seq({"key_data"})
    OBVIOUS
  <2>2. \A stage \in Stages(<<"key_data">>) : stage \subseteq {"key_data"}
    BY <2>1, StagesAre, Zenon
  <2> QED
    BY <2>2 DEF ReleaseImport, s_destroy_key_darwin, DarwinBuffers
<1> HIDE DEF w
<1>4. \/ g = Null({"decoder"})
      \/ g = [f EXCEPT !.refused = TRUE, !.owned = @ \cup {"cf_error"}]
      \/ g = Outcome("crash", Blank, {})
      \/ load.x = <<>> /\ g = pair
      \/ load.x # <<>> /\ g \in SecKeyCopyPublicKey(pair, k)
  BY <1>1, <1>2, <1>3, Zenon DEF ImportDocument
<1>5. /\ IsKey(with_ref) /\ with_ref.curve = CurveOf[k] /\ with_ref.pub_x = load.x
      /\ with_ref.pub_y = load.y
      /\ with_ref.priv_d = ky.priv_d /\ with_ref.priv \in {NoKey, k} /\ with_ref.pub = NoKey
  BY DEF IsKey, Fresh
<1> HIDE DEF with_ref
<1>6. /\ IsKey(full) /\ full.curve = CurveOf[k] /\ full.pub_x = load.x /\ full.pub_y = load.y
      /\ full.priv_d = ky.priv_d /\ full.priv \in {NoKey, k} /\ full.pub = k
  BY <1>5 DEF IsKey
<1> HIDE DEF full
<1>7. Ends(pair, "ok", with_ref, w \cup {"priv_key_ref"})
  BY BuiltIs, Zenon
<1> HIDE DEF pair
<1>8. CASE g = Null({"decoder"})
  <2>1. Ends(o, "null", Blank, {"decoder"} \ {"decoder"})
    BY <1>8, NullIs, DecoderGone, Zenon
  <2>2. {"decoder"} \ {"decoder"} \subseteq {"cf_error"}
    BY SMTT(30)
  <2> HIDE DEF o
  <2>3. Good("darwin", k, has, o)
    BY <2>1, <2>2, FailedGood, SMTT(30)
  <2> QED
    BY <2>3 DEF o
<1>9. CASE g = Outcome("crash", Blank, {})
  <2>1. Ends(o, "crash", Blank, {} \ {"decoder"})
    BY <1>9, OutcomeIs, DecoderGone, ZenonT(40)
  <2>2. {} \ {"decoder"} \subseteq {"cf_error"}
    BY SMTT(30)
  <2> HIDE DEF o
  <2>3. Good("darwin", k, has, o)
    BY <2>1, <2>2, FailedGood
  <2> QED
    BY <2>3 DEF o
<1>10. CASE g = [f EXCEPT !.refused = TRUE, !.owned = @ \cup {"cf_error"}]
  <2>1. Refused(g, ky, w \cup {"cf_error"})
    BY <1>10, RefusedIs, ZenonT(40) DEF w
  <2>2. Refused(o, ky, (w \cup {"cf_error"}) \ {"decoder"})
    BY <2>1, RefusedDecoderGone, ZenonT(40)
  <2>3. IsKey(ky) /\ Given("darwin", k, {}, ky, (w \cup {"cf_error"}) \ {"decoder"})
    BY DEF Fresh, Given, PartsOf, Platform, w, DarwinBuffers
  <2> QED
    BY <2>2, <2>3, RefusedGood, ZenonT(40)
<1>11. CASE load.x = <<>> /\ g = pair
  <2>1. Ends(o, "ok", with_ref, (w \cup {"priv_key_ref"}) \ {"decoder"})
    BY <1>7, <1>11, DecoderGone, ZenonT(40)
  <2>2. "pub" \notin has
    BY <1>11, PassedParts, SMTT(30)
  <2>3. Given("darwin", k, has, with_ref, (w \cup {"priv_key_ref"}) \ {"decoder"})
    BY <1>5, <1>11, <2>2 DEF Fresh, Given, PartsOf, Platform, w, DarwinBuffers, Passed
  <2> QED
    BY <1>5, <2>1, <2>3, MadeGood, ZenonT(40)
<1>12. CASE load.x # <<>> /\ g \in SecKeyCopyPublicKey(pair, k)
  <2>1. \/ Refused(g, with_ref, w \cup {"priv_key_ref"})
        \/ Ends(g, "ok", full, (w \cup {"priv_key_ref"}) \cup {"pub_key_ref"})
    BY <1>7, <1>12, CopyPublic, ZenonT(40) DEF full
  <2>2. \/ Refused(o, with_ref, (w \cup {"priv_key_ref"}) \ {"decoder"})
        \/ Ends(o, "ok", full, ((w \cup {"priv_key_ref"}) \cup {"pub_key_ref"}) \ {"decoder"})
    BY <2>1, RefusedDecoderGone, DecoderGone, ZenonT(40)
  <2>3. Given("darwin", k, {}, with_ref, (w \cup {"priv_key_ref"}) \ {"decoder"})
    BY <1>5, SMTT(30) DEF Given, PartsOf, Platform, w, DarwinBuffers
  <2>4. "pub" \in has
    BY <1>12, PassedParts
  <2>5. Given("darwin", k, has, full, ((w \cup {"priv_key_ref"}) \cup {"pub_key_ref"}) \ {"decoder"})
    BY <1>6, <2>4, SMTT(30) DEF Fresh, Given, PartsOf, Platform, w, DarwinBuffers, Passed
  <2> QED
    BY <1>5, <1>6, <2>2, <2>3, <2>5, RefusedGood, MadeGood, ZenonT(40)
<1> QED
  BY <1>4, <1>8, <1>9, <1>10, <1>11, <1>12, ZenonT(40)

\* securityframework_ecc.c:489-594.  From any document.
LEMMA SDocument ==
  ASSUME NEW k \in Keys, NEW doc \in Document(k), NEW o \in aws_ecc_key_pair_new_from_asn1_darwin(doc)
  PROVE  Good("darwin", k, doc.has, o)
<1> DEFINE load == aws_der_decoder_load_ecc_key_pair(doc.tlvs)
<1>1. aws_der_decoder_load_ecc_key_pair(doc.tlvs) = load
  BY Zenon
<1> HIDE DEF load
<1>2. CASE doc.parses = FALSE
  <2>1. o = Null({})
    BY <1>2 DEF aws_ecc_key_pair_new_from_asn1_darwin
  <2> QED
    BY <2>1, NullGood, Zenon
<1>3. CASE doc.parses = TRUE /\ load.ok = FALSE
  <2>1. o = aws_der_decoder_destroy(Null({"decoder"}))
    BY <1>1, <1>3, SMTT(30) DEF aws_ecc_key_pair_new_from_asn1_darwin
  <2>2. Ends(o, "null", Blank, {"decoder"} \ {"decoder"})
    BY <2>1, NullIs, DecoderGone, Zenon
  <2>3. {"decoder"} \ {"decoder"} \subseteq {"cf_error"}
    OBVIOUS
  <2> QED
    BY <2>2, <2>3, FailedGood
<1>4. CASE /\ doc.parses = TRUE /\ doc.has \in {{"priv", "pub"}, {"priv"}, {"pub"}}
           /\ load = Loaded(k, doc.has)
  <2>1. load.ok = TRUE /\ load.curve = CurveOf[k] /\ Passed(k, doc.has, load.x, load.y, load.d)
    BY <1>4, LoadedPassed, Zenon
  <2> DEFINE With(f) == [f EXCEPT !.owned = @ \cup {"decoder"}]
  <2>2. PICK f \in s_alloc_pair_and_init_buffers_darwin(CurveOf[k], load.x, load.y, load.d) :
          \/ With(f).ret # "ok" /\ o = aws_der_decoder_destroy(With(f))
          \/ With(f).ret = "ok" /\ \E g \in ImportDocument(load, With(f)) : o = aws_der_decoder_destroy(g)
    <3> DEFINE pairs == {With(f) : f \in s_alloc_pair_and_init_buffers_darwin(load.curve, load.x, load.y, load.d)}
    <3>1. PICK g \in UNION {IF h.ret = "ok" THEN ImportDocument(load, h) ELSE {h} : h \in pairs} :
            o = aws_der_decoder_destroy(g)
      BY <1>1, <1>4, <2>1 DEF aws_ecc_key_pair_new_from_asn1_darwin
    <3> HIDE DEF With
    <3> QED
      BY <2>1, <3>1
  <2>3. ASSUME NEW r, NEW ky, NEW w, Ends(f, r, ky, w)
        PROVE  Ends(With(f), r, ky, w \cup {"decoder"})
    <3> DEFINE p == With(f)
    <3>1. /\ p \in [ret : {f.ret}, key : {f.key}, owned : {f.owned \cup {"decoder"}}, refused : {f.refused}]
          /\ p.ret = f.ret /\ p.key = f.key /\ p.owned = f.owned \cup {"decoder"}
          /\ p.refused = f.refused
      BY <2>3 DEF Ends, IsOutcome
    <3> HIDE DEF p
    <3>2. Ends(p, r, ky, w \cup {"decoder"})
      BY <2>3, <3>1, ZenonT(40) DEF Ends, IsOutcome
    <3> QED
      BY <3>2 DEF p
  <2> HIDE DEF With
  <2>4. CASE f = Null({})
    <3>1. Ends(With(f), "null", Blank, {} \cup {"decoder"})
      BY <2>3, <2>4, NullIs, ZenonT(40)
    <3>2. CASE o = aws_der_decoder_destroy(With(f))
      <4>1. Ends(o, "null", Blank, ({} \cup {"decoder"}) \ {"decoder"})
        BY <3>1, <3>2, DecoderGone, ZenonT(40)
      <4>2. ({} \cup {"decoder"}) \ {"decoder"} \subseteq {"cf_error"}
        OBVIOUS
      <4> QED
        BY <4>1, <4>2, FailedGood
    <3>3. With(f).ret = "null"
      BY <3>1, Zenon DEF Ends
    <3> QED
      BY <2>2, <3>2, <3>3
  <2>5. ASSUME NEW ky, Fresh(k, doc.has, load.x, load.y, ky), f = Built(ky, DarwinBuffers)
        PROVE  Good("darwin", k, doc.has, o)
    <3>1. Ends(With(f), "ok", ky, DarwinBuffers \cup {"decoder"})
      BY <2>3, <2>5, BuiltIs, Zenon
    <3>2. With(f).ret = "ok"
      BY <3>1, ZenonT(40) DEF Ends
    <3>3. PICK g \in ImportDocument(load, With(f)) : o = aws_der_decoder_destroy(g)
      BY <2>2, <3>2, SMTT(30)
    <3> QED
      BY <2>1, <2>5, <3>1, <3>3, SImportDocument, ZenonT(40)
  <2>6. \/ f = Null({})
        \/ \E ky : Fresh(k, doc.has, load.x, load.y, ky) /\ f = Built(ky, DarwinBuffers)
    <3> HIDE DEF With
    <3>1. f \in s_alloc_pair_and_init_buffers_darwin(CurveOf[k], load.x, load.y, load.d)
      BY <2>2
    <3> HIDE DEF load
    <3> QED
      BY <2>1, <3>1, SAlloc, SMTT(30)
  <2> QED
    BY <2>4, <2>5, <2>6, SMTT(30)
<1> QED
  BY <1>2, <1>3, <1>4, DocumentLoads, Zenon DEF load

\* securityframework_ecc.c:97-104.  Derive succeeds if there are coordinates, and does nothing.
LEMMA SDerive ==
  ASSUME NEW k \in Keys, NEW parts, NEW ky, NEW ow, IsKey(ky), Given("darwin", k, parts, ky, ow),
         NEW o \in s_derive_public_key_darwin(ky, ow)
  PROVE  Derived("darwin", k, parts, o)
<1>1. CASE ky.pub_x # <<>>
  <2>1. o = Built(ky, ow)
    BY <1>1, SMTT(30) DEF s_derive_public_key_darwin
  <2>2. parts # {} => parts \cup {"pub"} = parts
    BY <1>1 DEF Given
  <2> QED
    BY <2>1, <2>2, BuiltIs, NewDerived, ZenonT(40)
<1>2. CASE ky.pub_x = <<>>
  <2>1. o = Outcome("unsupported", ky, ow)
    BY <1>2, SMTT(30) DEF s_derive_public_key_darwin
  <2> QED
    BY <2>1, OutcomeIs, SameDerived, SMTT(30)
<1> QED
  BY <1>1, <1>2, Zenon

\* securityframework_ecc.c:28-67.  A signature is written if it fits the room.
LEMMA SSigns ==
  ASSUME NEW k \in Keys, NEW parts, NEW ky, NEW w, IsKey(ky), Given("darwin", k, parts, ky, w),
         NEW room \in Nat, NEW o \in s_sign_message_darwin(ky, w, room)
  PROVE  SignedWell("darwin", k, w, s_signature_length_darwin(ky), room, o)
<1> DEFINE length == s_signature_length_darwin(ky)
           Of(r, s) == [by |-> k, r |-> r, s |-> s, der |-> <<DerNumber(r), DerNumber(s)>>]
<1>1. ky.curve = CurveOf[k] /\ ky.priv \in {NoKey, k} /\ CoordinateBytes[CurveOf[k]] \in Nat
  BY Material, Zenon DEF Given
<1>2. length = 8 + 2 * CoordinateBytes[CurveOf[k]] /\ length \in Nat
  BY <1>1 DEF s_signature_length_darwin, aws_ecc_key_coordinate_byte_size_from_curve_name
<1> HIDE DEF length
<1>3. \/ o = NotSigned("missing_component", w)
      \/ o = NotSigned("sys_call_failure", w \cup {"cf_error"})
      \/ \E r, s \in Scalars[CurveOf[k]] :
           o = IF Signed(Of(r, s), w).wrote <= room THEN Signed(Of(r, s), w)
               ELSE NotSigned("short_buffer", w)
  BY <1>1, SMTT(30) DEF s_sign_message_darwin
<1>4. SignedWell("darwin", k, w, length, room, NotSigned("missing_component", w))
  BY <1>2, NotSignedWell, SMTT(30)
<1>5. SignedWell("darwin", k, w, length, room, NotSigned("sys_call_failure", w \cup {"cf_error"}))
  BY <1>2, NotSignedWell, SMTT(30)
<1>6. ASSUME NEW r \in Scalars[CurveOf[k]], NEW s \in Scalars[CurveOf[k]],
             o = IF Signed(Of(r, s), w).wrote <= room THEN Signed(Of(r, s), w)
                 ELSE NotSigned("short_buffer", w)
      PROVE  SignedWell("darwin", k, w, length, room, o)
  <2>1. DerSize(<<DerNumber(r), DerNumber(s)>>) \in 1..length
    BY <1>1, <1>2, Material, DerFits, SMTT(30)
  <2>2. Signed(Of(r, s), w).wrote = DerSize(<<DerNumber(r), DerNumber(s)>>)
    BY Zenon DEF Signed
  <2>3. CASE DerSize(<<DerNumber(r), DerNumber(s)>>) <= room
    <3>1. o = Signed(Of(r, s), w)
      BY <1>6, <2>2, <2>3, Zenon
    <3>2. room \in Int
      OBVIOUS
    <3> QED
      BY <1>2, <2>3, <3>1, <3>2, SignedIsWell, ZenonT(40)
  <2>4. CASE ~(DerSize(<<DerNumber(r), DerNumber(s)>>) <= room)
    <3>1. o = NotSigned("short_buffer", w)
      BY <1>6, <2>2, <2>4, Zenon
    <3>2. room < length
      BY <1>2, <2>1, <2>4, SMTT(30)
    <3> QED
      BY <1>2, <3>1, <3>2, NotSignedWell, SMTT(30)
  <2> QED
    BY <2>3, <2>4, SMTT(30)
<1> QED
  BY <1>3, <1>4, <1>5, <1>6, Zenon DEF length

\* securityframework_ecc.c:69-95.  The framework reads the DER that any platform writes.
LEMMA SVerifies ==
  ASSUME NEW k \in Keys, NEW parts, NEW ky, NEW w, Given("darwin", k, parts, ky, w),
         NEW sig, SigOK(sig), NEW o \in s_verify_signature_darwin(ky, w, sig)
  PROVE  Verified(k, parts, w, sig, o)
<1>1. ReadsAs(sig.der, sig.r, sig.s)
  BY ZenonT(40) DEF ReadsAs, SigOK
<1>2. CASE "pub_key_ref" \notin w
  <2>1. "pub" \notin parts
    BY <1>2 DEF Given
  <2>2. o = [ret |-> "missing_component", erred |-> FALSE, owned |-> w]
    BY <1>2 DEF s_verify_signature_darwin
  <2> QED
    BY <2>1, <2>2, SMTT(30) DEF Verified
<1>3. CASE "pub_key_ref" \in w
  <2> DEFINE Kept(v) == [v EXCEPT !.owned = IF v.ret = "ok" THEN @ ELSE @ \cup {"cf_error"}]
             said == [ret |-> IF ky.pub = sig.by /\ ReadsAs(sig.der, sig.r, sig.s) THEN "ok"
                              ELSE "invalid",
                      erred |-> FALSE, owned |-> w]
             failed == [ret |-> "invalid", erred |-> TRUE, owned |-> w]
  <2>1. o = Kept(said) \/ o = Kept(failed)
    BY <1>3, Zenon DEF s_verify_signature_darwin, Verdicts
  <2>2. Judged(ky, w, sig, Kept(failed))
    BY DEF Judged
  <2>3. Judged(ky, w, sig, Kept(said))
    BY <1>1 DEF Judged
  <2>4. Judged(ky, w, sig, o)
    BY <2>1, <2>2, <2>3, ZenonT(40)
  <2> QED
    BY <2>4, VerdictsAre, Zenon
<1> QED
  BY <1>2, <1>3

-----------------------------------------------------------------------------
(* Every platform. *)

\* From a private scalar, on every platform.
LEMMA NewPrivate ==
  ASSUME NEW b \in Backend, NEW k \in Keys, NEW d \in {D[k], Trim(D[k])},
         NEW o \in Platform(b, aws_ecc_key_pair_new_from_private_key_impl_libcrypto(CurveOf[k], d),
                               aws_ecc_key_pair_new_from_private_key_impl_windows(CurveOf[k], d),
                               aws_ecc_key_pair_new_from_private_key_impl_darwin(CurveOf[k], d))
  PROVE  Good(b, k, {"priv"}, o)
<1>1. d \in Seq(Byte) /\ Same(d, D[k])
  <2>1. D[k] \in Seq(Byte) /\ Trim(D[k]) \in Seq(Byte) /\ Same(Trim(D[k]), D[k])
    BY Material, Trimmed, SameTrim, Zenon
  <2> QED
    BY <2>1, Zenon DEF Same
<1>2. CASE b = "libcrypto"
  <2>1. o \in aws_ecc_key_pair_new_from_private_key_impl_libcrypto(CurveOf[k], d)
    BY <1>2 DEF Platform
  <2> QED
    BY <1>1, <1>2, OPrivate, <2>1, ZenonT(40)
<1>3. CASE b = "windows"
  <2>1. o \in s_alloc_pair_and_init_buffers_windows(CurveOf[k], <<>>, <<>>, d)
    BY <1>3, SMTT(30) DEF Platform, aws_ecc_key_pair_new_from_private_key_impl_windows
  <2>2. Passed(k, {"priv"}, <<>>, <<>>, d)
    BY <1>1 DEF Passed
  <2> QED
    BY <1>3, <2>1, <2>2, BAlloc, ZenonT(40)
<1>4. CASE b = "darwin"
  <2>1. o \in aws_ecc_key_pair_new_from_private_key_impl_darwin(CurveOf[k], d)
    BY <1>4, SMTT(30) DEF Platform
  <2> QED
    BY <1>1, <1>4, SPrivate, <2>1, ZenonT(40)
<1> QED
  BY <1>2, <1>3, <1>4, PairAssumption, Zenon

\* From coordinates, on every platform.
LEMMA NewPublic ==
  ASSUME NEW b \in Backend, NEW k \in Keys, NEW x \in Seq(Byte), NEW y \in Seq(Byte),
         Same(x, X[k]), Same(y, Y[k]), NEW o \in NewFromPublic(b, CurveOf[k], x, y)
  PROVE  Good(b, k, {"pub"}, o)
<1>1. o \in Platform(b, aws_ecc_key_pair_new_from_public_key_impl_libcrypto(CurveOf[k], x, y),
                        aws_ecc_key_pair_new_from_public_key_impl_windows(CurveOf[k], x, y),
                        aws_ecc_key_pair_new_from_public_key_impl_darwin(CurveOf[k], x, y))
  BY DEF NewFromPublic
<1>2. CASE b = "libcrypto"
  <2>1. o \in aws_ecc_key_pair_new_from_public_key_impl_libcrypto(CurveOf[k], x, y)
    BY <1>1, <1>2 DEF Platform
  <2> QED
    BY <1>2, OPublic, <2>1, ZenonT(40)
<1>3. CASE b = "windows"
  <2>1. o \in s_alloc_pair_and_init_buffers_windows(CurveOf[k], x, y, <<>>)
    BY <1>1, <1>3, SMTT(30) DEF Platform, aws_ecc_key_pair_new_from_public_key_impl_windows
  <2>2. Passed(k, {"pub"}, x, y, <<>>)
    BY DEF Passed
  <2> QED
    BY <1>3, <2>1, <2>2, BAlloc, ZenonT(40)
<1>4. CASE b = "darwin"
  <2>1. o \in aws_ecc_key_pair_new_from_public_key_impl_darwin(CurveOf[k], x, y)
    BY <1>1, <1>4 DEF Platform
  <2> QED
    BY <1>4, SPublic, <2>1, Zenon
<1> QED
  BY <1>2, <1>3, <1>4, PairAssumption, SMTT(30)

\* ecc.c:301-340.  From hex digits of coordinates, on every platform: the two decoded buffers are
\* released.
LEMMA NewHex ==
  ASSUME NEW b \in Backend, NEW k \in Keys, NEW x \in {HexDigits(X[k]), Trim(HexDigits(X[k]))},
         NEW o \in {Null({})} \cup NewFromPublic(b, CurveOf[k], HexDecode(x), HexDecode(HexDigits(Y[k])))
  PROVE  Good(b, k, {"pub"}, FreeHex([o EXCEPT !.owned = @ \cup {"hex_x", "hex_y"}]))
<1> DEFINE hx == HexDecode(x)
           hy == HexDecode(HexDigits(Y[k]))
<1>1. hy = Y[k] /\ hx \in Seq(Byte) /\ Same(hx, X[k])
  <2>1. HexDecode(HexDigits(X[k])) = X[k] /\ HexDecode(HexDigits(Y[k])) = Y[k] /\ X[k] \in Seq(Byte)
    BY Material, HexWhole, Zenon
  <2>2. HexDecode(Trim(HexDigits(X[k]))) \in Seq(Byte) /\ Same(HexDecode(Trim(HexDigits(X[k]))), X[k])
    BY Material, KeyIs, HexTrim, Zenon
  <2> QED
    BY <2>1, <2>2, SMTT(30) DEF Same
<1>2. hy \in Seq(Byte) /\ Same(hy, Y[k])
  BY <1>1, Material DEF Same
<1> HIDE DEF hx, hy
<1>3. Good(b, k, {"pub"}, o)
  <2>1. CASE o = Null({})
    BY <2>1, NullGood, ZenonT(40)
  <2>2. CASE o \in NewFromPublic(b, CurveOf[k], hx, hy)
    BY <1>1, <1>2, <2>2, NewPublic, ZenonT(40)
  <2> QED
    BY <2>1, <2>2, ZenonT(40) DEF hx, hy
<1>4. FreeHex([o EXCEPT !.owned = @ \cup {"hex_x", "hex_y"}]) = Passing(o, {"hex_x", "hex_y"})
  BY ZenonT(40) DEF FreeHex, Passing
<1>5. {"hex_x", "hex_y"} \cap {"impl", "ec_key", "pub_x", "pub_y", "priv_d", "key_buf", "key_handle",
                               "cf_allocator", "priv_key_ref", "pub_key_ref", "cf_error"} = {}
  BY Zenon
<1>6. b \in {"libcrypto", "windows", "darwin"}
  BY PairAssumption
<1>7. Good(b, k, {"pub"}, Passing(o, {"hex_x", "hex_y"}))
  BY <1>3, <1>5, <1>6, PassingGood, ZenonT(40)
<1> QED
  BY <1>4, <1>7, SMTT(30)

\* Generated, on every platform.
LEMMA NewGenerated ==
  ASSUME NEW b \in Backend, NEW k \in Keys,
         NEW o \in Platform(b, aws_ecc_key_pair_new_generate_random_libcrypto(CurveOf[k]),
                               aws_ecc_key_pair_new_generate_random_windows(CurveOf[k]),
                               aws_ecc_key_pair_new_generate_random_darwin(CurveOf[k])),
         o.ret = "ok" => o.key.priv = k
  PROVE  Good(b, k, {"priv", "pub"}, o)
<1>1. CASE b = "libcrypto"
  <2>1. o \in aws_ecc_key_pair_new_generate_random_libcrypto(CurveOf[k])
    BY <1>1 DEF Platform
  <2> QED
    BY <1>1, OGenerate, <2>1, ZenonT(40)
<1>2. CASE b = "windows"
  <2>1. o \in aws_ecc_key_pair_new_generate_random_windows(CurveOf[k])
    BY <1>2 DEF Platform
  <2> QED
    BY <1>2, BGenerate, <2>1, Zenon
<1>3. CASE b = "darwin"
  <2>1. o \in aws_ecc_key_pair_new_generate_random_darwin(CurveOf[k])
    BY <1>3 DEF Platform
  <2> QED
    BY <1>3, SGenerate, <2>1, Zenon
<1> QED
  BY <1>1, <1>2, <1>3, PairAssumption, SMTT(30)

\* From a document, on every platform.
LEMMA NewDocument ==
  ASSUME NEW b \in Backend, NEW k \in Keys, NEW doc \in Document(k),
         NEW o \in Platform(b, aws_ecc_key_pair_new_from_asn1_libcrypto(doc),
                               aws_ecc_key_pair_new_from_asn1_windows(doc),
                               aws_ecc_key_pair_new_from_asn1_darwin(doc))
  PROVE  Good(b, k, doc.has, o)
<1>1. CASE b = "libcrypto"
  <2>1. o \in aws_ecc_key_pair_new_from_asn1_libcrypto(doc)
    BY <1>1 DEF Platform
  <2> QED
    BY <1>1, ODocument, <2>1, ZenonT(40)
<1>2. CASE b = "windows"
  <2>1. o \in aws_ecc_key_pair_new_from_asn1_windows(doc)
    BY <1>2 DEF Platform
  <2> QED
    BY <1>2, BDocument, <2>1, ZenonT(40)
<1>3. CASE b = "darwin"
  <2>1. o \in aws_ecc_key_pair_new_from_asn1_darwin(doc)
    BY <1>3, SMTT(30) DEF Platform
  <2> QED
    BY <1>3, SDocument, <2>1, ZenonT(40)
<1> QED
  BY <1>1, <1>2, <1>3, PairAssumption

-----------------------------------------------------------------------------
(* Every step. *)

\* A live pair is the one it was made for; without a pair nothing is owned.
PairOK ==
  /\ backend \in Backend /\ IsKey(key)
  /\ IF object = "live" THEN of \in Keys /\ Given(backend, of, knows, key, owned)
     ELSE key = Blank /\ of = NoKey /\ knows = {} /\ owned \subseteq {"cf_error"}

\* The signatures there are were made by keys.
MadeOK == Cardinality(made) <= MaxSignatures /\ \A sig \in made : SigOK(sig)

\* Error objects that were kept change nothing.
LEMMA GivenWithErrors ==
  ASSUME NEW b, NEW k, NEW parts, NEW ky, NEW w, NEW v, Given(b, k, parts, ky, w),
         v \ {"cf_error"} = w \ {"cf_error"}
  PROVE  Given(b, k, parts, ky, v)
<1>1. /\ "pub_key_ref" \in v <=> "pub_key_ref" \in w
      /\ "pub_x" \in v <=> "pub_x" \in w
      /\ "priv_d" \in v <=> "priv_d" \in w
  OBVIOUS
<1> QED
  BY <1>1, Zenon DEF Given

\* However a constructor ended.
LEMMA ConstructedOK ==
  ASSUME PairOK, MayConstruct, NEW t, NEW s, NEW b \in Backend, NEW k \in Keys, NEW parts, NEW o,
         Good(b, k, parts, o), Constructed(t, s, b, k, parts, o)
  PROVE  PairOK' /\ made' = made /\ last'.op = "new"
<1>1. made' = made /\ last'.op = "new" /\ backend' = b /\ key' = o.key /\ owned' = owned \cup o.owned
  BY Zenon DEF Constructed
<1>2. object = "none" /\ owned \subseteq {"cf_error"}
  BY SMTT(30) DEF PairOK, MayConstruct
<1>3. CASE o.ret # "ok"
  <2>1. o.key = Blank /\ o.owned \subseteq {"cf_error"}
    BY <1>3 DEF Good
  <2>2. object' = "none" /\ of' = NoKey /\ knows' = {}
    BY <1>2, <1>3 DEF Constructed, refVars
  <2> QED
    BY <1>1, <1>2, <2>1, <2>2, BlankIs, Zenon DEF PairOK
<1>4. CASE o.ret = "ok"
  <2> DEFINE ps == IF o.refused THEN {} ELSE parts
  <2>1. IsKey(o.key) /\ Given(b, k, ps, o.key, o.owned)
    BY <1>4, ZenonT(40) DEF Good
  <2>2. object' = "live" /\ of' = k
    BY <1>4 DEF Constructed, NewReference
  <2>3. knows' = ps
    BY <1>4, ZenonT(40) DEF Constructed
  <2> HIDE DEF ps
  <2>4. (owned \cup o.owned) \ {"cf_error"} = o.owned \ {"cf_error"}
    BY <1>2, Zenon
  <2>5. Given(b, k, ps, o.key, owned \cup o.owned)
    BY <2>1, <2>4, GivenWithErrors, Zenon
  <2>6. /\ backend' \in Backend /\ IsKey(key') /\ of' \in Keys
        /\ Given(backend', of', knows', key', owned')
    BY <1>1, <2>1, <2>2, <2>3, <2>5, Zenon
  <2>7. IsKey(key)' /\ Given(backend, of, knows, key, owned)'
    BY <2>6, Zenon DEF IsKey, Given, Shows
  <2> QED
    BY <1>1, <2>2, <2>6, <2>7, ZenonT(40) DEF PairOK
<1> QED
  BY <1>3, <1>4, SMTT(30)

\* A thread that holds the pair finds it live.
LEMMA HeldPair ==
  ASSUME RefInv, PairOK, NEW t, Holds(t)
  PROVE  /\ object = "live" /\ of \in Keys /\ IsKey(key) /\ Given(backend, of, knows, key, owned)
         /\ backend \in Backend
<1>1. object = "live"
  BY DEF Holds, RefInv, NoUseAfterFree
<1> QED
  BY <1>1 DEF PairOK

\* Derive, on every platform.
LEMMA DeriveOK ==
  ASSUME RefInv, PairOK, NEW t, aws_ecc_key_pair_derive_public_key(t)
  PROVE  PairOK' /\ made' = made /\ last'.op = "derive"
<1>1. /\ object = "live" /\ of \in Keys /\ IsKey(key) /\ Given(backend, of, knows, key, owned)
      /\ backend \in Backend
  BY HeldPair DEF aws_ecc_key_pair_derive_public_key
<1>2. PICK o \in Platform(backend, s_derive_public_key_libcrypto(key, owned),
                          s_derive_public_key_windows(key, owned), s_derive_public_key_darwin(key, owned)) :
        /\ key' = o.key
        /\ owned' = o.owned
        /\ knows' = IF o.ret = "ok" /\ knows # {} THEN knows \cup {"pub"} ELSE knows
        /\ last' = Call("derive", o.ret)
  BY Zenon DEF aws_ecc_key_pair_derive_public_key
<1>3. object' = "live" /\ backend' = backend /\ of' = of /\ made' = made
  BY <1>1, ZenonT(40) DEF aws_ecc_key_pair_derive_public_key, refVars
<1>4. Derived(backend, of, knows, o)
  <2>1. CASE backend = "libcrypto"
    <3>1. o \in s_derive_public_key_libcrypto(key, owned)
      BY <1>2, <2>1 DEF Platform
    <3> QED
      BY <1>1, <2>1, <3>1, ODerive, ZenonT(40)
  <2>2. CASE backend = "windows"
    <3>1. o \in s_derive_public_key_windows(key, owned)
      BY <1>2, <2>2 DEF Platform
    <3> QED
      BY <1>1, <2>2, <3>1, BDerive, Zenon
  <2>3. CASE backend = "darwin"
    <3>1. o \in s_derive_public_key_darwin(key, owned)
      BY <1>2, <2>3 DEF Platform
    <3> QED
      BY <1>1, <2>3, <3>1, SDerive, ZenonT(40)
  <2> QED
    BY <1>1, <2>1, <2>2, <2>3, PairAssumption
<1>5. IsKey(key') /\ Given(backend', of', knows', key', owned')
  BY <1>2, <1>3, <1>4, Zenon DEF Derived
<1>6. IsKey(key)' /\ Given(backend, of, knows, key, owned)'
  BY <1>5, Zenon DEF IsKey, Given, Shows
<1> QED
  BY <1>1, <1>2, <1>3, <1>6, ZenonT(40) DEF PairOK, Call

\* A call that leaves the pair as it is, but for error objects.
LEMMA OnlyErrors ==
  ASSUME PairOK, object = "live", UNCHANGED <<object, backend, key, of, knows>>,
         owned' \in {owned, owned \cup {"cf_error"}}
  PROVE  PairOK'
<1>1. owned' \ {"cf_error"} = owned \ {"cf_error"}
  OBVIOUS
<1>2. Given(backend, of, knows, key, owned)
  BY DEF PairOK
<1>3. Given(backend', of', knows', key', owned')
  <2>1. Given(backend, of, knows, key, owned')
    BY <1>1, <1>2, GivenWithErrors, Zenon
  <2> QED
    BY <2>1, Zenon
<1>4. IsKey(key)' /\ Given(backend, of, knows, key, owned)'
  BY <1>3, Zenon DEF IsKey, Given, Shows, PairOK
<1> QED
  BY <1>4, Zenon DEF PairOK

\* ecc.c:165-169.  signature_length is the same on the three platforms.
LEMMA LengthIs ==
  ASSUME NEW b \in Backend, NEW k \in Keys, NEW ky, ky.curve = CurveOf[k]
  PROVE  /\ aws_ecc_key_pair_signature_length(b, ky) = 8 + 2 * CoordinateBytes[CurveOf[k]]
         /\ aws_ecc_key_pair_signature_length(b, ky) \in Nat
         /\ aws_ecc_key_pair_signature_length(b, ky) - 2 \in Nat
<1>1. b \in {"libcrypto", "windows", "darwin"} /\ CoordinateBytes[CurveOf[k]] \in Nat
  BY PairAssumption, Material
<1> QED
  BY <1>1 DEF aws_ecc_key_pair_signature_length, Platform, s_signature_length_libcrypto,
    s_signature_length_windows, s_signature_length_darwin,
    aws_ecc_key_coordinate_byte_size_from_curve_name

\* Signing, on every platform.
LEMMA Signs ==
  ASSUME NEW b \in Backend, NEW k \in Keys, NEW parts, NEW ky, NEW w, IsKey(ky),
         Given(b, k, parts, ky, w),
         NEW room \in Nat,
         NEW o \in Platform(b, s_sign_payload(ky, w, room), s_sign_message_windows(ky, w, room),
                               s_sign_message_darwin(ky, w, room))
  PROVE  SignedWell(b, k, w, aws_ecc_key_pair_signature_length(b, ky), room, o)
<1>1. CASE b = "libcrypto"
  <2>1. /\ o \in s_sign_payload(ky, w, room)
        /\ aws_ecc_key_pair_signature_length(b, ky) = s_signature_length_libcrypto(ky)
    BY <1>1 DEF Platform, aws_ecc_key_pair_signature_length
  <2> QED
    BY <1>1, <2>1, OSigns, Zenon
<1>2. CASE b = "windows"
  <2>1. /\ o \in s_sign_message_windows(ky, w, room)
        /\ aws_ecc_key_pair_signature_length(b, ky) = s_signature_length_windows(ky)
    BY <1>2 DEF Platform, aws_ecc_key_pair_signature_length
  <2> QED
    BY <1>2, <2>1, BSigns, Zenon
<1>3. CASE b = "darwin"
  <2>1. /\ o \in s_sign_message_darwin(ky, w, room)
        /\ aws_ecc_key_pair_signature_length(b, ky) = s_signature_length_darwin(ky)
    BY <1>3, SMTT(30) DEF Platform, aws_ecc_key_pair_signature_length
  <2> QED
    BY <1>3, <2>1, SSigns, Zenon
<1> QED
  BY <1>1, <1>2, <1>3, PairAssumption

\* The signature is by the key of the pair, and fits.
LEMMA SignOK ==
  ASSUME RefInv, PairOK, MadeOK, NEW t, aws_ecc_key_pair_sign_message(t)
  PROVE  PairOK' /\ MadeOK' /\ last'.op = "sign" /\ SignatureFits'
<1>1. /\ object = "live" /\ of \in Keys /\ IsKey(key) /\ Given(backend, of, knows, key, owned)
      /\ backend \in Backend
  BY HeldPair DEF aws_ecc_key_pair_sign_message
<1> DEFINE length == aws_ecc_key_pair_signature_length(backend, key)
<1>2. length \in Nat /\ length - 2 \in Nat
  <2>1. key.curve = CurveOf[of]
    BY <1>1, SMTT(30) DEF Given
  <2> QED
    BY <1>1, <2>1, LengthIs, ZenonT(40)
<1>3. UNCHANGED <<object, backend, key, of, knows>>
  BY DEF aws_ecc_key_pair_sign_message, refVars
<1>4. PICK room \in {length - 2, length} :
      \E o \in Platform(backend, s_sign_payload(key, owned, room),
                       s_sign_message_windows(key, owned, room), s_sign_message_darwin(key, owned, room)) :
       /\ Cardinality(made \cup o.sig) <= MaxSignatures
       /\ made' = made \cup o.sig
       /\ owned' = o.owned
       /\ last' = [op |-> "sign", ret |-> o.ret, room |-> room, wrote |-> o.wrote]
  BY Zenon DEF aws_ecc_key_pair_sign_message
<1>5. PICK o \in Platform(backend, s_sign_payload(key, owned, room),
                       s_sign_message_windows(key, owned, room), s_sign_message_darwin(key, owned, room)) :
       /\ Cardinality(made \cup o.sig) <= MaxSignatures
       /\ made' = made \cup o.sig
       /\ owned' = o.owned
       /\ last' = [op |-> "sign", ret |-> o.ret, room |-> room, wrote |-> o.wrote]
  BY <1>4, Zenon
<1> HIDE DEF length
<1>6. room \in Nat
  BY <1>2
<1>7. SignedWell(backend, of, owned, length, room, o)
  BY <1>1, <1>5, <1>6, Signs, ZenonT(40) DEF length
<1>8. PairOK'
  <2>1. owned' \in {owned, owned \cup {"cf_error"}}
    BY <1>5, <1>7, SMTT(30) DEF SignedWell
  <2> QED
    BY <1>1, <1>3, <2>1, OnlyErrors, SMTT(30)
<1>9. MadeOK'
  <2>1. \A sig \in made \cup o.sig : SigOK(sig)
    BY <1>7 DEF MadeOK, SignedWell
  <2> QED
    BY <1>5, <2>1, SMTT(30) DEF MadeOK, SigOK
<1>10. aws_ecc_key_pair_signature_length(backend, key)' = length
  BY <1>3, SMTT(30) DEF length, aws_ecc_key_pair_signature_length, Platform,
    s_signature_length_libcrypto,
    s_signature_length_windows, s_signature_length_darwin,
    aws_ecc_key_coordinate_byte_size_from_curve_name
<1>11. last'.op = "sign" /\ last'.ret = o.ret /\ last'.room = room /\ last'.wrote = o.wrote
  BY <1>5, SMTT(30)
<1>12. SignatureFits'
  BY <1>3, <1>7, <1>10, <1>11, SMTT(30) DEF SignatureFits, SignedWell
<1> QED
  BY <1>8, <1>9, <1>11, <1>12, SMTT(30)

\* The verdict is right.
LEMMA VerifyOK ==
  ASSUME RefInv, PairOK, MadeOK, NEW t, NEW sig \in made, aws_ecc_key_pair_verify_signature(t, sig)
  PROVE  PairOK' /\ made' = made /\ last'.op = "verify" /\ SignaturesTravel'
<1>1. /\ object = "live" /\ of \in Keys /\ IsKey(key) /\ Given(backend, of, knows, key, owned)
      /\ backend \in Backend
  BY HeldPair DEF aws_ecc_key_pair_verify_signature
<1>2. UNCHANGED <<object, backend, key, of, knows>> /\ made' = made
  BY DEF aws_ecc_key_pair_verify_signature, refVars
<1>3. PICK o \in Platform(backend, s_verify_payload(key, owned, sig),
                       s_verify_signature_windows(key, owned, sig),
                       s_verify_signature_darwin(key, owned, sig)) :
       /\ owned' = o.owned
       /\ last' = [op |-> "verify", ret |-> o.ret, erred |-> o.erred, by |-> sig.by]
  BY Zenon DEF aws_ecc_key_pair_verify_signature
<1>4. SigOK(sig)
  BY DEF MadeOK
<1>5. Verified(of, knows, owned, sig, o)
  <2>1. CASE backend = "libcrypto"
    <3>1. o \in s_verify_payload(key, owned, sig)
      BY <1>3, <2>1 DEF Platform
    <3> QED
      BY <1>1, <1>4, <2>1, <3>1, OVerifies, Zenon
  <2>2. CASE backend = "windows"
    <3>1. o \in s_verify_signature_windows(key, owned, sig)
      BY <1>3, <2>2 DEF Platform
    <3> QED
      BY <1>1, <1>4, <2>2, <3>1, BVerifies, ZenonT(40)
  <2>3. CASE backend = "darwin"
    <3>1. o \in s_verify_signature_darwin(key, owned, sig)
      BY <1>3, <2>3 DEF Platform
    <3> QED
      BY <1>1, <1>4, <2>3, <3>1, SVerifies, ZenonT(40)
  <2> QED
    BY <1>1, <2>1, <2>2, <2>3, PairAssumption
<1>6. PairOK'
  <2>1. owned' \in {owned, owned \cup {"cf_error"}}
    BY <1>3, <1>5, ZenonT(40) DEF Verified
  <2> QED
    BY <1>1, <1>2, <2>1, OnlyErrors
<1>7. last'.op = "verify" /\ last'.ret = o.ret /\ last'.erred = o.erred /\ last'.by = sig.by
  BY <1>3
<1>8. SignaturesTravel'
  BY <1>2, <1>5, <1>7, ZenonT(40) DEF SignaturesTravel, Verified
<1> QED
  BY <1>2, <1>6, <1>7, <1>8, Zenon

\* ecc.c:136-141.  Destroying releases what the pair owns, on every platform.
LEMMA DestroyOK ==
  ASSUME RefInv, PairOK, NEW t, Destroy(t)
  PROVE  PairOK' /\ made' = made /\ last'.op = "destroy"
<1>1. object = "live" /\ object' = "none"
  BY DEF Destroy, s_aws_ecc_key_pair_destroy, RefInv, DestroyedOnce
<1>2. /\ key' = Blank /\ of' = NoKey /\ knows' = {} /\ backend' = backend /\ made' = made
      /\ last'.op = "destroy"
  BY DEF Destroy, Call
<1>3. backend \in {"libcrypto", "windows", "darwin"} /\ backend \in Backend
  BY PairAssumption DEF PairOK
<1>4. owned \ {"cf_error"} \subseteq PartsOf(backend)
  BY <1>1 DEF PairOK, Given
<1>5. owned' \subseteq {"cf_error"}
  BY <1>3, <1>4 DEF Destroy, Platform, PartsOf, s_key_pair_destroy, s_destroy_key_windows,
    s_destroy_key_darwin
<1> QED
  BY <1>1, <1>2, <1>3, <1>5, BlankIs DEF PairOK

\* What every step keeps.
EccInv == PairOK /\ MadeOK /\ SignaturesTravel /\ SignatureFits

\* A call of another kind says nothing of signatures.
LEMMA OtherCall ==
  ASSUME MadeOK, PairOK', made' = made, NEW op \in {"new", "derive", "acquire", "release", "destroy"},
         last'.op = op
  PROVE  EccInv'
<1>1. MadeOK'
  BY DEF MadeOK, SigOK
<1> QED
  BY <1>1 DEF EccInv, SignaturesTravel, SignatureFits

\* The five constructors keep it.
LEMMA EccNew ==
  ASSUME EccInv, NEW t \in Thread, NEW s \in Slot, NEW b \in Backend, NEW k \in Keys,
         \/ aws_ecc_key_pair_new_from_private_key(t, s, b, k)
         \/ aws_ecc_key_pair_new_from_public_key(t, s, b, k)
         \/ aws_ecc_key_new_from_hex_coordinates(t, s, b, k)
         \/ aws_ecc_key_pair_new_generate_random(t, s, b, k)
         \/ aws_ecc_key_pair_new_from_asn1(t, s, b, k)
  PROVE  EccInv'
<1>1. MayConstruct
  BY Zenon DEF aws_ecc_key_pair_new_from_private_key, aws_ecc_key_pair_new_from_public_key,
    aws_ecc_key_new_from_hex_coordinates, aws_ecc_key_pair_new_generate_random,
    aws_ecc_key_pair_new_from_asn1
<1>2. ASSUME NEW parts, NEW o, Good(b, k, parts, o), Constructed(t, s, b, k, parts, o)
      PROVE  EccInv'
  <2>1. PairOK' /\ made' = made /\ last'.op = "new"
    BY <1>1, <1>2, ConstructedOK, Zenon DEF EccInv
  <2> QED
    BY <2>1, OtherCall DEF EccInv
<1>3. CASE aws_ecc_key_pair_new_from_private_key(t, s, b, k)
  BY <1>2, <1>3, NewPrivate, Zenon DEF aws_ecc_key_pair_new_from_private_key
<1>4. CASE aws_ecc_key_pair_new_from_public_key(t, s, b, k)
  <2>1. X[k] \in Seq(Byte) /\ Y[k] \in Seq(Byte) /\ Same(X[k], X[k]) /\ Same(Y[k], Y[k])
    BY Material DEF Same
  <2> QED
    BY <1>2, <1>4, <2>1, NewPublic, ZenonT(40) DEF aws_ecc_key_pair_new_from_public_key
<1>5. CASE aws_ecc_key_new_from_hex_coordinates(t, s, b, k)
  BY <1>2, <1>5, NewHex, Zenon DEF aws_ecc_key_new_from_hex_coordinates
<1>6. CASE aws_ecc_key_pair_new_generate_random(t, s, b, k)
  BY <1>2, <1>6, NewGenerated, Zenon DEF aws_ecc_key_pair_new_generate_random
<1>7. CASE aws_ecc_key_pair_new_from_asn1(t, s, b, k)
  BY <1>2, <1>7, NewDocument, Zenon DEF aws_ecc_key_pair_new_from_asn1
<1> QED
  BY <1>3, <1>4, <1>5, <1>6, <1>7, ZenonT(40)

\* Every call keeps it.
LEMMA EccNext ==
  ASSUME RefInv, EccInv, Next
  PROVE  EccInv'
<1>1. PairOK /\ MadeOK
  BY DEF EccInv
<1>2. PICK t \in Thread :
        \/ Destroy(t)
        \/ aws_ecc_key_pair_derive_public_key(t)
        \/ aws_ecc_key_pair_sign_message(t)
        \/ \E sig \in made : aws_ecc_key_pair_verify_signature(t, sig)
        \/ \E s \in Slot :
             \/ Release(t, s)
             \/ \E u \in Thread : Acquire(t, u, s)
             \/ \E b \in Backend, k \in Keys :
                  \/ aws_ecc_key_pair_new_from_private_key(t, s, b, k)
                  \/ aws_ecc_key_pair_new_from_public_key(t, s, b, k)
                  \/ aws_ecc_key_new_from_hex_coordinates(t, s, b, k)
                  \/ aws_ecc_key_pair_new_generate_random(t, s, b, k)
                  \/ aws_ecc_key_pair_new_from_asn1(t, s, b, k)
  BY Zenon DEF Next
<1>3. CASE Destroy(t)
  BY <1>1, <1>3, DestroyOK, OtherCall
<1>4. CASE aws_ecc_key_pair_derive_public_key(t)
  BY <1>1, <1>4, DeriveOK, OtherCall, SMTT(30)
<1>5. CASE aws_ecc_key_pair_sign_message(t)
  <2>1. PairOK' /\ MadeOK' /\ last'.op = "sign" /\ SignatureFits'
    BY <1>1, <1>5, SignOK, ZenonT(40)
  <2> QED
    BY <2>1 DEF EccInv, SignaturesTravel
<1>6. ASSUME NEW sig \in made, aws_ecc_key_pair_verify_signature(t, sig)
      PROVE  EccInv'
  <2>1. PairOK' /\ made' = made /\ last'.op = "verify" /\ SignaturesTravel'
    BY <1>1, <1>6, VerifyOK, ZenonT(40)
  <2>2. MadeOK'
    BY <1>1, <2>1 DEF MadeOK, SigOK
  <2> QED
    BY <2>1, <2>2 DEF EccInv, SignatureFits
<1>7. ASSUME NEW s \in Slot, Release(t, s)
      PROVE  EccInv'
  <2>1. PairOK' /\ made' = made /\ last'.op = "release"
    BY <1>1, <1>7, Zenon DEF Release, aws_ecc_key_pair_release, pairVars, Call, PairOK, IsKey,
      Given, Shows
  <2> QED
    BY <1>1, <2>1, OtherCall, SMTT(30)
<1>8. ASSUME NEW s \in Slot, NEW u \in Thread, Acquire(t, u, s)
      PROVE  EccInv'
  <2>1. PairOK' /\ made' = made /\ last'.op = "acquire"
    BY <1>1, <1>8, Zenon DEF Acquire, aws_ecc_key_pair_acquire, pairVars, Call, PairOK, IsKey,
      Given, Shows
  <2> QED
    BY <1>1, <2>1, OtherCall, SMTT(30)
<1> QED
  BY <1>2, <1>3, <1>4, <1>5, <1>6, <1>7, <1>8, EccNew, ZenonT(40)

-----------------------------------------------------------------------------
(* The reference count. *)

\* ecc.c:285-287.  Acquiring counts one more reference.
LEMMA AcquireKeeps ==
  ASSUME RefInv, NEW t \in Thread, NEW u \in Thread, NEW s \in Slot,
         aws_ecc_key_pair_acquire(t, u, s)
  PROVE  RefInv'
<1>1. held # {} /\ <<u, s>> \in Reference /\ <<u, s>> \notin held
  BY DEF aws_ecc_key_pair_acquire, Holds, Reference
<1>2. IsFiniteSet(held') /\ Cardinality(held') = Cardinality(held) + 1
  BY <1>1, FS_AddElement, ZenonT(40) DEF RefInv, CountIsReferences, aws_ecc_key_pair_acquire
<1>3. CountIsReferences'
  BY <1>2 DEF RefInv, CountIsReferences, aws_ecc_key_pair_acquire
<1>4. RefTypeOK'
  BY <1>1 DEF RefInv, RefTypeOK, aws_ecc_key_pair_acquire
<1>5. NoUseAfterFree' /\ DestroyedOnce' /\ LastReleaseSeen'
  BY <1>1 DEF RefInv, NoUseAfterFree, DestroyedOnce, LastReleaseSeen, aws_ecc_key_pair_acquire
<1> QED
  BY <1>3, <1>4, <1>5 DEF RefInv

\* ecc.c:289-299.  The release that finds the count at one gave up the only reference.
LEMMA ReleaseKeeps ==
  ASSUME RefInv, NEW t \in Thread, NEW s \in Slot, aws_ecc_key_pair_release(t, s)
  PROVE  RefInv'
<1>1. <<t, s>> \in held /\ object = "live" /\ releasing = {}
  BY DEF RefInv, NoUseAfterFree, aws_ecc_key_pair_release
<1>2. IsFiniteSet(held') /\ Cardinality(held') = Cardinality(held) - 1
  BY <1>1, FS_RemoveElement, ZenonT(40) DEF RefInv, CountIsReferences, aws_ecc_key_pair_release
<1>3. Cardinality(held') \in Nat /\ ref_count' = Cardinality(held')
  BY <1>2, FS_CardinalityType DEF RefInv, CountIsReferences, aws_ecc_key_pair_release
<1>4. CountIsReferences' /\ RefTypeOK'
  BY <1>1, <1>2, <1>3 DEF RefInv, RefTypeOK, CountIsReferences, aws_ecc_key_pair_release
<1>5. ref_count = 1 <=> held' = {}
  <2>1. ref_count = 1 <=> ref_count' = 0
    BY DEF RefInv, RefTypeOK, aws_ecc_key_pair_release
  <2>2. ref_count' = 0 <=> held' = {}
    BY <1>2, <1>3, FS_EmptySet, ZenonT(40)
  <2> QED
    BY <2>1, <2>2
<1>6. CASE ref_count = 1
  <2>1. held' = {} /\ releasing' = {t} /\ object' = "live"
    BY <1>1, <1>5, <1>6 DEF aws_ecc_key_pair_release
  <2> QED
    BY <1>4, <2>1 DEF RefInv, NoUseAfterFree, DestroyedOnce, LastReleaseSeen
<1>7. CASE ref_count # 1
  <2>1. held' # {} /\ releasing' = {} /\ object' = "live"
    BY <1>1, <1>5, <1>7 DEF aws_ecc_key_pair_release
  <2> QED
    BY <1>4, <2>1 DEF RefInv, NoUseAfterFree, DestroyedOnce, LastReleaseSeen
<1> QED
  BY <1>6, <1>7

\* A constructor starts the count at its one reference.
LEMMA NewKeeps ==
  ASSUME RefInv, NEW t \in Thread, NEW s \in Slot, NewReference(t, s)
  PROVE  RefInv'
<1>1. IsFiniteSet({<<t, s>>}) /\ Cardinality({<<t, s>>}) = 1
  BY FS_Singleton, Zenon
<1>2. CountIsReferences' /\ RefTypeOK'
  BY <1>1 DEF RefInv, RefTypeOK, CountIsReferences, NewReference, Reference
<1> QED
  BY <1>2, Zenon DEF RefInv, NoUseAfterFree, DestroyedOnce, LastReleaseSeen, NewReference

\* The thread that destroys the pair is the only one, and nobody refers to the pair.
LEMMA DestroyKeeps ==
  ASSUME RefInv, NEW t \in Thread, s_aws_ecc_key_pair_destroy(t)
  PROVE  RefInv'
<1>1. held = {} /\ object = "live" /\ releasing = {t}
  BY DEF RefInv, NoUseAfterFree, DestroyedOnce, s_aws_ecc_key_pair_destroy
<1>2. held' = {} /\ object' = "none" /\ releasing' = {} /\ ref_count' = ref_count
  BY <1>1 DEF s_aws_ecc_key_pair_destroy
<1>3. CountIsReferences' /\ RefTypeOK'
  BY <1>1, <1>2 DEF RefInv, RefTypeOK, CountIsReferences
<1> QED
  BY <1>2, <1>3 DEF RefInv, NoUseAfterFree, DestroyedOnce, LastReleaseSeen

\* RefInv is an inductive invariant of the shared key pair.
THEOREM RefInductive == RefSpec => []RefInv
<1>1. RefInit => RefInv
  <2>1. IsFiniteSet({}) /\ Cardinality({}) = 0
    BY FS_EmptySet
  <2> QED
    BY <2>1 DEF RefInit, RefInv, RefTypeOK, CountIsReferences, NoUseAfterFree, DestroyedOnce,
                LastReleaseSeen
<1>2. RefInv /\ [RefNext]_refVars => RefInv'
  <2> SUFFICES ASSUME RefInv, [RefNext]_refVars PROVE RefInv'
    OBVIOUS
  <2>1. CASE UNCHANGED refVars
    BY <2>1 DEF refVars, RefInv, RefTypeOK, CountIsReferences, NoUseAfterFree, DestroyedOnce,
                LastReleaseSeen
  <2>2. ASSUME NEW t \in Thread, s_aws_ecc_key_pair_destroy(t) PROVE RefInv'
    BY <2>2, DestroyKeeps
  <2>3. ASSUME NEW t \in Thread, NEW s \in Slot, NewReference(t, s) PROVE RefInv'
    BY <2>3, NewKeeps
  <2>4. ASSUME NEW t \in Thread, NEW s \in Slot, aws_ecc_key_pair_release(t, s) PROVE RefInv'
    BY <2>4, ReleaseKeeps
  <2>5. ASSUME NEW t \in Thread, NEW u \in Thread, NEW s \in Slot,
               aws_ecc_key_pair_acquire(t, u, s)
        PROVE  RefInv'
    BY <2>5, AcquireKeeps
  <2> QED
    BY <2>1, <2>2, <2>3, <2>4, <2>5, SMTT(30) DEF RefNext
<1> QED
  BY <1>1, <1>2, PTL DEF RefSpec

\* ecc.c:285-299.  However the threads interleave, a held pointer is to a live pair.
THEOREM HeldIsLive == RefSpec => []NoUseAfterFree
<1>1. RefInv => NoUseAfterFree
  BY DEF RefInv
<1> QED
  BY <1>1, RefInductive, PTL

\* ecc.c:294.  However the threads interleave, the pair is destroyed by one thread, once.
THEOREM FreedOnce == RefSpec => []DestroyedOnce
<1>1. RefInv => DestroyedOnce
  BY DEF RefInv
<1> QED
  BY <1>1, RefInductive, PTL

\* ecc.c:294-298.  A pair without references always has a thread that will destroy it.
THEOREM NoneForgotten == RefSpec => []LastReleaseSeen
<1>1. RefInv => LastReleaseSeen
  BY DEF RefInv
<1> QED
  BY <1>1, RefInductive, PTL

-----------------------------------------------------------------------------
(* The pairs. *)

\* However a constructor ended: with the first reference, or with none (the constructors of
\* ecc.c and the three back ends).
LEMMA ConstructedStep ==
  ASSUME NEW t \in Thread, NEW s \in Slot, NEW b, NEW k, NEW parts, NEW o,
         Constructed(t, s, b, k, parts, o)
  PROVE  [RefNext]_refVars
  <1>1. CASE o.ret = "ok"
    <2>1. NewReference(t, s)
      BY <1>1, SMTT(30) DEF Constructed
    <2>2. QED
      BY <2>1, SMTT(30) DEF RefNext
  <1>2. CASE o.ret # "ok"
    BY <1>2 DEF Constructed
  <1>3. QED
    BY <1>1, <1>2

\* Each call on a pair, on each platform, is a step of the reference count or none.
LEMMA PairStep == Next => [RefNext]_refVars
  <1> SUFFICES ASSUME Next PROVE [RefNext]_refVars
    OBVIOUS
  <1>1. PICK t \in Thread :
          \/ Destroy(t)
          \/ aws_ecc_key_pair_derive_public_key(t)
          \/ aws_ecc_key_pair_sign_message(t)
          \/ \E sig \in made : aws_ecc_key_pair_verify_signature(t, sig)
          \/ \E s \in Slot :
               \/ Release(t, s)
               \/ \E u \in Thread : Acquire(t, u, s)
               \/ \E b \in Backend, k \in Keys :
                    \/ aws_ecc_key_pair_new_from_private_key(t, s, b, k)
                    \/ aws_ecc_key_pair_new_from_public_key(t, s, b, k)
                    \/ aws_ecc_key_new_from_hex_coordinates(t, s, b, k)
                    \/ aws_ecc_key_pair_new_generate_random(t, s, b, k)
                    \/ aws_ecc_key_pair_new_from_asn1(t, s, b, k)
    BY DEF Next
  <1>2. CASE Destroy(t)
    BY <1>2 DEF Destroy, RefNext
  <1>3. CASE aws_ecc_key_pair_derive_public_key(t)
    BY <1>3, SMTT(30) DEF aws_ecc_key_pair_derive_public_key
  <1>4. CASE aws_ecc_key_pair_sign_message(t)
    BY <1>4, Zenon DEF aws_ecc_key_pair_sign_message
  <1>5. CASE \E sig \in made : aws_ecc_key_pair_verify_signature(t, sig)
    BY <1>5 DEF aws_ecc_key_pair_verify_signature
  <1>6. ASSUME NEW s \in Slot, Release(t, s)
        PROVE  [RefNext]_refVars
    BY <1>6 DEF Release, RefNext
  <1>7. ASSUME NEW s \in Slot, NEW u \in Thread, Acquire(t, u, s)
        PROVE  [RefNext]_refVars
    BY <1>7 DEF Acquire, RefNext
  <1>8. ASSUME NEW s \in Slot, NEW b \in Backend, NEW k \in Keys,
               \/ aws_ecc_key_pair_new_from_private_key(t, s, b, k)
               \/ aws_ecc_key_pair_new_from_public_key(t, s, b, k)
               \/ aws_ecc_key_new_from_hex_coordinates(t, s, b, k)
               \/ aws_ecc_key_pair_new_generate_random(t, s, b, k)
               \/ aws_ecc_key_pair_new_from_asn1(t, s, b, k)
        PROVE  [RefNext]_refVars
    <2>1. \E parts, o : Constructed(t, s, b, k, parts, o)
      BY <1>8, Zenon
         DEF aws_ecc_key_pair_new_from_private_key, aws_ecc_key_pair_new_from_public_key,
             aws_ecc_key_new_from_hex_coordinates, aws_ecc_key_pair_new_generate_random,
             aws_ecc_key_pair_new_from_asn1
    <2>2. QED
      BY <2>1, ConstructedStep
  <1>9. QED
    BY <1>1, <1>2, <1>3, <1>4, <1>5, <1>6, <1>7, <1>8, SMTT(30)

\* Pairs are shared by reference on every platform, whatever their calls and constructors
\* do besides: EccKeyPair implements EccKeyRef.
THEOREM SharingRefines == Spec => SharesByReference
  <1>1. Init => RefInit
    BY DEF Init
  <1>2. [Next]_vars => [RefNext]_refVars
    <2>1. CASE Next
      BY <2>1, PairStep
    <2>2. CASE UNCHANGED vars
      BY <2>2 DEF vars
    <2>3. QED
      BY <2>1, <2>2
  <1>3. QED
    BY <1>1, <1>2, PTL DEF Spec, SharesByReference, RefSpec

\* So the invariant of the reference count holds of the pairs of every platform: no use
\* after free, one destruction, and no release that is missed (ecc.c:285-299).
THEOREM PairsSharedSafely == Spec => []RefInv
  BY SharingRefines, RefInductive, PTL DEF SharesByReference

-----------------------------------------------------------------------------
(* The invariants. *)

\* It holds without a pair.
LEMMA EccInit == Init => EccInv
<1> SUFFICES ASSUME Init PROVE EccInv
  OBVIOUS
<1>1. last.op = "none"
  BY DEF Init, Call
<1>2. PairOK
  BY BlankIs DEF Init, RefInit, PairOK
<1>3. MadeOK
  <2>1. made = {} /\ Cardinality({}) = 0 /\ MaxSignatures \in Nat
    BY FS_EmptySet, PairAssumption DEF Init
  <2> QED
    BY <2>1 DEF MadeOK
<1> QED
  BY <1>1, <1>2, <1>3 DEF EccInv, SignaturesTravel, SignatureFits

\* EccInv is an invariant of the key pairs: of all threads, calls, keys and platforms.
THEOREM EccInductive == Spec => []EccInv
<1>1. RefInv /\ EccInv /\ [Next]_vars => EccInv'
  <2> SUFFICES ASSUME RefInv, EccInv, [Next]_vars PROVE EccInv'
    OBVIOUS
  <2>1. CASE Next
    BY <2>1, EccNext, Zenon
  <2>2. CASE UNCHANGED vars
    <3>1. UNCHANGED <<object, backend, key, owned, of, knows, made, last>>
      BY <2>2, ZenonT(40) DEF vars, refVars, pairVars
    <3>2. PairOK' /\ MadeOK'
      BY <3>1, Zenon DEF EccInv, PairOK, IsKey, Given, Shows, MadeOK, SigOK
    <3>3. SignaturesTravel'
      BY <3>1 DEF EccInv, SignaturesTravel
    <3>4. SignatureFits'
      BY <3>1, Zenon DEF EccInv, SignatureFits, aws_ecc_key_pair_signature_length, Platform,
        s_signature_length_libcrypto, s_signature_length_windows, s_signature_length_darwin,
        aws_ecc_key_coordinate_byte_size_from_curve_name
    <3> QED
      BY <3>2, <3>3, <3>4 DEF EccInv
  <2> QED
    BY <2>1, <2>2
<1> QED
  BY <1>1, EccInit, PairsSharedSafely, PTL DEF Spec

\* ecc.c on every platform.  Whatever constructors and calls there were, what a pair shows is
\* the key it was made from, and the provider signs with that key.
THEOREM AlwaysTheKey == Spec => []PartsAreTheKeys
<1>1. RefInv /\ EccInv => PartsAreTheKeys
  <2> SUFFICES ASSUME RefInv, EccInv PROVE PartsAreTheKeys
    BY SMTT(30)
  <2>1. /\ RefTypeOK /\ backend \in Backend /\ IsKey(key) /\ Cardinality(made) <= MaxSignatures
        /\ key.curve \in Curves
        /\ key.priv \in Keys \cup {NoKey} /\ key.pub \in Keys \cup {NoKey, Infinity}
    BY Zenon DEF RefInv, EccInv, PairOK, MadeOK, IsKey
  <2>2. of \in Keys \cup {NoKey} /\ knows \subseteq {"priv", "pub"}
    BY DEF EccInv, PairOK, Given
  <2>3. TypeOK
    BY <2>1, <2>2, ZenonT(40) DEF TypeOK
  <2>4. CASE object = "live"
    <3>1. Given(backend, of, knows, key, owned)
      BY <2>4, SMTT(30) DEF EccInv, PairOK
    <3> QED
      BY <2>3, <3>1, Zenon DEF Given, Shows, PartsAreTheKeys
  <2> QED
    BY <2>3, <2>4 DEF PartsAreTheKeys
<1> QED
  BY <1>1, EccInductive, PairsSharedSafely, PTL

\* s_sign_* and s_verify_* of the three platforms.  A signature made on any platform is accepted
\* on any platform by a pair that has the public key of the signer, and by no other.
THEOREM AlwaysTravel == Spec => []SignaturesTravel
<1>1. EccInv => SignaturesTravel
  BY DEF EccInv
<1> QED
  BY <1>1, EccInductive, PTL

\* ecc.h:139-141.  Signing never writes beyond the room it was given when that is
\* signature_length, nor on the platforms that check it when it is less.
THEOREM AlwaysFits == Spec => []SignatureFits
<1>1. EccInv => SignatureFits
  BY SMTT(30) DEF EccInv
<1> QED
  BY <1>1, EccInductive, PTL

\* The error paths of all constructors, and destroy: nothing but error objects of the Security
\* framework is left when a constructor fails or a pair is destroyed.
THEOREM NeverLeaks == Spec => []NothingLeaks
<1>1. EccInv => NothingLeaks
  BY DEF EccInv, PairOK, Given, NothingLeaks
<1> QED
  BY <1>1, EccInductive, PTL
=============================================================================
