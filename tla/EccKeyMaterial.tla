--------------------------- MODULE EccKeyMaterial ---------------------------
(***************************************************************************)
(* What the ECC back ends share: the bytes of keys and signatures, the     *)
(* loading of a key pair from a decoded DER document (source/ecc.c), and   *)
(* the outcomes of a constructor.                                          *)
(*                                                                         *)
(* A key is a name in Keys; its private scalar D and its public point X, Y *)
(* are byte strings of the length of its curve, and may start with zeros.  *)
(* A byte is one of 0..3 and has two hex digits; half of the bytes have    *)
(* the sign bit.  NULL pointers and empty buffers are <<>>.                *)
(***************************************************************************)
EXTENDS Integers, Sequences

CONSTANTS
  Keys,             \* the keys there are
  CurveOf, D, X, Y, \* their curves and parts
  CoordinateBytes,  \* per curve: 32 and 48 in the code
  Scalars           \* per curve: values the two halves of a signature take

AWS_CAL_ECDSA_P256 == "P256"
AWS_CAL_ECDSA_P384 == "P384"
Curves == {AWS_CAL_ECDSA_P256, AWS_CAL_ECDSA_P384}
Byte == 0..3
SignBit == 2
Hex == 2

\* The numbers above zero that n bytes hold.
Numbers(n) == {bytes \in [1..n -> Byte] : \E i \in 1..n : bytes[i] # 0}

NoKey == "no key"

\* A key is what its private scalar is, and what its point is.
ASSUME KeysAssumption ==
  /\ NoKey \notin Keys
  /\ \A curve \in Curves :
       CoordinateBytes[curve] \in Nat /\ Scalars[curve] \subseteq Numbers(CoordinateBytes[curve])
  /\ \A k \in Keys :
       CurveOf[k] \in Curves /\ {D[k], X[k], Y[k]} \subseteq Numbers(CoordinateBytes[CurveOf[k]])
  /\ \A j, k \in Keys :
       CurveOf[j] = CurveOf[k] /\ (D[j] = D[k] \/ (X[j] = X[k] /\ Y[j] = Y[k])) => j = k

aws_ecc_key_coordinate_byte_size_from_curve_name(curve) == CoordinateBytes[curve]

Zeros(n) == [i \in 1..n |-> 0]

\* The bytes start with n zeros and no more.
StartsWithZeros(bytes, n) ==
  (\A i \in 1..n : bytes[i] = 0) /\ (n < Len(bytes) => bytes[n + 1] # 0)

\* The bytes from the first that is not zero.
Trim(bytes) ==
  LET zeros == CHOOSE n \in 0..Len(bytes) : StartsWithZeros(bytes, n)
  IN  SubSeq(bytes, zeros + 1, Len(bytes))

Pad(bytes, n) == Zeros(n - Len(bytes)) \o bytes

\* Providers read numbers: leading zeros do not matter to them.
Same(a, b) == Trim(a) = Trim(b)

\* The key a provider makes of a private scalar, or of a point.
OfPrivate(curve, d) ==
  {k \in Keys : CurveOf[k] = curve /\ Same(D[k], d)}
OfPublic(curve, x, y) ==
  {k \in Keys : CurveOf[k] = curve /\ Same(X[k], x) /\ Same(Y[k], y)}

-----------------------------------------------------------------------------
(* Loading a key pair from DER.  A document is the list of its TLVs, as     *)
(* DerDecoder flattens it: containers before their elements, a BIT STRING   *)
(* without its first byte.                                                  *)

s_ecc_p256_oid == <<1, 1>>
s_ecc_p384_oid == <<1, 2>>

aws_ecc_curve_name_from_oid(oid) ==
  CASE oid = s_ecc_p256_oid -> {AWS_CAL_ECDSA_P256}
    [] oid = s_ecc_p384_oid -> {AWS_CAL_ECDSA_P384}
    [] OTHER -> {}

aws_ecc_oid_from_curve_name(curve) ==
  IF curve = AWS_CAL_ECDSA_P256 THEN s_ecc_p256_oid ELSE s_ecc_p384_oid

\* Mutant, wrong on purpose: the byte in front of the point is not skipped.
PublicParts_with_preamble(blob, n) ==
  [x |-> SubSeq(blob, 1, n), y |-> SubSeq(blob, n + 1, 2 * n)]

\* A point is written as one byte that says so, and its two coordinates.
PublicParts(blob, n) ==
  [x |-> SubSeq(blob, 2, n + 1), y |-> SubSeq(blob, n + 2, 2 * n + 1)]

First(places) == CHOOSE i \in places : \A j \in places : i <= j
Final(places) == CHOOSE i \in places : \A j \in places : i >= j

\* The last known OID names the curve.
KnownOids(tlvs) ==
  {i \in DOMAIN tlvs : tlvs[i].tag = "oid" /\ aws_ecc_curve_name_from_oid(tlvs[i].value) # {}}
NamedCurve(tlvs) ==
  CHOOSE curve \in Curves :
    aws_ecc_curve_name_from_oid(tlvs[Final(KnownOids(tlvs))].value) = {curve}

\* The first string is one part of the pair and the last of the others is the other part.
Strings(tlvs) == {i \in DOMAIN tlvs : tlvs[i].tag \in {"bits", "octets"}}
OfLength(tlvs, l) ==
  {i \in Strings(tlvs) : /\ i \in {First(Strings(tlvs)), Final(Strings(tlvs))}
                         /\ Len(tlvs[i].value) = l}

\* The lengths of the parts tell which is which, and of two parts of the same length the
\* later one counts.
aws_der_decoder_load_ecc_key_pair(tlvs) ==
  LET n == aws_ecc_key_coordinate_byte_size_from_curve_name(NamedCurve(tlvs))
      private == OfLength(tlvs, n)
      public == OfLength(tlvs, 2 * n + 1)
      point == IF public = {} THEN [x |-> <<>>, y |-> <<>>]
               ELSE PublicParts(tlvs[Final(public)].value, n)
  IN  IF KnownOids(tlvs) = {} \/ private \cup public = {} THEN [ok |-> FALSE]
      ELSE [ok |-> TRUE, curve |-> NamedCurve(tlvs), x |-> point.x, y |-> point.y,
            d |-> IF private = {} THEN <<>> ELSE tlvs[Final(private)].value]

\* What others write: a private key (SEC 1), with the public key or without; a public key
\* (SubjectPublicKeyInfo).  Private scalars and points have their full length.
Tlv(tag, value) == [tag |-> tag, value |-> value]
PointBits(k) == Tlv("bits", <<1>> \o X[k] \o Y[k])
CurveOid(k) == Tlv("oid", aws_ecc_oid_from_curve_name(CurveOf[k]))
PrivateDocument(k) == <<Tlv("sequence", <<>>), Tlv("integer", <<1>>), Tlv("octets", D[k]), CurveOid(k)>>
PairDocument(k) ==
  <<Tlv("sequence", <<>>), Tlv("integer", <<1>>), Tlv("octets", D[k]), CurveOid(k), PointBits(k)>>
PublicDocument(k) ==
  <<Tlv("sequence", <<>>), Tlv("sequence", <<>>), Tlv("oid", <<3>>), CurveOid(k), PointBits(k)>>

HexDigits(bytes) ==
  [i \in 1..(2 * Len(bytes)) |->
     LET byte == bytes[(i + 1) \div 2] IN IF i % 2 = 1 THEN byte \div Hex ELSE byte % Hex]

\* aws_hex_decode of aws-c-common: an odd first digit is a byte of its own.
HexDecode(digits) ==
  LET all == IF Len(digits) % 2 = 1 THEN <<0>> \o digits ELSE digits
  IN  [i \in 1..(Len(all) \div 2) |-> Hex * all[2 * i - 1] + all[2 * i]]

-----------------------------------------------------------------------------
(* Signatures.  DER holds a number in as few bytes as keep it positive;     *)
(* a signature is a SEQUENCE of two such numbers.                           *)

DerNumber(raw) ==
  LET bytes == Trim(raw) IN IF bytes[1] >= SignBit THEN <<0>> \o bytes ELSE bytes

\* Tag and length of the SEQUENCE and of the two numbers take two bytes each.
DerSize(der) == 2 + (2 + Len(der[1])) + (2 + Len(der[2]))

\* A provider that reads DER accepts nothing but the shortest encoding.
ReadsAs(der, r, s) == der = <<DerNumber(r), DerNumber(s)>>

-----------------------------------------------------------------------------
(* What a key pair is made of, and what a call may come to.                 *)

\* struct aws_ecc_key_pair: the parts a caller can read; and the keys that the provider
\* has behind its handles, to sign and to verify with.
Blank == [curve |-> AWS_CAL_ECDSA_P256, pub_x |-> <<>>, pub_y |-> <<>>, priv_d |-> <<>>,
          priv |-> NoKey, pub |-> NoKey]

\* Of a constructor or of derive.  owned: what is allocated or open when it returns;
\* refused: the provider did not take the key.
Outcome(ret, key, owned) == [ret |-> ret, key |-> key, owned |-> owned, refused |-> FALSE]
Null(owned) == Outcome("null", Blank, owned)
Built(key, owned) == Outcome("ok", key, owned)

aws_der_decoder_destroy(outcome) == [outcome EXCEPT !.owned = @ \ {"decoder"}]

\* Of signing: how many bytes went to the caller's buffer, and which.
NotSigned(error, owned) == [ret |-> error, wrote |-> 0, sig |-> {}, owned |-> owned]
Signed(sig, owned) ==
  [ret |-> "ok", wrote |-> DerSize(sig.der), sig |-> {sig}, owned |-> owned]

\* Of verifying: a provider that fails for a reason of its own says invalid, too.
Verdicts(valid, owned) ==
  {[ret |-> IF valid THEN "ok" ELSE "invalid", erred |-> FALSE, owned |-> owned],
   [ret |-> "invalid", erred |-> TRUE, owned |-> owned]}
=============================================================================
